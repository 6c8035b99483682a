# RT-Thread on the CH32V303: a TLA+ model

The repository is a firmware project for the CH32V303RCT6, a single-core RISC-V
microcontroller: a port of RT-Thread 4.1.1 (`rt-thread/`, `libcpu/`), the serial
and GPIO drivers, a small application (`applications/`), the vendor's peripheral
library (`libraries/`), helper libraries (`common/`) and the code of a gas alarm
that uses them (`bsp/`). The project file leaves `common/` and `bsp/` out of the
default build. The logic that is hard to test is the kernel (threads, a
preemptive scheduler, blocking services with timeouts, and timers, interrupted
at any instruction where interrupts are enabled) and, above it, what shares
state with an interrupt, outlives a power failure or counts through many calls.

The build (`rt-thread/rtconfig.h`): one core, 32 priorities, 1000 ticks per
second, `RT_DEBUG` (so `RT_ASSERT` halts), soft timers with a timer thread of
priority 4, a skip list of one level, no idle hooks, no signals.

## 1. Inventory

| Part | State | Operations | What makes it hard | What makes it correct |
|---|---|---|---|---|
| Scheduler (`scheduler.c`) | ready list per priority, bitmap of non-empty lists, current thread, lock nesting | `rt_schedule`, insert, remove, `rt_enter_critical`, `rt_exit_critical` | preemption at every unlock; a switch held back by the lock; one list node per thread | lists, bitmap and `stat` agree; the most urgent thread runs; nobody of equal priority starves |
| Threads (`thread.c`) | `stat`, priority, slice, `error`, thread timer | create, start, sleep, yield, suspend, resume, change priority, exit, delete, detach | services made of two sections with a gap; a timeout in the gap | a thread is never lost, never queued twice, never run after it is closed |
| Idle thread (`idle.c`) | list of defunct threads | enqueue, dequeue and free | frees storage that other calls may hold | what is freed is reachable from nowhere |
| Clock and interrupts (`clock.c`, `irq.c`) | `rt_tick`, nesting | tick, interrupt entry and exit | arrives anywhere | time slices and timers advance |
| IPC base (`ipc.c`) | a list of waiting threads per object | suspend, resume one, resume all | a grant, a timeout, a reset and a detach compete for one waiter | each wait has one answer |
| Semaphore | value | take, trytake, release, reset, init/create, detach/delete | releases from interrupts; the full value | tokens are conserved; nobody waits beside a token |
| Mutex | value, owner, hold, original priority | take, trytake, release, init, detach | recursion; inheritance; hand-over to a thread that has not run | exclusion; exact hold count; no unbounded inversion; priorities given back |
| Event, mailbox, message queue | flag set; ring of slots; lists of blocks | send, receive, control | woken callers that find nothing and wait again with the rest of their timeout | no message lost, duplicated or reordered |
| Timers (`timer.c`) | hard list, soft list, flags, timer thread | start, stop, control, detach, check | wrap-around of ticks; callbacks that touch their own timer; the timer thread's sleep | in order, never early, hard timers never late, soft timers served |
| Small memory heap (`mem.c`) | a chain of blocks, the lowest free one | allocate, free, reallocate | splitting, and joining in both directions | blocks tile the heap, no two overlap, no two neighbours are free |
| Serial input (`serial.c`, `shell.c`) | receive fifo, the shell's semaphore | interrupt store, read, wait | a full fifo; a byte between the look and the wait | newest bytes in order; the shell does not sleep beside a byte |
| Work queue (`workqueue.c`) | list of items, list of delayed items, the item that runs, a timer per item | dowork, submit, urgent, cancel, cancel and wait, cancel all; the worker | calls race with the worker, with each other and with the timer of the item | an item is where the last call put it; a call that waits returns |
| Flash store (`bsp_flash.c`) | rings of records over pages, a configuration page | write a record, read the n-th newest, change a field, first initialisation | power failures between halfwords; read, erase and rewrite of a page; two threads | records read back in order, other fields kept |
| Ring buffer (`lwrb.c`) | `w`, `r`, the bytes | write, read, peek, skip, advance, reset | writer and reader interrupt each other | a bounded queue |
| Buttons (`flexible_button.c`) | stage, two counters, event | scan | stages that count scans, a counter at its limit | every press is told once and as what it was |
| LEDs (`agile_led.c`) | a list of active LEDs, index and round per LED | create, delete, start, stop, change; the walk | callbacks that use the services during the walk | rounds are complete before the callback |
| AT commands (`at_chat.c`) | two queues, the command that runs, its state, what was received | submit, abort, poll | late answers, retries, timeouts | an answer goes to its command; urgent commands end |
| Objects (`object.c`), devices (`device.c`) | a list per class, tables of functions | init, find, detach, open | lookups race with detach | names resolve to live objects |
| Context switch (`libcpu/`, `irq.c`) | the flag, from and to of a deferred switch; the nesting count; registers and stacks | switch, switch from an interrupt, interrupt entry and exit | nested interrupts ask several times | the first *from* is saved, the last *to* runs, each where it was stopped |
| Data queue (`dataqueue.c`) | a ring of items, low-water mark, two lists of waiting threads | push, pop, peek, reset, init, deinit | resumed threads are overtaken; senders are resumed only below the mark | a bounded queue; nobody waits beside an item or beside room below the mark |
| Completion (`completion.c`) | a flag, one waiting thread | wait, done, init | a done beside a timeout; a test without a lock | nobody waits for what is done |
| Rest of the driver-level IPC (`components/drivers/ipc`) | ring buffers, pipes, wait queues | put, get, wait | producer in an interrupt | order and content kept |
| Log, HAL drivers, start-up, `kservice.c`, rest of `bsp/` | tables, buffers, registers | text, registers | mostly sequential | |

**How they interact.** Everything shares one kernel state. Services of `ipc.c`
and `timer.c` call the functions of `thread.c`, which call those of
`scheduler.c`. The tick interrupt calls the scheduler (the slice) and
`rt_timer_check`, whose callbacks, `_thread_timeout` among them, resume threads.
Interrupt handlers call release services and `rt_thread_resume`. The idle thread
consumes what `_thread_exit`, `rt_thread_delete` and `rt_thread_detach` produce.
The timer thread uses `rt_thread_delay`, which uses a hard timer. A work item
has a soft timer; the worker is resumed by whoever gives it the first item. The
serial interrupt fills a fifo and releases the semaphore of the shell. The shell
and `hr_thread` both change the flash; the interrupt of a serial port and
`hr_thread` share a ring buffer. The other parts do not interact.

The hazards, each at its line, are listed in `PROJECT.json`.

## 2. The modules

| Module | Models | How |
|---|---|---|
| `Kernel` | `scheduler.c`, the list functions of `thread.c`, `idle.c` and `ipc.c` | operators from one kernel state (a record) to the next; each stands for code with interrupts disabled |
| `Scheduler` | threads calling the scheduler and thread services under interrupts | one action per section; `pc` tells between which two sections of a call a thread stands |
| `RoundRobin` | the same, cut down to time slicing, with fairness | composes actions of `Scheduler` |
| `Ipc` | what blocking services share | blocking in three parts (suspend, `rt_schedule`, read `error`), timeouts, delays, slices, the `_ipc_list_resume_all` loop |
| `Semaphore`, `Mutex` | the services of `ipc.c` | extend `Ipc` by the object's own fields; `Sem` are the objects used as semaphores |
| `Event` | the event sets of `ipc.c` | extends `Ipc`; the loop of `rt_event_send` is a recursive function over the waiting threads; `EventSet` are the objects used as events |
| `Mailbox`, `MessageQueue` | the storage of mailboxes (a ring) and message queues (block lists) | operators from one storage state to the next, no variables |
| `Channels` | the mailbox and message queue services | extends `Ipc`, uses both storages; `rx` and `tx` are the lists of waiting receivers and senders; `kind` says which object it is, `block` holds the block a message queue call has in hand between its two sections |
| `Channel` | what a mailbox and a message queue promise | abstract: a bounded queue with put, urgent put, get and reset |
| `Clock` | the tick counter, and the times timers are given | constants |
| `Timer` | `timer.c` and the timer thread | `timing` is the state of `timer.c`, `thread_at` and `next_timeout` are the place and the local variable of `_timer_thread_entry`, `handler_at` tells whether `rt_timer_check` runs; threads appear only as callers |
| `Heap` | `mem.c` under the lock of `rt_malloc`, `rt_realloc`, `rt_free` | the headers as a function from offsets; one action per call |
| `Console` | the receive half of `serial.c`, and `finsh_getchar` | bytes are numbered; the interrupt is one action, the reader's look and its wait are two |
| `WorkQueue` | `workqueue.c`: callers, the worker and the timers of delayed items | `caller` and `worker_at` tell where callers and worker stand; work functions may call the queue |
| `Flash` | `bsp_flash.c`: a kind of record, the configuration page, the start-up | `Flash_Write` cell by cell, so that a power failure may come after any of them |
| `LwRB`, `Ring` | `lwrb.c`: one writer, one reader, both stopped between any two bytes | `Ring` holds the index arithmetic |
| `Pipe` | what a ring buffer promises | abstract: a bounded queue of bytes, with the block being written |
| `Button` | `flexible_button.c`, one button | one action per stage and outcome of a scan |
| `Led` | `agile_led.c` | the walk of `agile_led_process` is one action per LED; a callback comes in between |
| `AtChat` | `at_chat.c` as far as commands go, and a modem | a poll reads and handles; answers may come late or never |
| `Switch` | the context switch, at once or deferred by interrupts: `cpuport.c`, `context_gcc.S`, `interrupt_gcc.S`, `irq.c` | a context is a thread and a place in its code; handlers of several levels, each in four stages |
| `Processor` | what a context switch promises | abstract: the chosen thread executes, from where its code was |
| `DataQueue` | `dataqueue.c` | extends `Ipc`; the ring is a record, `PushItem` and `PopItem` are one turn of the loops of the code |
| `Completion` | `completion.c` | extends `Ipc` by the flag; `Waiter` is the one thread that waits for each of `Completions` |
| `Lists` | `Member` and `Unlink`: is a node in a list, take it off | used by `Kernel`, `WorkQueue` and `Timer` |
| `Limits` | `SemMax`, `HoldMax` of `rtdef.h` | constants |
| `KernelProofs`, `SchedulerProofs` | lemmas on lists and on the operators of `Kernel`; theorems about `Scheduler` and `Switch` | section 5 |
| `IpcProofs` | lemmas on queues, blocking, resuming and the steps of `Ipc` | extends `Ipc` and `KernelProofs`; what every service on top of `Ipc` needs |
| `ServicesProofs`, `MutexProofs`, `ChannelsProofs` | theorems about semaphores, events and completions; mutexes; mailboxes, message queues and data queues | each extends its services and `IpcProofs` |
| `TimerProofs` | theorems about the timers | extends `Timer` and, for lists, `KernelProofs` |
| `DeviceProofs` | theorems about the ring buffer, the serial input, the button, the heap, the AT commands, the configuration, the work queue and the LEDs | section 5 |
| `MC*` | instances for TLC | section 3 |

**The grain.** On one core, code between `rt_hw_interrupt_disable` and
`rt_hw_interrupt_enable` is atomic, so it is one step. Where a service has two
such sections, it is two steps and interrupts, and with them other threads, come
in between: `rt_thread_resume` (its test is outside its section),
`rt_thread_delete`, `rt_thread_detach`, `rt_thread_sleep`, every blocking take,
every call on a message queue (it copies between two sections),
`_ipc_list_resume_all`, `_timer_thread_entry`, `rt_soft_timer_check`,
the submission of a delayed work item (its timer is started after the section),
`rt_workqueue_cancel_work_sync`, `finsh_getchar`. A final
`rt_schedule` is a step of its own because an interrupt can precede it.
An interrupt handler is one step, except that `rt_timer_check` is one step per
expired timer. Context switching is part of `rt_schedule`: a switch requested in
an interrupt happens at the end of the handler, before any other thread's code.
`Switch` looks into this step: it shows that the recorded switch, carried out by
`SW_handler` after all other handlers, amounts to it.

**State.** `k.stat`, `k.prio`, `k.ready`, `k.group`, `k.cur`, `k.lock`,
`k.wait`, `k.timer`, `k.error`, `k.defunct` are the fields and globals named at
the head of `Kernel`. A thread has one `tlist` node; `rt_list_remove` takes it
off whichever list holds it, as the C function does without knowing the list,
while an insertion does not take it off another list, so a double insertion
shows as a thread that is on two lists. `remaining_tick` is abstracted: any tick
may end the slice.

**Preconditions.** `RT_ASSERT` halts the build; a call that violates one ends
the behaviour and is left out, except in `_ipc_list_resume_all`, where the model
records it (`phantom`), and in `WorkQueue`, where a property asks for it
(`failed`). The idle thread is never suspended, deleted or
reprioritised, and calls nothing that blocks. Two constants of `Scheduler`
describe the calling discipline under which its properties hold:

* `Exclusive`: while a call of `rt_thread_resume`, `rt_thread_delete` or
  `rt_thread_detach` has a thread in hand, no other thread or interrupt operates
  on that thread. Two resumes of one thread, for example, both pass the test
  of `stat` and both insert it.
* `Quiet`: nor does that thread's own timer expire in the meantime. No caller
  can promise this of a sleeping thread; what happens without it is the first
  finding below.

**Left out on purpose.** Suspending a thread other than the caller (the
service's own documentation discourages it), `rt_thread_delay_until`,
conversions of milliseconds, names, stacks, object containers, hooks. Create and
delete differ from init and detach in where the storage comes from, and share
their actions. In `Ipc` the application does not change priorities
(`rt_thread_control`), so inheritance is the only source of changes.

## 3. The runs

Passing runs. `MCParts`, `MCServices` and `MCCalls` hold several instances that do
not interact. A behaviour takes one of them at the start (`part`, `service`)
and leaves the variables of the others alone, so that a run is the union of the
state spaces of its parts, not their product. A property of a part says nothing
of the others. In `MCServices` all services use the same threads and share the variables
of `Ipc`, as their modules do. They have two threads each: what a third one adds is
covered by the theorems of section 5, which hold for any number of threads, and in
the model checking by the mutex, which has three.

| Run | Instance | Shows |
|---|---|---|
| `parts` | scheduler: main, one worker, idle; 3 priorities, lock nesting 1 | lists, bitmap, states and timers agree; no thread is lost; what a call has in hand stays valid; a freed thread is reachable from nowhere; each switch is to the most urgent thread; a preemption held back is delivered |
| | context switch: the same threads, two levels of interrupts, 3 places | `ContextsSound`: no context is lost or duplicated, the record of a switch is exact, nesting is counted; `ImplementsProcessor` |
| | heap: 11 units, header 1, least size 2 | `HeapSound`: blocks tile the heap, none overlap or get lost, free neighbours are joined, a request fails only when no block has room |
| | serial input: fifo of 4, 10 bytes, 3 tokens | `InputServed`: the newest bytes in order; the shell waits only when there is no byte |
| | flash: one kind of 3 pages or the one-page kind, 2 records a page, up to 8 records, one power failure | `RecordsReadBack`: the n-th newest record is read as it was stored, except in the windows named below; `ConfigKept`: a change of a field keeps the others |
| | ring buffer of 3 bytes, two byte values | `ImplementsPipe` |
| | one button | `PressesTold`: presses are told once, as clicks or by how long they were |
| | two LEDs, three modes, loops -1, 0, 2 | `RoundsShown`: the callback comes after the last entry of the last round |
| `services` | semaphore: two threads and idle, either flag | tokens conserved, one answer per wait, nobody waits beside a token, queue by priority |
| | event: two threads and idle, two bits, either flag | nobody waits for an event that has happened although waiters clear bits from under each other; a bit that is received and cleared is received once |
| | channel: two threads and idle; a mailbox or a message queue of two messages, either flag | both implement `Channel`; every block has one owner; no waiter is forgotten beside a message or room |
| | data queue: two threads and idle, two items, room for two, every mark | `PeersServed`: nobody waits beside an item, or beside room at or below the mark, unless somebody was resumed for it; one answer per wait; `QueuesItems`: it implements `Channel` |
| | completion: two threads and idle, a completion for each to wait for | nobody waits for what is done, and a wait that was granted finds it; one answer per wait |
| `calls` | mutex: three threads of three priorities and idle; recursion up to 2 | hold counts and owner exact, owner at least as urgent as the waiters, priorities given back, an urgent waiter served |
| | work queue: two items, two callers, one above and one below the worker, work functions that call the queue | `PromiseKept`: an item is where the last call put it; `SyncReturns`: a call of the urgent thread that waits for an item returns |
| | AT commands: one urgent, one common; one retry | `OutcomeIsOwn`: a command is told the answer to what it sent; `UrgentCommandsEnd` |
| | timers: a hard timer, a soft timer and the timer thread's own; counter of 8 ticks, times 1 and 2, lateness at most 1 | order, never early, hard timers punctual, the timer thread wakes in time, soft timers served |

`OneAnswer`, of `Ipc`, is the same for every service. `TokensServed` of `Semaphore`,
`EventsServed` of `Event`, `DoneIsSeen` of `Completion` and `PeersServed` of `DataQueue`
say what `NobodyForgotten` says of the channel, and that nothing is lost on the way. `PartsTyped`, `ServicesTyped`
and `TypesOK` put the type invariants of the instances together. `TimersSound` includes
that both lists are in order and that the timer thread wakes in time (`WakesInTime`);
`SoftTimersServed` is `SoftTimerFires` under its fairness.

Runs that end in a violation, one finding each (section 4).

| Run | Instance |
|---|---|
| `scheduler_delete_race` | the scheduler of `parts` without `Quiet` |
| `round_robin` | three threads of one priority and idle |
| `semaphore_detach` | two threads and idle |
| `mutex_nested` | two threads and idle; two mutexes, no recursion |
| `channel_detach` | two threads of one priority and idle |
| `timer_lost_wakeup` | a soft timer, with users more urgent than the timer thread |
| `workqueue_lost_wakeup` | one caller less urgent than the worker, two items |
| `workqueue_resubmit` | the same without `KeepDelay` |
| `completion_timeout` | one thread, which waits, and idle |

**Bounds, and why they are enough.**

* Two application threads are the least for which one thread has another in
  hand; deletion, time-outs and device interrupts interfere with both. The
  idle thread is a third, always there. The theorems of section 5 hold for any
  number of threads. Three threads above idle let a waiter be between
  two others (the order of a queue) and let a medium thread hold up the owner of
  a mutex (inversion).
* `MaxNest` 1 tells locked from unlocked. Deeper nesting only counts, and the
  theorems put no bound on it.
* `SemMax` 2 (65535 in the code) is reached from 1 by one release, and the
  next one is refused. `HoldMax` 2 (255) is reached by one recursion.
* Two threads and two bits are one waiter of each kind; with interrupts there are
  always senders left when both wait.
* `Capacity` 2 tells empty, partly filled and full apart, makes the ring wrap and
  gives the block lists a first and a last element. With two threads and an
  interrupt, a woken caller finds its message or its room taken. Two messages,
  interchangeable (symmetry), show any exchange of order; the event bits and the
  blocks are interchangeable too. The remaining timeout of a call that waits again is
  abstracted to "some ticks, none, or for ever".
* `Ticks` 8 (2^32): delays of 1 and 2 and a lateness of 1 stay below half of it
  (3), as `RT_ASSERT` demands of real ones, and the counter wraps around many
  times. `MaxLate` bounds how long other threads hold the timer thread up; the
  code needs a bound of this kind (less than `RT_TICK_MAX / 2` ticks).
* `Heap`: 11 units hold three blocks with their headers, so that a block is freed
  between two free, two used or one of each. `MinSize` 2 with `Struct` 1 leaves
  remainders that are too small to split (the code's are 3 words and, for a header, 4).
* `Console`: `BufSz` 4 (64) wraps and overflows within 10 bytes, up to five in one
  interrupt; `MaxTokens` 3 (65535) refuses a release.
* `Flash`: 2 records per page (25), 3 pages (3, or 1 for the end of life of
  the sensor), 4 shown records (50): the ring goes once round
  (`MaxRecords` 8, `MaxIndices` 14). One power failure, at any halfword of a
  record or of the configuration; a second one would meet the same states, since
  the start after the first repairs or erases them.
* `LwRB`: 3 bytes are the least that wrap with more than one byte stored.
* `Button`: times of 2 scans between clicks, 4 for short, 6 for long, 8 for hold;
  the counter is at its limit at 11 (65535). Four clicks are more than a double click.
* `Led`: modes with a leading zero (dark first) and in the middle; 2 rounds. The
  second LED makes the walk go on after a callback that changed the list.
* `WorkQueue`: two items, one running and one waiting, and a caller on each side of
  the worker's priority; work functions call the queue as well.
* `Switch`: three threads let the thread that is interrupted, the one a first handler
  chose and the one a second chose differ; two levels nest. (`startup_ch32v30x.S`
  enables hardware stacking but no nesting, so this build has one level;
  `irq.c` is written for several.) 3 places tell the last one from a
  stale one. The proofs need neither bound.
* `DataQueue`: size 2 as for `Channels`, and the marks 0 and 1: with a larger one
  every pop resumes a sender. Two threads and an interrupt let a resumed one be
  overtaken.
* `Completion`: one thread waits for each, as the code demands; a more urgent one, a
  less urgent one and interrupts complete.
* `AtChat`: `AnswerTime` 1 lets an answer come in time or late, `Retry` 1 is the
  first and the last try, `MaxAsked` 2 bounds requests whose answers are on the way.

**Refinement.** `ImplementsChannel` maps the mails from `out_offset` on, or the
messages linked from `msg_queue_head`, to the queue of `Channel`. A block that a
call has in hand is not in the queue: a message is sent when it is linked and
received when it is unlinked, which is where order is decided. Together with
`BlocksOwned` and `NobodyForgotten` this says that the waiting, the looking
again, the resets and the preemptions are invisible from outside.

A `DataQueue` implements `Channel` as well (`QueuesItems`), by the items from `get_index` on.

`ImplementsProcessor` takes `rt_current_thread` and the places of the threads
themselves. A thread executes with the context in the registers, and the
refinement says that by the time it does, that context is its own, as it left
it, and it is the thread chosen last.

`ImplementsPipe` maps the bytes from `r` to `w` to the queue of `Pipe`. A byte is
there once `w` passes it and gone once `r` does, though both sides are stopped in
the middle of their copies.

**What the properties leave open, on purpose.** `RecordsReadBack` excepts two
windows the code has: between the erasure of the page ahead and the write of the
new record the oldest record shown is gone (`window`), and a power failure
between a record's header and its index leaves a
record whose index reads as an erased halfword (`torn`), which the code then takes
for the highest index until the records are erased. `ConfigKept` excepts a power
failure after the erasure of the configuration page, and two threads that change
it at once (`spoiled`): the page is only in RAM then. A command of `AtChat` that
is sent while answers to earlier ones are on the way may take one of them;
`OutcomeIsOwn` demands the modem's own answer when the line was quiet at the last
send (`clear`).

**Deadlock** is checked in `services` and `calls`. In `parts` it is not:
the serial input and the flash end when their bounds are used up.

**Fairness.** In `MCCalls` the fairness of each part is the premise of that part's
liveness property and of no other. `Timer`, `RoundRobin`, `WorkQueue` and `AtChat`
use `WF_vars` and `SF_vars`. `Mutex` writes weak and strong fairness out with the
enabling conditions as state predicates, since TLC evaluates `ENABLED` of its
actions very slowly.

* `Mutex`: a thread in a kernel call that has the processor finishes it
  (straight-line code), armed timers expire (ticks keep coming), and an owner
  that gets the processor again and again releases its holds some day. The
  last is an assumption on applications: strong fairness, since preemption keeps
  disabling the release. Nothing says that other threads ever stop
  computing; inheritance has to do that work.
* `WorkQueue`: the worker and the callers go on when they have the processor
  (strong fairness, urgent callers take it away), and so work functions end.
* `AtChat`: the polling thread keeps polling, and time passes. The modem need not
  answer.
* `Timer`: ticks keep coming as long as the lateness bound permits and handlers
  end; the timer thread moves on when it is ready, though ticks interrupt it
  (strong fairness); callbacks end.
* `RoundRobin`: handlers end and, among infinitely many ticks, some end a slice.

## 4. What the runs found

1. **A thread deleted while it sleeps** (`thread.c:514`, also `rt_thread_detach`).
   The thread is unlinked in one section and its timer detached in the next. If
   the timer expires in between, `_thread_timeout` queues the thread, and then
   its node is linked into the defunct list as well: a closed thread is in a
   ready list.
2. **Time slices** (`scheduler.c:458`). `rt_schedule` clears the YIELD bit before
   `rt_schedule_insert_thread` looks at it. A thread that yields goes to the
   front of its list, so that two threads of a priority alternate and a third
   one starves.
3. **`_ipc_list_resume_all`** (`ipc.c:226`) tests the list with interrupts
   enabled. When the last waiter times out in the gap, the list head is taken
   for a thread.
4. **Nested mutexes** (`ipc.c:1134`). Releasing the inner mutex drops the
   priority inherited through the outer one.
5. **A lost wake-up of the timer thread** (`timer.c:804`). A soft timer started
   between its test of the list and its suspension does not wake it. This takes
   a user of soft timers that preempts the timer thread: an interrupt or a
   thread of priority 0 to 3.
6. **Detaching a mailbox or a message queue** (`ipc.c:2277`, also 2024, 2794,
   3105). A receiver that was resumed but has not run is on no list while
   `rt_mb_detach` resumes the threads on its lists. When the receiver runs before
   the detach is over and finds its mail taken, it suspends itself again, and the
   detach returns with a thread suspended on the mailbox, which
   nobody will resume. Semaphores and mutexes do not look again and are not affected.
7. **Cancelling a work item that runs** (`workqueue.c:409`).
   `rt_workqueue_cancel_work_sync` tests `work_current` and then takes the
   semaphore. A caller less urgent than the worker can be overtaken in between; the
   worker leaves the semaphore at 0 and the caller waits for an item that is done.
   `SyncReturns` in `calls` shows that a caller more urgent than the worker
   is safe.
8. **A delayed item submitted again without a delay** (`workqueue.c:103`) keeps its
   timer. When it expires after the worker has taken the item, the
   assertion of the timeout handler fails. `PromiseKept` is checked for callers that
   do not do this (`KeepDelay`) and that do not call on one item in the
   middle of each other's calls (`TakeTurns`).
9. **A completion beside a timeout** (`completion.c:110`). When a wait has timed out
   and the completion is done before the thread runs, the wait clears the flag
   and reports failure; the completion is lost.

Further observations, without a run of their own: with two mutexes released in
the order in which they were taken, the owner can keep an inherited priority
after it owns nothing (the later mutex stored it as the original one);
detaching a mutex leaves its owner at the inherited priority; changing the
priority of a waiting thread does not move it in its queue; a periodic timer of
zero ticks keeps `rt_timer_check` from ending; `RT_TIMER_CTRL_SET_ONESHOT` from
the callback of a periodic timer leaves `ACTIVATED` set on a timer that is on no
list; a dowork of an item that is running is refused but takes the item off the
lists all the same; an AT command that is aborted is recycled without a callback;
when an error and a success are in one buffer, the AT engine tells success;
`flex_button_register` accepts one button too many (`flexible_button.c:97`);
a data queue resumes senders at the low-water mark, not only below it as its
documentation says, and its reset has the gap of finding 3; a thread that was
resumed and has not run when `rt_data_queue_deinit` frees the ring goes on with it;
`rt_data_queue_len` and `rt_data_queue_peek` (`dataqueue.c:477`, `338`) test
`is_empty` before they disable interrupts, so that when the last item is popped
in between the first returns the size of the queue and the second an item that is
gone.

## 5. What is proved

The theorems are proved with TLAPS for every value of the constants.

**The scheduler.** `KernelProofs` and `SchedulerProofs` prove that under the calling
discipline the properties of `Scheduler` hold for every set of threads, every
number of priorities and every nesting bound:

    Disciplined => (Spec => []TypeOK)              TypeCorrect
    Disciplined => (Spec => []ListsConsistent)     ListsAlwaysConsistent
    Disciplined => (Spec => []NothingLost)         NothingEverLost
    Disciplined => (Spec => []NothingDangles)      NothingEverDangles
    Disciplined => (Spec => []InHandSound)         CallsAlwaysSound
    Disciplined => (Spec => SwitchSound)           SwitchesAlwaysSound
    Disciplined => (Spec => DeferredPreemption)    PreemptionAlwaysDelivered

*Assumptions.* Those of the modules (`KernelAssumption`,
`SchedulerAssumption`: the idle thread has the lowest priority, main is another
thread) and `Disciplined`, which is `Exclusive` and `Quiet`. The run
`scheduler_delete_race` shows that the second cannot be dropped.

*Argument.* None of the properties is inductive alone. That a thread resumed
in `ResumeAct` is on no ready list needs to know that it is still suspended,
which is what `InHandSound` says of a call between its sections; that in turn
needs `ListsConsistent` (a suspended thread is on no ready list, an armed one is
suspended) and `CurAlive` (a closed thread stands right before its last
`rt_schedule`, so it never acts again). `IInv` is the conjunction of these.
`KernelProofs` holds one lemma per operator of `Kernel`: from sound lists and a
condition on its argument it yields sound lists, says which threads change
state and which stay where they are. `SchedulerProofs` then treats each action
of `Next` with these lemmas, without opening the list operators again. The two
action properties follow from `IInv` and the lemma on `rt_schedule`.

**The blocking services.** `IpcProofs` is the common part of three developments. It
proves the steps of `Ipc` once, for every set of threads and objects, from
`KernelAssumption` and `IpcAssumption` (finitely many threads, at least one object, the first thread
is another one than idle and no thread is more urgent). Its invariant `IpcInv` says, besides the types:

* `Calm`: the lists of the kernel agree with the states (`Lists`, `CurSound`,
  `TimerSound`), every ready thread is on the list of its priority, nobody is closed
  and idle is not suspended. Only `_thread_exit` and the services that delete threads would
  break it, and the applications of `Ipc` call none.
* The current thread is suspended only between its suspension and its `rt_schedule`.
* `Joined`: who is on the list of an object is in a call on it, and who is
  suspended in such a call is on its list with `error` still `RT_EOK`. This ties the
  kernel to the calls. A timeout, a release and a reset each take the thread off the
  list and make it ready in one section, and the answer they leave in `error` is the
  only one until the thread has read it.

`OneAnswer` follows from `IpcInv`. For the services, each step of `Ipc` also comes with what it
does to the *grants* (the threads that were resumed with success and have not run):
a background step changes none (`SameGrants`), a release adds exactly the first of the
list (`FirstGranted`), a return takes one away. Counting them needs that the set of
threads is finite. The lists only lose members in such a step (`WaitsEased`), which
keeps them in order of priority; `InsertAt` at `PrioPosition` is shown to keep the
order where a thread joins. `ResumeEveryone` is written as a recursive function; what
it does is proved by looking at the first iteration that could go wrong, which
`LeastOf` supplies, so no induction over an operator is needed.

*Semaphores* (`ServicesProofs`; also from `SemAssumption`, `LimitsAssumption`):

    Spec => []TokensServed        SemaphoreTokens
    Spec => []PrioOrder           SemaphoreOrder
    Spec => []OneAnswer           SemaphoreAnswers
    Spec => []TypeOK              SemaphoreTypes

The inductive invariant is `IpcInv` with the type and the three properties, taken for
all objects. `TokensConserved` counts the grants, so a grant that a late timeout could take back would
break the account; `Joined` says that it cannot.

*Events* (`ServicesProofs`; also from `EventAssumption`):

    EventsSpec => []EventsServed  EventsServe
    EventsSpec => []OneAnswer     EventsAnswer
    EventsSpec => []EventsTyped   EventsTypes

for any number of threads, event sets and bits. The difficulty is the loop of
`rt_event_send`: it looks at every waiting thread once, resumes those that are
satisfied and lets them clear bits from under those that come later, and those that came
before are not looked at again. `Sending` is the invariant of this loop after `n`
threads: it has looked at the first `n` of the list as it was, who of them is still on
the list is not satisfied by the bits that are left, the order of the list is kept, and
bits only get fewer (`LessSatisfies`: whoever is not satisfied by some bits is not
satisfied by fewer). So in the end nobody on the list is satisfied. For `BitsOnce` the loop also keeps
the account of each bit: it is in the set, or with exactly one of the threads that
were resumed and will clear it (`Takers`). A timeout or a reset leaves the account alone, since `Joined`
says that it cannot hit a thread that was granted its bits; the return takes one away.

*Completions* (`ServicesProofs`; also from `CompletionAssumption`):

    CompletionSpec => []DoneIsSeen    CompletionSeen
    CompletionSpec => []OneAnswer     CompletionAnswer

`DoneIsSeen` alone is not inductive: that `rt_completion_done`, which resumes one
thread, leaves nobody waiting needs `OneWaits`, which says that only the waiter is in a call on a
completion, and with `Joined` that its list is never longer than one. A `done` that is past
its test of the flag when another `done`, a timeout or a new wait comes in between
keeps the invariant: its section does not rely on the test.

*Mutexes* (`MutexProofs`; also from `MutexAssumption`, `LimitsAssumption`):

    Spec => []HoldExact           MutexHolds
    Spec => []OneAnswer           MutexAnswers
    Spec => []TypeOK              MutexTyped
    Spec /\ [][OneAtATime]_vars => []NoInversion        MutexNoInversion
    Spec /\ [][OneAtATime]_vars => []PriorityRestored   MutexPriorities

for any number of mutexes; the first three for mutexes taken in any nesting. Besides `IpcInv` and `HoldExact` the
invariant needs `OriginalKnown`: an owned mutex has a priority to give back, without
which a release would leave the owner without one. Changes of
priority are shown to move a ready thread between ready lists and to leave every list of
waiting threads as it is (`PrioritySimilar`).

`NoInversion` and `PriorityRestored` do not hold of nested mutexes: `rt_mutex_take` keeps
the priority of an owner in the mutex, and the inner one keeps an inherited one
(finding 4). The condition `OneAtATime` is therefore about the application: a thread calls
`rt_mutex_take` on a mutex only while it owns no other live one. It may take the
same mutex again, wait, time out, detach mutexes and use any of them one after the other. Under
it `UrgencyInv` is inductive, together with the invariant above. Each part is needed for
another:

* `QueuesOrdered`: the first of a mutex's queue is the most urgent, so the new owner
  outranks the rest (`OwnerOutranks`). A change of priority keeps this order because
  only owners inherit, and `OwnerAwake` says that an owner is in no queue.
* `OneEach`: an owner has one mutex, so giving it back leaves no other whose waiting
  threads the old priority could keep waiting.
* `OriginalOwn`: the priority to go back to is the thread's own. It excepts an owner
  of a detached mutex, which nobody gives back any more.

*Mailboxes and message queues* (`ChannelsProofs`; also from `ChannelsAssumption`,
`QueueAssumption`: `rx` and `tx` differ, the pool is finite and not empty):

    ChannelsSpec => ImplementsChannel     ChannelsImplement
    ChannelsSpec => []BlocksOwned         BlocksHaveOwners
    ChannelsSpec => []NobodyForgotten     ChannelsServe
    ChannelsSpec => []OneAnswer           ChannelsAnswer
    ChannelsSpec => []ChannelsTyped       ChannelsTypes

for every capacity, any threads and interrupts. The inductive invariant `ChannelsInv`
has, besides `IpcInv`:

* `RingSound`: `in_offset` is `entry` places behind `out_offset`. Then the operators of
  `Mailbox` do to `Mails` what `Channel` does to its queue, at either end and across the
  end of the pool.
* `Warehouse`: the free list and the list of messages are chains without cycles and
  have no block in common, `entry` and `tail` are those of the chain, and each block
  is in exactly one of the two or in the hand of exactly one call. `Chain` is a recursive
  function too; a walk along `next` is shown to yield a chain when there
  is one, by the first place where they could differ. Then a block in hand is not
  reachable from either list, so the copy that a preempted call makes into it changes
  no message, and the step that links it is one `Put` or `Urgent`.
* `Labelled`: a call between its two sections has a block, other calls have
  none, and a sender that waits still has its message.
* `Served`: while somebody waits for messages (room), there are no more of them than
  grants. A send adds one message and one grant; a call that looks again and takes
  what it was granted removes one of each; one that finds nothing, or whose
  item was taken by another, only has to wait when there is nothing left to count.

For the refinement every action is shown to change `Contents` as one action of
`Channel` does or not at all (`Allowed`).

*Data queues* (`ChannelsProofs`; also from `DataQueueAssumption`: a ring of at least one
slot, two different lists):

    DataQueueSpec => QueuesItems          DataImplement
    DataQueueSpec => []PeersServed        DataServe
    DataQueueSpec => []OneAnswer          DataAnswer
    DataQueueSpec => []DataQueueTyped     DataTypes

for every size, every mark, any threads and interrupts. The argument counts as that for
mailboxes does, and the ring is shown to be one (`RingOrdered`: `put_index` is
`rt_data_queue_len` slots behind `get_index`, and where the two meet the flags tell empty
from full). Two things are different.

* A pop resumes a sender only when it leaves no more than `lwm` items. `PeersServed` therefore
  counts what lacks to `lwm + 1`, not to the size: a pop that leaves more has made no promise
  to anybody.
* `rt_data_queue_reset` empties the ring first and then resumes the waiting threads one at a
  time, in sections of their own under the scheduler lock, which the other services do not take.
  `IpcInv` says that the lock is free, so the proof uses `IpcCore`, which is
  `IpcInv` without that, and `LockHeld`: only the current thread can be in these sections,
  so no other thread runs meanwhile, and the list that it has found empty stays so. Interrupts
  still push, pop and let waits time out in between. From the emptying of the ring to the end
  of these sections nothing is claimed (`PeersServed` excepts it), and at their end nobody waits.

`Carried` says that a push that waits still has its item.

**The ring buffer.** `DeviceProofs` proves, for every size, every set of bytes and
every block that is written:

    RingSpec => []RingTypeOK          TypeCorrect
    RingSpec => ImplementsPipe        Implements

from the assumption on `Size` and `Byte` in `Ring`. The abstract queue is not a
variable but what lies between `r` and `w`, so each step has to show what the other
side may have done since the call began: the writer's test of the free space
was made with an old `r`, the reader's with an old `w`. The inductive invariant is
`RingTypeOK` and two conjuncts. `WriterInv`: the block in hand still fits, and what
is copied of it is in the buffer beyond `w`. `ReaderInv`: the bytes in hand are
among those between `r` and `w`, and what is taken of them is what is there. The
index arithmetic modulo `Size` is in lemmas on `Wrap` of its own; then each action
is shown to be a step of `Pipe` or to leave the queue as it is.

**The serial input.** `DeviceProofs` proves, for every size of the fifo from 2 on, any
number of bytes in one interrupt and any limit of the semaphore (`ConsoleAssumption`):

    ConsoleSpec => []InputServed      ConsoleServes
    ConsoleSpec => []ConsoleTyped     ConsoleTypes

`Newest` says of a fifo what `InputServed` says of the one in memory, and that only a full one is marked as
full; without this the read of a fifo with equal indices would return an old byte. `PutByteKeeps`
shows that one more byte keeps it, whether there is room or the oldest byte is given
up. The interrupt puts any number of them: `Put` is a recursive function, and the first
place where it could go wrong is put to the lemma (`PutKeeps`). That the shell does not wait
beside a byte needs to be known one step earlier: when it has found nothing and is about to
take the semaphore, then either there is still nothing or there is a token.

**The button.** `DeviceProofs` proves, for every interval, all thresholds in the order of
`bsp_button.c` (`ButtonAssumption`) and any number of clicks:

    ButtonSpec => []PressesTold       ButtonTells
    ButtonSpec => []ButtonTyped       ButtonTypes

`Timed` ties the counter of the code to the true time: while the button is down they differ by
the time that clicks waited to be told (`Shift`), or both are beyond `Hold`, where the
counter goes round between `Hold` and its limit. Clicks that are not told yet keep
the counter below the interval, and hence below the threshold of a short press, so a release
that tells a long press has no clicks left to forget.

**The heap.** `DeviceProofs` proves, for every size of the heap, of its headers and of the
smallest block (`HeapAssumption`), and requests of any sizes:

    HeapSpec => []HeapSound           HeapServes
    HeapSpec => []HeapTyped           HeapTypes

`HeapSound` is inductive with what it says of `prev` and `lfree` made exact: `Links` (the
headers are a chain from 0 to `heap_end` and `prev` leads one block back; `heap_end`'s own is not
kept up to date by `rt_smem_alloc`, nor needed), `Lowest` (no free block is
below `lfree`, which is a header) and `Apart` (of two neighbours one is in use).
Within a call these hold but for the block in hand. `Hole` allows it a free neighbour on
either side; the first join of `plug_holes` leaves at most the one below (`HoleBelow`), the
second none. A cut (`Split`), a join and a change of a mark are described field by field
(`IsSplit`, `IsMerge`, `IsUse`), and `rt_smem_realloc` into another block is the composition of an
allocation and a free. `used` is the cardinality of the units of the blocks in
use, so that the account follows from blocks having nothing in common, without a sum over the chain.

**The AT commands.** `DeviceProofs` proves, for any commands, however many may wait, any
number of retries, times and answers on the way (`ChatAssumption`):

    ChatSpec => []OutcomeIsOwn        ChatAnswers
    ChatSpec => []ChatTyped           ChatTypes

The engine does not match answers with commands, so the argument counts. `OneReply`: when the
line was clear at the last send, what the modem has yet to answer, what is on the way and
what is received are one at most, and it is `reply`. `Tries` ties `sends` to `env->i`, which
the branches of `do_cmd_handler` raise at different places. `Started` says that what is linked but not
at the cursor was never started, whatever was aborted. The type includes that
a command is linked once, in the queue of its priority. Linking and unlinking keep that
by `InjectiveAppend` and `UnlinkKeeps`.

**The configuration.** `DeviceProofs` proves, with no assumption on the constants,

    FlashSpec => []ConfigKept         ConfigSafe

Between the reading of the page and the end of writing it back the page says
less than was set: `InHand` says that all of it is in `page_buf` then and, from the erasure on,
nothing else is in the flash, so that `Flash_Write` finds every halfword erased and
completes it (`WritePage`). `OneChanges` says that only one thread is in the middle of that while
`spoiled` is false. It rests on `StartsAlone` (`BSP_Flash_Init` runs before `hr_thread`
does). After a power failure only the flag decides what the start believes, so
`PageComplete` asks for a complete page there only if the flag is set. `RecordsReadBack` is
not proved: it turns on the quotients and remainders by `PerPage` and `Pages` of every
index together, products of constants that the arithmetic of the SMT solver does not decide.

**The work queue.** `DeviceProofs` proves, for any callers, more urgent than the worker or not,
and any items (`QueueAssumption`), if `TakeTurns` and `KeepDelay` hold,

    QueueSpec => []PromiseKept        QueueKeepsPromises
    QueueSpec => []QueueTyped         QueueTypes

The two conditions are about the callers, not about the queue, and cannot be dropped: without
`KeepDelay` finding 8 refutes `PromiseKept`, and without `TakeTurns` a cancellation
between the two parts of a delayed submission lets `rt_timer_start` meet a detached timer.
`ListsKept` ties three things the code keeps apart to what was promised: the list an item is
in, `RT_WORK_STATE_SUBMITTING` and `work->workqueue`. `TimersKept` says that an item which
waits for its delay has a timer or a caller that is about to start it, one of them and
one caller only, so that both assertions about timers hold. `WorkerAwake` is what `Resume` needs: it wakes
the worker only when `work_current` is null, so a worker that sleeps must have nothing
in hand. All calls but the delayed submission and the cancellation of all leave
one item settled (`Settled`), in the list of work or in none. That a list holds an item once is
kept by `InjectiveAppend` and `InjectiveRemove`, which the AT commands use too.

**The LEDs.** `DeviceProofs` proves, for any LEDs, any light arrays and any loop counts
(`LedAssumption`):

    LedSpec => RoundsShown                             LedsShow
    LedSpec => []LedTyped                              LedTypes

`RoundsExact` says of an LED that blinks that what it has shown is its whole array for every
round that is over (`loop_init - loop_cnt`) and the entries up to `arr_index` of the
present one (`Lit`). It is said of the LEDs on the list only: a stopped LED keeps its counts,
also when its array is changed, but every way back onto the list is a new start. The walk takes
an LED whose rounds are over off the list before its callback, so the callback finds the
LED absent (`UnlinkKeeps` and that no LED is linked twice) and may start it again.

**The context switch.** `SchedulerProofs` also proves, for every set of threads, any number
of interrupt levels and any number of places:

    SwitchSpec => [](SwitchTypeOK /\ ContextsSound)   ContextsSafe
    SwitchSpec => ImplementsProcessor                 SwitchRefines

from `SwitchAssumption`. `ContextsSound` with the type is inductive. `ContextsKept`
says that the registers hold the context of the thread that was interrupted and the
stacks those of all others; it needs `RecordExact` (what a switch saves under is
that thread, though `rt_current_thread` has moved on), which in turn needs
`NestExact`: `rt_schedule` decides by the nesting count whether to switch or to
record, so the count has to be zero exactly in thread code. `NestExact` rests on
the cardinality of the set of handlers being served. For the refinement
only `ExecuteThread` needs the invariant; the other steps choose or change
nothing that `Processor` sees.

**The timers.** `TimerProofs` proves, for any timers of either kind, any width of the tick
counter and any times below half of it (`TimerAssumption`, `ClockAssumption`):

    TimersSpec => []TimersTyped                        TimerTypes
    TimersSpec => []OnTime                             TimersOnTime
    TimersSpec => CallbackDelayKept                    CallbackDelays
    ~ AnyTime /\ Unambiguous => (TimersSpec => []TimersSound)   TimersKeptSound

The first three hold whoever uses timers at whatever time. Their invariant, `HardInv`,
turns the comparisons modulo `Ticks` into ordinary ones: `timeout_tick` is the counter
plus what is `left` (`Aligned`), the hard list is in the order of `left`, and
no hard timer is overdue except by the tick that is being handled (`Low`), so that all
`left` in it lie in a window in which "due after it" of `rt_timer_start` and "due"
of `rt_timer_check` are decided rightly. That window is kept because a handler ends only
when the head of the list is not due, and the timer whose callback runs is off the
list by then, whether the callback stops it, starts it again or neither.

`TimersSound` is about soft timers as well, which nothing forces to be punctual. `SoftInv`
says how late one can be (`Late`): by `MaxLate` and the tick just counted, or by the time for which a
callback waits; and, while the timer thread sleeps, that no soft timer will be later
when the thread's own timer expires (`Following`). It also follows the local
`next_timeout` of the timer thread from `rt_timer_list_next_timeout` to its
suspension, with the ticks that pass in between (`slack`). The
theorem has two hypotheses. `AnyTime = FALSE` is the premise that finding 5
shows to be needed. `Unambiguous` asks that a time plus the greatest lateness, and the sum
of two times, stay within `Ticks - Half`; times and a lateness below a quarter of the counter meet it.
The comment on `rt_timer_init` (`timer.c:259`) allows times up to `RT_TICK_MAX/2 - 1`, and for these
it does not suffice: with 12 ticks, times 1 and 4 and a lateness of 3, TLC finds a
timer that is four ticks overdue and another one started behind which is due in
four ticks, and `rt_timer_start` puts the new one first, since eight ticks behind look like
four ahead. Hard timers are not affected, as `OnTime` shows: they are never late.

**Only model-checked.** `NoInversion` and `PriorityRestored` of nested mutexes (finding 4);
`TimersSound` when times are not `Unambiguous`; the records of `Flash`; and everything about liveness
(`EveryPeerRuns`, `WaiterServed`, `SoftTimerFires` and `SoftTimersServed`, `SyncReturns`, `UrgentCommandsEnd`):
fairness and `ENABLED` are outside what TLAPS proves, so these stay with TLC.

## 6. Plan

Done, in this order: `Kernel` and `Scheduler`, their proofs, `Ipc`, `Semaphore`,
`Mutex`, `Timer`, `Event`, `Channels` with its abstract specification `Channel`;
then `WorkQueue`, `Heap`, `Console`, `Flash`, `LwRB` with `Pipe` and its proofs,
`Button`, `Led`, `AtChat`; then `Switch` with `Processor` and its proofs,
`DataQueue` and `Completion`; then `IpcProofs` and the proofs for `Semaphore`, `Mutex`,
`Channels`, `Event` and `Completion`, and those for `Console`, `Button`,
`Heap`, `AtChat`, the configuration of `Flash`, `WorkQueue`, `Timer`, `Led` and
`DataQueue`. What is left:

1. Object containers under lookups and detaches; the unsolicited reports of
   `AtChat`; the sending half of `serial.c` on top of `Completion` and `DataQueue`.

## 7. Not modelled

Most source lines of the repository are the vendor's peripheral library and headers
(`libraries/`), the C library shims and device drivers that nothing
in the firmware uses: register access and straight-line code without
state of the program's own. The shell's line editor, the log and `kservice.c` are
sequential text processing. The layout of the interrupt frames and the swap to the
stack of the handlers are left out of `Switch`. Sending on the serial port is
polled, and its DMA half is not built. Of `bsp/`, what remains beside the flash store
is register access. The reasons per part are in `PROJECT.json`, what remains worth
modelling is in the plan above.

## 8. Running it

    tlc -workers 2 -config MCParts.cfg MCParts.tla
    tlapm SchedulerProofs.tla        (and KernelProofs, IpcProofs, ServicesProofs,
                                      MutexProofs, ChannelsProofs, DeviceProofs, TimerProofs)
