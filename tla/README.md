# Verification of the camera pipeline (STM32F427, NuttX, OpenMV)

This directory holds a TLA+ development of the repository's own program: the
image pipeline from an OpenMV camera, over UART and SPI, through a ring buffer
shared by two NuttX tasks, to hex digits on the console. Everything else in the
repository is vendored NuttX and its apps, of which the mutex under the ring
buffer, the serial driver under the console and the camera's UART, and `usleep`
are modelled.

`PROJECT.json` is the machine-readable index: components, runs, mutants, the
map from definitions to source lines, findings, hazards and theorems.

## 1. The system

| Part | Code | State | Operations |
|---|---|---|---|
| ring buffer | `apps/examples/camera_MSN2/ring_buffer.{c,h}` | static `g_rb`: 64 slots of 256 bytes plus fields, `wr_ptr`, `rd_ptr`, `count`; static `g_rb_lock` | `rb_init`, `rb_write`, `rb_read`, `rb_count`, `rb_full`, `rb_empty` |
| `g_rb_lock` | `nxmutex_*` over `nxsem_wait` / `nxsem_post` in `nuttx/libs/libc/semaphore` and `nuttx/sched/semaphore` | one word (holder and blocking bit, or a count), flags, wait list | init, lock (fast path, slow path), unlock (fast path, slow path with hand-off) |
| camera task, UART part | `camera_MSN2.c` up to line 343 | attempt and poll counters, `img_size`, `meta_len`, `meta_buf`; the driver's receive buffer | flush, handshake with retries, CMD_CAPTURE, header |
| camera task, SPI and slicing part | `camera_MSN2.c:178-232, 345-418` | `remaining`, `offset`, `image_buf`, chunk index | discard sync bytes, read the JPEG, check markers, push the metadata chunk, push data chunks |
| hello task | `apps/examples/hello/hello_main.c` | one local chunk | read, skip metadata, print, stop at `is_last` |
| launch | `camera_launcher/launcher.c`, the board's `rcS` | none | create the two tasks; the boot script does it once, `nsh> launcher` again |
| serial driver | `nuttx/drivers/serial/serial.c`, `serial_io.c`, `arch/arm/src/stm32/stm32_serial.c` | per port: two circular buffers, two locks, two semaphores, the interrupt enables and the data registers | `uart_writev`, `uart_readv`, TCIFLUSH, the interrupt handler |
| `usleep` | `nuttx/sched/signal/sig_clockwait.c`, `include/nuttx/clock.h` | the tick counter, a watchdog | round up, add a tick, sleep, wake |
| OpenMV | external, `openmv_camera.py` is not in the repository | | answers commands in order, then sends sync bytes and JPEG |
| uORB topic | `camera_status_uorb.c`, `camera_status.h` | none | only defined: nothing publishes or subscribes |

The two tasks have priority 100 and are scheduled round robin; they share `g_rb`
under `g_rb_lock`, and the console. The camera task talks to OpenMV by command
bytes and polls a non-blocking UART for the answers; there is no framing and no
checksum. The camera polls a full ring every 500 us, hello an empty one every
millisecond.

What is hard here, and what makes each part correct:

* **ring buffer**: a task switch between any two statements, and within a
  `memcpy`; pointers that wrap at 2^32; full and empty. Correct means: a
  linearizable bounded FIFO of whole chunks, and calls that return.
* **mutex**: a fast path of one read and one compare-and-swap that races with
  the slow paths; the hand-off to a waiter. Correct means: mutual exclusion, no
  lost wake-up, no starvation, and an initialisation that comes first and once.
* **UART dialogue**: late answers, retries, lost bytes, restarts. Correct means:
  no header is accepted that is not the one OpenMV sent, and the app returns.
* **SPI and slicing, hello**: rounding, the last block and chunk, back pressure.
  Correct means: hello prints the JPEG, all of it, in order, and stops. CS must
  be asserted while OpenMV is in `spi.send_recv`; only two sleeps arrange it.
* **launch**: a camera that fails before its last chunk, a task that is not
  created, a hello that reads before `rb_init`, a second launch on the ring and
  lock of the first. Correct means: `rb_init` never meets a ring in use, every
  hello ends with its own image unless its camera failed.
* **serial driver**: buffers that a task and the interrupt handler share without
  a lock, a full and an empty buffer, waits that race their wake-up, signals.
  Correct means: no byte lost, doubled or reordered, whole writes, exact short
  writes, and no task that waits on a wake-up that has passed.

The hazards, each at its line and with the properties that cover it, are listed
in `PROJECT.json`.

## 2. The modules

| Module | Models | How |
|---|---|---|
| `ChunkFifo` | what the ring buffer promises | an atomic bounded FIFO: call, one instant at which the operation takes effect or fails, return |
| `RingBuffer` | `ring_buffer.c` | one action per statement, two for a `memcpy` (a chunk has halves `lo` and `hi`); any number of tasks, each calling any function at any time; the pointers are words modulo `PtrMod` |
| `NxMutex` | `nxmutex_init/lock/unlock` | one action per atomic access on the fast paths; a slow path is one step because interrupts are disabled on one core; `nxsem_init` statement by statement, since it runs without protection |
| `CameraLink` | the UART part of `camera_MSN2_main` | one action per poll or byte, real byte values; OpenMV and the line are external actions that may be slow, silent or lossy |
| `Pipeline` | the SPI part of `camera_MSN2_main`, and `hello_main` | one action per SPI block and per chunk; a byte stands for its place in the file; `rb_write` and `rb_read` are the atomic operations of `ChunkFifo`, which `RingBuffer` is proved to implement |
| `FifoLock` | what the mutex promises | a lock handed to its waiters in the order in which they came; `NxMutex` implements it |
| `Launch` | `launcher_main` / `rcS`, `rb_init`, and the calls both apps make | EXTENDS `RingBuffer`: its statements, under the two programs of every launch; hello calls `rb_read` whenever it likes, also before and during `rb_init`; a lock call before the first `nxmutex_init` blocks, and `nxmutex_init` drops the blocked tasks; either `task_create` may fail; the dialogue with OpenMV is one step that ends in an image or a failure |
| `SpiWindow` | the camera's polls and delays, `usleep`, OpenMV's delay and timeout | a clock in milliseconds; the timer ticks at the multiples of `Tick`; a ready task runs within `MaxLag` |
| `Uart` | one serial port | one action per access to a shared index or buffer; critical sections and the interrupt handler are one step on this single core; the data registers are the hardware's part |
| `MC_*` | instances for TLC | |
| `RingBufferProofs`, `RingBufferFifoProofs` | | theorems about `RingBuffer`, checked by TLAPS |
| `NxMutexProofs`, `PipelineProofs`, `SpiWindowProofs`, `UartProofs`, `LaunchProofs`, `CameraLinkProofs` | | theorems about the module each is named after |

How the modules fit together: `RingBuffer` takes the lock as atomic, and
`NxMutex` shows that the lock excludes and loses no wake-up. `Pipeline` takes the
ring as the FIFO that `RingBuffer` implements. `Pipeline` starts from any header
that `CameraLink` accepts. `Launch` puts the callers on the statements of
`RingBuffer` itself, since a second `rb_init` breaks the abstraction. `Uart` is the
device under the console and under `CameraLink`, whose receive sequence is the
order that `RxInOrder` establishes.

Abstractions. Text output and its wording are left out. `frame_id` is constant in the code and left
out. A polling loop whose condition is false changes nothing, so in `Pipeline` it
is a guard. `CameraLink` does not multiply out the fourth byte of the size: when
it is not zero the size is too large whatever its value. Each byte on the line
carries the command it answers; the camera's actions look only at its value,
and `ackOf` remembers the tag for a property.

## 3. The runs

| Run | Checks | Result |
|---|---|---|
| `ring` | `TypeOK`, `PtrsInStep`, `HeldChunksWhole`, `NoTornRead`, and `ImplementsFifo`, the refinement of `ChunkFifo`: 2 tasks, 2 slots, pointers modulo 4 | pass |
| `mutex` | `TypeOK`, `MutualExclusion`, `NoLostWakeup`, `ImplementsLock` (the refinement of `FifoLock`), `EveryLockReturns`, no deadlock: 3 tasks, one of them initialises the zeroed lock first | pass |
| `mutex_startup` | `EveryLockReturns` when hello may come before `rb_init` | violated |
| `mutex_relaunch` | `MutualExclusion` when a second camera calls `rb_init` | violated |
| `link` | `TypeOK`, `HeaderIntegrity`, `AppReturns`: 3 attempts, 5 images; 2 losses, or a second start of the app while OpenMV still answers the first | pass |
| `link_stale` | `AckAnswersCapture` | violated |
| `pipe` | `TypeOK`, `PrintedIsPrefix`, `StopsAtTheEnd`, `ImageDelivered`: every size from 1 to 13 bytes, chunks of 3, ring of 2 | pass |
| `pipe_markers` | `MarkersInBounds` | violated |
| `uart` | `TypeOK`, `NoByteLost`, `WritesWhole`, `NoStalledWriter`, `ShortWriteExact`, `RxInOrder`, `NoStalledReader`, `OutputDrains`, `ReaderServed`: 2 writers, 2 readers, buffers of 3, one signal, four workloads | pass |
| `launch` | `LaunchTypeOK`, `InitFindsRingQuiet`, `PrintsCompleteImage`, `HelloEnds`, `EveryCallReturns`: 3 launches, each after hello's newline, and no `nxmutex_init` within a critical section; 4 chunks through 2 slots | pass |
| `launch_again` | `PrintsCompleteImage` when launcher is typed at any time | violated |
| `spi` | `TypeOK`, `CsInWindow`, `SlowByteAccepted`: the board's 10 ms tick, 25 and 30 ms | pass |

Each property of a passing run has a mutant of the code (an operator marked
"Mutant of ..." in the module) under which TLC finds it violated.

### What the violated runs show

* `mutex_startup`: the lock is zero until the camera's `rb_init`. A zeroed
  `mutex_t` is a counting semaphore without a count: hello's first `rb_read`
  blocks on it, `nxsem_init` then empties the wait list, and hello is never
  woken. Nothing in the launch makes hello wait; in practice the camera, created
  first, usually gets to `rb_init` first, unless its banner's `printf` blocks,
  its time slice ends there, or its `task_create` fails.
* `mutex_relaunch`: the boot script starts both apps and the README has the user
  start them again. The second `rb_init` frees the lock while it is held.
* `link_stale`: after a repeated handshake the second ACK can arrive after the
  flush and is taken for CMD_CAPTURE's. `link` shows the consequence is
  an aborted capture and not a wrong image, unless a byte is also lost: then the
  two shifts cancel out and a wrong size is accepted (`HeaderIntegrity` excludes
  this combination, and nothing else).
* `pipe_markers`: an image of one byte is accepted, and the trailer warning
  reads `image_buf[img_size - 2]` with an unsigned index that has wrapped.
* `launch_again`: the second `rb_init` clears the ring while the first camera is
  in the middle of copying a chunk, and frees the lock it holds. In TLC's trace a
  hello then reads a chunk whose payload is zeroed and whose `is_last` is set,
  prints it and ends.

### What the run `launch` needs

The run has launcher typed only after hello's newline. The newline alone is not
enough: nothing makes the new hello wait for the new camera's `rb_init`, so that its
`nxmutex_init` can fall into hello's `rb_read` and free the lock under it, as in
`mutex_relaunch`. The run therefore has a second hypothesis, that `nxmutex_init`
finds the lock free (`InitWhileHeld` is FALSE). With `InitWhileHeld` TRUE and the
other constants of the run, TLC finds `InitFindsRingQuiet` violated: the exclusion
is lost in the second launch, whose hello then ends while its camera is still within
`rb_write`, and the third `rb_init` meets that call.

All else is as the code has it. In the first launch the lock is zero until
`nxmutex_init`; the hello that calls before it may be dropped from the wait list,
which is the hang of `mutex_startup` and the exception in `HelloEnds` and
`EveryCallReturns`. In a later launch a hello that is early finds the ring empty,
before and after the memset. An `rb_init` that returns before hello is created would
remove both the hypothesis and the exception.

### Bounds, and why they are enough

* Ring: two slots are the fewest in which a full, a half full and an empty ring
  differ; pointers modulo 4 wrap after two laps, so every alignment of the wrap
  with the slots occurs. The proofs remove the bounds.
* Mutex: three tasks give a holder, a waiter and a task on the fast path; also
  two waiters. Pids 1, 2, 3 in a word of five bits keep all the special values
  (blocking bit, no holder, reset) apart, as in 32 bits.
* UART: the real values of the bytes and of both buffer limits. The images are
  the ones at which the checks could go wrong: one for which a stale ACK in front
  still gives an acceptable size, two whose size begins with the ACK byte, the
  largest accepted and one more. One or two polls stand for 50 or 300: the
  code does the same at every poll but the last. The second start comes
  without losses (`Bounds`): with one, a byte of a later answer can stand in for
  the lost one if OpenMV gives up `spi.send_recv` within the 500 ms the camera
  waits, and nothing in the repository says how long that takes.
* Pipeline: sizes 1 to 13 in chunks of 3 cover every remainder and up to five
  chunks through a ring of two; `SPI_SYNC_BYTES` 4 is not a multiple of the
  block. `WordMod` is the modulus of `uint32_t`, 32 here, above every sum that
  occurs, as 2^32 is.
* Launch: a second launch shows what the first leaves behind, the third what a
  second `rb_init` leaves; four chunks (metadata and three of data) through two
  slots make the camera retry. A hello dropped in the first launch, or one without
  a camera, never prints its newline, and no launch follows it.
* Uart: buffers that hold two bytes wrap and fill within one write. The four
  workloads are the uses the system makes of a port: two tasks writing to the
  console, one write ending in a newline; input while output is blocked; the
  camera's `O_NONBLOCK` port with its flush; two blocked readers. `Load` is the set
  of all workloads, over which the proofs range. One signal is
  enough to cut any one wait.
* SpiWindow: the delays and the tick are the real ones
  (`CONFIG_USEC_PER_TICK` is its default, 10000). Three polls stand for 50: the
  fewest for which `SlowByteAccepted` holds, so 50 have room to spare. OpenMV's
  timeout of 40 ms is much shorter than its default of 5 s, which makes
  `CsInWindow` harder. Two bytes suffice for the polls of a byte to begin anew.

### Fairness

* Launch: weak fairness of both apps and of each statement of the ring buffer:
  tasks of equal priority share the processor round robin
  (`CONFIG_RR_INTERVAL=200`). Strong fairness of the lock: the mutex hands itself
  to the first waiter, which is `ImplementsLock`. Strong fairness of
  `nxmutex_init`: with `InitWhileHeld` FALSE its guard is the hypothesis that it does
  not coincide with a critical section, and not a wait in the code; hello sleeps
  between two polls with the lock free. Nobody need type launcher.
* Mutex: weak fairness of each task; strong fairness of the compare-and-swap
  `WaitCas`, because a task could otherwise read a free word and find it taken
  at every retry; the retry is a few instructions and the time slice 200 ms.
  Nothing makes a task call the lock.
* UART: weak fairness of the camera task only. OpenMV may stay silent.
* Pipeline: weak fairness of both tasks.
* Uart: weak fairness of each task inside a call, of the two interrupts and of
  the shift register. Nothing need arrive and nobody need call.
* Ring and SpiWindow: safety only.

Runs whose tasks really end (all but `ring` and `mutex*`) switch off the deadlock
check; the others keep it on.

## 4. What is proved

TLAPS proves the theorems below for every value of the constants that satisfies
the assumption of the module. A theorem `Spec => []P` that names a property of a
run removes that run's bounds.

| Module | Theorem | States | Hypothesis |
|---|---|---|---|
| `RingBufferProofs` | `RingInvariant`, `TypeCorrect`, `PointersAgree`, `ChunksWhole`, `ReadsNotTorn` | `RingInv`, `TypeOK`, `PtrsInStep`, `HeldChunksWhole`, `NoTornRead` | |
| `RingBufferFifoProofs` | `RingImplementsFifo` | `ImplementsFifo` | |
| `NxMutexProofs` | `MutexInvariant`, `MutexTypeCorrect`, `MutexExcludes`, `MutexLosesNoWakeup`, `MutexImplementsLock` | `LockInv`, `TypeOK`, `MutualExclusion`, `NoLostWakeup`, `ImplementsLock` | `InitOnce` |
| `PipelineProofs` | `PipeInvariant`, `PipeTypeCorrect`, `OutputIsPrefix`, `HelloStopsAtTheEnd` | `PipeInv`, `TypeOK`, `PrintedIsPrefix`, `StopsAtTheEnd` | |
| `SpiWindowProofs` | `WindowInvariant`, `SpiTypeCorrect` | `WindowInv`, `TypeOK` | |
| | `CsFallsInWindow` | `CsInWindow` | `WindowFits` |
| | `SlowByteIsAccepted` | `SlowByteAccepted` | `PollsFit` |
| `UartProofs` | `UartInvariant`, `UartTypeCorrect`, `LineCarriesEveryByte`, `WritesStayWhole`, `WriterNeverStalls`, `ShortWritesExact`, `ReaderNeverStalls` | `UartInv`, `TypeOK`, `NoByteLost`, `WritesWhole`, `NoStalledWriter`, `ShortWriteExact`, `NoStalledReader` | |
| | `ReadsInOrder` | `RxInOrder` | `FlushesAlone` |
| `CameraLinkProofs` | `LinkTypeCorrect` | `TypeOK` | |
| | `LinkInvariant`, `AcceptedHeaderIsOpenMVs` | `LinkInv`, `HeaderIntegrity` | `BuffersFit`, `MetaIsText`, `OneFault` |
| `LaunchProofs` | `LaunchInvariant`, `LaunchTypeCorrect`, `RbInitFindsRingQuiet`, `HelloPrintsItsImage` | `LaunchInv`, `LaunchTypeOK`, `InitFindsRingQuiet`, `PrintsCompleteImage` | `~AnyTime`, `~InitWhileHeld` |

A hypothesis is a condition without which the property is false or the model does
not decide it (two bounds of `CameraLink` excepted, see there):

* `InitOnce`: the lock is initialised once, before it is used. The runs
  `mutex_startup` and `mutex_relaunch` are what happens otherwise.
* `WindowFits`: the delay before CS, in whole ticks, is no shorter than OpenMV's,
  and the longest way from the last byte to CS ends before OpenMV's timeout.
  `PollsFit`: all sleeps but the last cover the time the polls stand for. The code
  relies on both and states neither. TLC evaluates them for the board's values as
  an ASSUME of `MC_SpiWindow`.
* `FlushesAlone`: the task that calls TCIFLUSH is the only reader of its port.
  An ASSUME of `MC_Uart` evaluates it for the workloads of the run.
* `~AnyTime`: launcher is typed again only after the hello of every earlier launch
  has printed its newline. The run `launch_again` is what happens otherwise.
* `~InitWhileHeld`: no `nxmutex_init` runs while a task holds the lock. Nothing in the
  code ensures it: from the second launch on, hello may be within `rb_read` while its
  camera is in `rb_init`. `mutex_relaunch` and the section on the run `launch` say
  what happens otherwise. `PrintsCompleteImage` and the types then still hold in the
  run's instance, but this says little of the code: once the lock no longer excludes,
  `count++` and `count--` are not the single steps that `RingBuffer` makes of them, and
  an update can be lost.
* `OneFault`: bytes and commands are lost in one run of the app, any number of them,
  or the app is started any number of times and nothing is lost. With one loss and
  one restart TLC finds a wrong header accepted: a byte of a later answer stands in
  for the lost one.
* `MetaIsText`: the metadata has no zero byte and between 1 and 255 bytes, as the
  text OpenMV sends has. With zero bytes in it, and bytes lost, TLC finds a wrong
  header accepted; the bounds on its length only spare the proof some cases.
* `BuffersFit`: `IMG_BUF_SIZE` is below 0xAA00 (it is 40000) and `META_BUF_SIZE` at
  most 256 (it is 128). A buffer of 0xAAAA bytes is too large: after three
  handshakes two ACKs can stand before the size, and an image of 3 * 65536 bytes is
  accepted as one of 0xAAAA. So raising `IMG_BUF_SIZE` by a tenth would undo a
  protection that nothing in the code mentions. The bound on `META_BUF_SIZE` may
  be stricter than it has to be. An ASSUME of `MC_CameraLink` evaluates
  all three for the images and faults of the runs.

### The ring buffer

For any set of tasks and chunks, any depth and any pointer modulus that is a
multiple (at least twice) of the depth (`RingAssumption`: what "must be
power-of-2" in `ring_buffer.h` is needed for).

None of the safety properties is inductive: that a torn read cannot happen
depends on what the reader has copied so far, which depends on nobody writing
the slot meanwhile, which depends on the lock and on the slots between the
pointers being distinct from the one `wr_ptr` names. `RingInv` therefore adds
that the tasks inside the functions are exactly the holder of the lock, and
`CallInStep`: for every call in progress, what it has read of `g_rb` so far (the
check for full or empty, the slot, the half copied) still holds.

The argument: the arithmetic lemmas come first (a pointer reduced modulo
`PtrMod` names the slot the unreduced one does; slots at distances below the
depth are distinct). `RdBase` and `WrBase` are the pointers as of the last
completed operation; the statement that advances a pointer leaves them alone, and
the update of `count` is where the queue changes. Each action has a lemma that it
preserves `RingInv`; `NextInv` combines them. For the refinement, the queue
is the slots from `RdBase` on, every action is shown to be a stuttering step or
one operation of `ChunkFifo`, and `WriteCount` and `ReadCount` are the points at
which a write and a read take effect.

### The mutex

For any set of tasks with distinct pids in a word of any width. Exclusion is not inductive:
a task on the fast path holds a value of the word it read some steps ago, and a
task on the slow path relies on the blocking bit. `LockInv` says what each call
still relies on (`CallInStep`), that the word names the holder, with the bit set
while somebody waits or is about to (`WordInStep`), and that the wait list is the
blocked tasks, each once (`ListInStep`); before `nxmutex_init` has returned its
caller is alone (`BeforeReady`). For the refinement the abstract queue of waiters
is the wait list, and the compare-and-swap that succeeds, the blocking and the
hand-off are the steps of `FifoLock`.

### The pipeline

For every image size that fits `image_buf`, every chunk size, depth and sync
prefix. `PipeInv` relates what is printed, the chunk hello holds, the chunks in
the ring and the camera's index: the ring holds consecutive chunks, the newest
pushed last, so that the place of hello's next chunk is `ci - Len(queue)`
(`NextRead`), and that place determines how many bytes are printed. The
arithmetic lemmas say that the last of `Total` chunks begins before the end of
the image and reaches it.

### The SPI window

For every tick, delay, timeout, lag and length of the answer. `WindowInv` bounds
each wake-up from both sides by the tick its sleep began in: from above for
how late CS can be (`LatencyInStep`, each byte still to be read adds `MaxLag`), from
below for how long the polls last (`PollsInStep`). It holds without a
hypothesis; the two conditions enter only at the end.

### The serial driver

For any number of tasks, buffer sizes above one and any workload. The lemmas on
circular buffers say what one side sees of the other: a byte stored at the head
is unseen until the head moves, the moved head appends one byte, a moved tail
takes the first ones and leaves a free place free. `TxInv` has what
`NoByteLost` and `WritesWhole` need: the writer that holds `xmit.lock` is the only
one inside, the place it found free stays free under the interrupt, the byte it
stored is there when it moves the head, and what it has put is the end of
what was accepted. For `NoStalledWriter` the TX interrupt is
disabled from `uart_disabletxint` until the writer waits or ends. For
`ShortWriteExact`, `CountInv` adds that `left` is the rest of the string, that what
the call has put is the expansion of the part before it, with a `'\r'` more between
the two characters of a newline, and that this is one piece of what was accepted.
The expansion is a recursive function; that it exists, and so obeys its
equation, is an induction on the length, made by looking at the least length for
which it fails (`Least`, from the well-foundedness of the numbers), as the prover
cannot instantiate the induction theorems. `RxInv` needs that nobody waits while a
reader takes a byte; it holds for every workload, flushes included. `RxOrder`, for
`RxInOrder`, adds that the local copy of the tail is the tail. Each
action preserves its own side's invariant and leaves the other side alone.

### The launches

For any number of launches, chunks of an image and slots. The proofs stand on
those of the ring buffer: `RingInv` is a part of the invariant, and each
statement of `ring_buffer.c` is used only as the step of `ChunkFifo` that
`RingBufferFifoProofs` shows it to be. `LaunchInv` adds that at most one launch is
current (its hello has not ended), that no other launch is within a call, and
that the chunks the current camera has pushed are those its hello has handled, the
one it holds and the queue, in this order (`RingInStep`, `PrintedInStep`). That
makes hello's end a sign for the camera too: to have read the last chunk hello
must have held the lock after the camera's last push, so that the camera is out of
its last `rb_write`, though not yet out of `rb_push`; the next `rb_init` then
finds the ring empty and no camera within a call. Its own hello may have
begun to read. As the ring is empty, that hello is about to lock, to look at `count` or
to unlock (`Quiet`), and the memset, which stores zero over a zero `count`, changes
nothing it relies on (`MemsetKeeps`); `nxmutex_init` finds the lock free by the second
hypothesis. A hello that was dropped from the wait list stays in its first call, and
the invariant does not need it to return.

### The UART dialogue

For any number of attempts and polls, any set of images and any number of faults.
The types need no hypothesis. `HeaderIntegrity` is far from inductive: it is about
the moment the last byte is accepted, and what decides it is how the bytes of
each field were displaced while they were read. `LinkInv` describes that by
places. Every byte of OpenMV's header has a place, from 1; stale ACKs have the
places below 1; `Here` is the place of the byte that OpenMV writes next. The window
is the bytes of the field read so far (`got`) and those still in the driver (`rx`).
`Placed` says that the bytes of the window have increasing places below
`Here`, consecutive ones if nothing was lost. Each action changes the window in one
of a few ways, and a lemma says what becomes of the places: a byte arrives
(`WritePlaces`), is lost, is read, or closes a field.

With losses, `Ordered` says that the size comes from places 2 and up, the length
from 6 and up, the metadata from 8 and up, so that a lost byte can only move a
field towards the end. An accepted size ends in two zero bytes; as the metadata is
text, place 6 and the places from 8 on are not zero. Either the size ends at place 5
and is the right one, or it ends at place 7, and then the length is made of two
characters of the metadata and refused (`BuffersFit`). What comes after place 8 is
shorter than the length says if any byte is missing, so that the app times out. Without losses,
`WholeInStep` says how far a header shifted by stale ACKs gets: by one place, at most
to the length, whose second byte is then not zero; by two or more, the size has
`ACK_BYTE` in its second byte and is refused. `CmdsInStep` and `OutInStep` say that
in the first run CMD_CAPTURE is the last command and that no second header is
written behind the first.

### Only model-checked

Every liveness property (`EveryLockReturns`, `AppReturns`, `ImageDelivered`,
`HelloEnds`, `EveryCallReturns`, `OutputDrains`, `ReaderServed`): fairness and
ENABLED are out of TLAPS's reach.

## 5. What is not modelled

* Real time other than in `SpiWindow`. There the code's own reasoning is
  narrower than its result: `camera_MSN2.c:345-348` puts 25 ms against OpenMV's 30
  and CS is nevertheless late enough only because `usleep` rounds 25 ms up to three
  ticks and adds one; with a tick of 1 ms CS would come before the window. For the
  same reason a byte is waited for up to about 1 s, not the "500 ms total" of
  the comment at `camera_MSN2.c:60`, and each byte of a field anew; the
  repository's `README.md:256` ("up to 500 ms total") can be read as the time for a
  whole field.
* Signals on the mutex: a signal does not end the wait in `nxmutex_lock`
  (`sem_waitirq.c:85`). `nxsem_wait_slow` also returns `-EINTR` before it waits if
  an unmasked signal is pending (`sched/semaphore/sem_wait.c:96-110`). In this flat
  build, without system calls, only a masked signal is left pending
  (`sig_dispatch.c:564`) and the apps mask none; so the result that `ring_buffer.c`
  ignores is not `-EINTR`. In a kernel build it could be.
* In `Launch`, `memset` and the three assignments of `rb_init` are one step. The
  assignments store what the memset has stored. A memset of part of the ring is not
  distinguished; the passing run and the proofs meet it only when the ring is empty
  and nobody copies.
* Of the serial driver: open and close, echo and line editing (echo puts
  characters without `xmit.lock`), ioctls other than TCIFLUSH, `tcdrain`, `poll`,
  flow control, DMA. A TCIFLUSH by a task other than the reader, which needs two
  cameras on `ttyS1` at once, undoes the assumption of `uart_readv` that nobody
  else moves `tail`; with such a workload `RxInOrder` fails.
* The console as a whole: a chunk of hex is several writes, so the camera's DONE
  line can fall into hello's line, although `README.md:322` calls the output a
  single line. `WritesWhole` is about one write.
* Two cameras at once also share the static `image_buf` and `meta_buf`; `Launch`
  has the ring and the lock only.
* The SPI driver below `SPI_EXCHANGE`, termios settings, the watchdog list.
* uORB: the topic is defined and never used. The README's status publication has
  no code. The stand-alone SPI demo and the rest of the vendored code, which the
  program does not run or runs as upstream NuttX does; the share of the
  repository that is mapped is therefore small by any count of lines.

## 6. Plan

Done in this order: the ring buffer and its abstract FIFO with proofs; the mutex;
the pipeline; the UART dialogue; the launches; the SPI window; the mutex as an
implementation of an abstract lock; the serial driver; then the proofs for the
mutex, the pipeline, the SPI window, the serial driver, the launches and the UART
dialogue. With these every safety property of the passing runs is a theorem. What
could come next: a sharper bound on `META_BUF_SIZE` and on the length of the metadata
in `AcceptedHeaderIsOpenMVs`, and a model of two cameras on `ttyS1` at once, with the
flush of one racing the read of the other.
