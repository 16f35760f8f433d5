# A TLA+ development for Alice ML on SEAM

Alice ML is a concurrent functional language with futures. Its programs run on
SEAM, a virtual machine in C++ (`src/seam`), extended by a language layer
(`src/alice/vm-seam`) and a library written in Alice (`src/alice/lib`). This
directory holds TLA+ models of the parts of that system in which concurrency,
asynchronous events and mutable run-time structures meet (threads, futures,
signals, descriptors, exceptions), of its store and collector, of pickling, and
of the two ways in which it executes a program, the TLC runs that check them and
proofs that the TLA+ proof system checks.

## 1. Inventory

| Part | State | Operations | Interacts with |
|---|---|---|---|
| Thread scheduler (`seam/generic/Scheduler.*`, `Thread.hh`, `ThreadQueue.hh`) | run queue, current thread; per thread: state, suspension flag, the future it waits for, task stack | dispatch; results of workers (CONTINUE, PREEMPT, SUSPEND, RAISE, REQUEST, TERMINATE, EXIT); new, suspend, resume, wake up | everything below |
| Transients (`seam/generic/Transients.hh`, `seam/store/Value.hh`, `PointerOp.hh`) | label and argument of holes, futures, by-need and cancelled futures, references; wait queues | allocate, dereference, replace (`Become`), wake the waiters | scheduler, program |
| Binding of futures (`BindFutureWorker.cc`, `TaskStack.cc`) | a frame at the bottom of a thread's stack | bind on return, fail on exception, cyclic check | scheduler, transients |
| Primitives (`alice/vm-seam/alice/primitives/{Thread,Future,Hole,Promise}.cc`, `Data.hh`) | flag of a promise | await, byneed, concur, alarm, hole, fill, fail, future, promise, fulfill, suspend, resume, raiseIn, yield | called by programs |
| Circular queue (`seam/adt/Queue.hh`) | array, read and write index | enqueue, dequeue, remove, enlarge, blank | run queue, wait queues, collector |
| Signals and alarms (`SignalHandler.cc`, `seam/store/StatusWord.hh`) | status word, pending counters, handler lists, sorted alarm list | OS handlers, timer, registration, `HandlePendingSignals` | OS, scheduler loop, futures |
| Lock library (`alice/lib/fundamental/Lock.aml`) | a cell with a future, a cell with the owner | `sync` | promises, threads |
| I/O handler, descriptors, sockets (`IOHandler.cc`, `IODesc.cc`, `UnsafeSocket.cc`) | sets of descriptors with futures; type and number of an IODesc | read, write, accept, connect, wait, select, close, block | OS, futures, scheduler loop |
| Exception handlers (`Thread.hh`, `TaskStack.cc`, `DoRaise`, interpreters) | stack of handlers with frame indices, list of atExn closures | push, pop, activate next, unroll | scheduler, program |
| Heap, collector, weak maps, finalization, hash maps (`seam/store/Store.cc`, `Heap.cc`, `Value.hh`, `BaseMap.cc`, `Map.cc`, `RootSet.cc`, `FinalizationSet.hh`) | generations of blocks, set of old-to-young references, weak maps, tables of hash maps, roots | allocate, assign, become, collect a range of generations, rehash, finalize | every structure above, between two slices |
| Pickler and unpickler (`Pickler.cc`, `Unpickler.cc`, `Pickle.hh`) | table of visited nodes, buffer of instructions, simulated stack; input buffer, stack and locals of the unpickler | walk and write a graph, restart at a transient, fill the buffer, execute an instruction, load a handler | streams, transients, broker |
| Abstract code, byte code (`AbstractCodeInterpreter.cc`, `ByteCodeJitter.cc`, `ByteCodeInterpreter.cc`, `HotSpotConcreteCode.cc`, `compiler/backend-seam/MkLiveness.aml`) | frames with locals or registers, program counter, code, counter of calls | each instruction; translation of a procedure; switch at a call | scheduler, exception handlers, transients |
| Native code jitter, minimizer, debugger and profiler, dynamic arrays | | | not modelled |
| Component manager, distribution (`alice/lib/system`, `alice/lib/distribution`) | tables of components, proxies, mobile cells | link, remote call, move | futures, network; not modelled |
| Compiler, bindings to other libraries, other virtual machines | | | not modelled |

Hard behaviours. SEAM runs all Alice threads on one OS thread, so the
interleavings are those of the scheduler: a thread loses the processor when it
is preempted, suspends, blocks or ends, and other threads act on it while it is
in a queue (suspend, resume, raiseIn). Real asynchrony comes from OS signals,
which interrupt the virtual machine anywhere, and from the peers of descriptors,
which act between any two system calls. A collection moves every block, a
pickling thread waits for transients while others change the graph, a file of a
pickle may end anywhere, and the code of a procedure is replaced while it is
being executed. `PROJECT.json` lists each hazard at its
line with the properties that watch over it; section 7 says what is not covered.

What makes each part correct: the run queue holds exactly the threads that can
run; a blocked thread is in exactly the wait queue it will be woken from; each
unresolved future has exactly one party that will resolve it; resolution happens
once; chains of references end; scheduling is fair; the circular array is a FIFO
sequence; signals and alarms are neither lost nor handled twice; the lock
excludes and is not lost; a thread that waits for a descriptor waits for an entry
that select looks at, and what it then transfers goes to the file it named; the
stack of handlers agrees with the task stack; a collection keeps what can be
reached, with its identity, and finalizes what cannot; what is unpickled is what
was pickled; byte code does what the abstract code does.

## 2. Modules

    Dataflow <-- Scheduler <-- Transients
                    |
                    +--> SchedulerProofs, MCScheduler
    FifoQueue <-- RingQueue --> RingQueueProofs, MCRingQueue
    SignalHandler --> SignalHandlerProofs, MCSignals
    IOHandler --> IOHandlerProofs, MCIO
    LeastNumber --> RingQueueProofs, SignalHandlerProofs, IOHandlerProofs,
                    HandlerStackProofs
    Lock --> LockProofs, MCLock
    HandlerStack --> HandlerStackProofs, MCHandlers
    Collector --> MCCollector
    CheneyScan --> CheneyScanProofs, MCCheneyScan
    PickleFormat --> Pickler, Unpickler --> Pickling --> MCPickling
    AbstractCode --> AbstractCodeInterpreter --+
         |                                     +--> ByteCodeInterpreter --> HotSpot
         +---------> ByteCodeJitter -----------+                              |
                                                                          MCHotSpot

### Transients and Scheduler

A word is a determined value or a transient. `label` and `arg` are header and
argument of a transient (label FREE: not allocated). `Deref` follows references
as `PointerOp::Deref` does; it is stated with the least set that is closed under
following a reference (`Denotes`), so that the module can be used in proofs.
`Stored` is the word that `Become` really stores: the code writes the label
before it dereferences the new word, so a transient that is replaced by itself
ends up as a reference to its own former argument.

`state`, `suspended` and `blockedOn` are the fields of a thread. Of its task
stack the model keeps what the top does next (`task`: run the program, raise,
only the empty task is left, or execute again a primitive whose frame the
REQUEST macro pushed) and the future of its BindFutureFrame (`binder`). The
program is arbitrary: in state "run" the current thread may call any primitive
on any word it can have got, return, raise, or be preempted. Every primitive is
one action with the error paths of the C++ code; DECLARE_THREAD and
DECLARE_PROMISE, which request an argument that is still a future, correspond to
an `Await` before the call.

Replacing a future is not atomic in the model. The code wakes the waiters one
after the other and then calls `Become`; `Bind` records what is going on in
`binding`, `ScheduleWaitingThread` is one iteration of the loop and `FinishBind`
the `Become` for the future and, for a hole, the hole itself. The code between
them does not give up the processor, so no other action is enabled while
`binding` is not `NoBinding`.

Between two slices the runtime may bind a future of its own (`BindExternal`: an
alarm or a descriptor) and start the thread of a signal handler
(`SignalThread`). `SignalHandler` models when that happens.

`CyclicFulfill` says whether programs may fulfill a promise with its own future.
No invariant of the queues depends on it, and the proofs hold for both values.

`Dataflow` is what programs are promised about transients: variables that are
created unresolved, that may be demanded (the computation of a by-need future is
started, once), of which a hole may hand out a future, and that are resolved once,
to a word or as failed, in one step that takes effect for all aliases and for a
hole together with its future. `Scheduler` maps the word that a transient leads to
(`Meaning`) and the future of a hole (`HeldFuture`) to its variables; waking
waiters one by one, and pointers that are short-cut, are stuttering steps.

### RingQueue and FifoQueue

`FifoQueue` is the abstract queue: append, take the head, drop the first
occurrence of an element. `RingQueue` translates `Queue.hh` slot by slot:
wrap-around, growth by half when the last slot is used, the two memmoves of
`Remove` and `RemoveNthElement`, and `Blank`, which shrinks and clears the array
before a collection. `Items` is the refinement mapping.

### Lock

One action per operation of `sync` at which a thread can be preempted. Promises
are numbered by the order of the exchange on the cell. `Interrupt` is an
exception that another thread raises in a waiting thread; an exception inside f
is a `Leave`, since the finally clause runs. Interrupts at other points of
`sync` are left out: a thread reaches the finally clause from its wait without a
procedure call at which it could be preempted.

### SignalHandler

The OS (`TimePasses`, `Tick`, `Deliver`) interrupts the loop of
`Scheduler::Run`, whose position is `pc`, between any two steps. Updates of the
status word by the virtual machine (`NeedGC`/`SetStatus`, `Collect`/`ClearGC`)
are a load and a store. `raised` holds what the OS will deliver when signals are
unblocked, one of each kind. Which thread runs is left open. The model is of the
build with POSIX signals; the Windows timer thread is not modelled.

### IOHandler

`file` and `ready` are the system's side: what each descriptor number stands for
and which direction would not block. A new descriptor gets the lowest free
number, so that numbers are reused at once. `type` and `fd` are the fields of an
IODesc; of a socket, which is no more than its number, `type` records what the
program did with it. `sets` are the queues Readable, Writable and Connected.

A primitive that transfers data is several steps: `Start`, the system call
(`Transfer`, `Fails` or `Blocks`), and after EWOULDBLOCK the second call in
WaitReadable or WaitWritable (`Wait`), which either sends it back (`goto retry`)
or registers the descriptor and blocks the thread. Between the steps the peers
act (`Peer`), but no other Alice thread (`current`). `Select` is a call from
Poll or Block that reports something; its loop over a queue (`Schedule`) is
translated with the index that stays when an element is removed. `Bind` wakes
the threads and lets them execute their primitives again; a connect has dropped
its frame and goes on with the socket. `Interrupt` is raiseIn on a blocked
thread: the entry stays behind.

`Set::Add` makes a new future for a number that has no entry yet. `Future`
bounds how many there are; one that is bound and that no thread waits for is used
again (`FreeFuture`).

The primitives of sockets and of IODescs share these actions; they differ in
what they do with a number whose file was closed (`Usable`). The program does not
use a socket after it closed it, but may use a closed IODesc. `Lost` stands for
the argument that DoBlock has overwritten when it is executed again.

### HandlerStack

One thread: `frames` is the task stack, bottom first, `handlers` the stack of
entries (frame index, TRYING or HANDLING, data), `size` the words of its block.
A frame records its worker and how many blocks its program counter is inside;
the program opens and closes blocks properly and may raise at any time, also
inside a handler. `ActivateNextHandler` (`Nearest`, `Activated`), the unrolling
in `DoRaise` (`Unrolled`) and the Handle method of the worker of that frame are
one step. An exception that reaches the empty task starts the actions of atExn,
whose own exceptions come back to `UncaughtHandle`. Threads start with the
frames of a plain thread, of one with a BindFutureFrame, or of a signal handler.

### Collector

`store.heap` holds four spaces of blocks: generations 0 to 2 and the second
semispace of the oldest. The collection of the generations 0 to gen is one step,
as no thread runs during it, and is translated phase by phase: the roots are
copied (`PreGC`, `PostGC`), the blocks that were copied are scanned, then the
blocks of the old-to-young set (`HandleInterGenerationalPointers`), then weak
maps in two phases (which entries are finalized, which values have to be kept for
the handlers), then the maps keyed by address are rehashed, then semispaces are
switched. References are short-cut when they are scanned. `ReplaceArg` is the
write barrier; assignments, `Become`, and the operations of hash maps with their
chains of nodes go through it.

Assumed: the static words stand for all roots (static data, task stacks,
registers); any range of generations may be collected at any time, where the code
decides by the sizes of the heaps; values are registered for finalization when
they are made, as the library does; the weak map itself is always reachable.
Whether the header of a block that was moved has the bits of WEAK_MAP_LABEL, which
`FINALIZE_PERMITTED` looks for, depends on the address of the copy: with words of
32 bits any of the values that are registered and not reached may be so unlucky
(`weakLooking`, chosen anew by every collection), with 64 bits none. Each
block carries an `id`, which the store does not have: properties use it to say
that two addresses stand for the same block.

### CheneyScan

`Collector` has a collection as one step and recursive operators that follow the
graph, so that nothing can be proved about it. `CheneyScan` is the copying part of
`Store::GC` again, one word at a time, for an arbitrary heap: `CloneRoot`, the
loop of `CheneyScan` (`NextBlock`, `ScanArg`), `HandleInterGenerationalPointers`
(`NextEntry`, `EntryArg`, `EntryDone`, which writes to the array it reads) and the
second scan. `args`, `fwd`, `intgenSet` and `childish` are the words, forward
pointers, the array of the set and the flags; `before` keeps the words of the
start and `from` the block a copy was made of, both for the properties only.
Copies are numbered in the order of their addresses. `Init` admits every heap that
a program can leave behind: chains of references end (`ReferencesEnd`), a block
with a younger word is in the set, once, and has its flag (which is what
`BarrierRestored` gives back for the next collection), and the block of roots is
nobody's word. Weak maps are not scanned; what happens to them, finalization and
rehashing are in `Collector`.

### PickleFormat, Pickler, Unpickler, Pickling

`PickleFormat` has instructions and numbers as sequences of bytes, where a byte
is a digit in base `Radix` with a continuation mark. `Pickler` walks the graph
with PickleWorker's stack until it meets a transient, which it requests at once;
when that is bound the walk goes on. After a walk that met a transient
PickleSaveWorker starts pickling again, as the graph may have changed. Other
threads bind and
assign while the pickling thread is blocked and between its two workers
(`changes`). The second pass writes the buffer and inserts the STOREs.
`Unpickler` reads from a buffer that is filled piece by piece and grows when one
instruction does not fit; an instruction that is not complete is read again from
its start. A read of the file may fail (`ReadFails`, IOError). A handler that is not registered makes a future for the node, whose
TransformWorker runs after the Broker has loaded a language layer or failed to.
`Pickling` connects both by a file or a string; of a file the last `cut` bytes may
be missing. `Cycles` says whether a concrete node may be reached from its own
argument (see section 6). The header fits into the first buffer
(`UnpicklerAssumption`; 8212 bytes in the code).

### AbstractCode, AbstractCodeInterpreter, ByteCodeJitter, ByteCodeInterpreter, HotSpot

`AbstractCode` has the words, the calling convention (`Converted`), procedures as
trees of instructions, and the liveness that the compiler puts beside the code
(`MkLiveness.aml`), from which registers are allocated.
`AbstractCodeInterpreter` has one action per kind of instruction, with the killing
of locals at their last use. `ByteCodeJitter` is the translation: `Compile` turns a
procedure into a sequence of byte code instructions, by the register allocator
(`RegisterAllocator`), scratch registers that are given out again, the order in
which operands are loaded, the assignment of self tail calls along chains
(`CompileAssignment`), tests with their jump tables, shared nodes and handlers.
`ByteCodeInterpreter` executes them. Instructions that differ in the number of
operands or in the way an operand is encoded (`seam_call2`, `init_tup3`, ...) are
one instruction here.

`HotSpot` runs one program twice: in the machine "abstract" every procedure is
interpreted, in "hotspot" it is interpreted as often as its counter says and then
compiled at the next call, while its earlier activations stay on the stack. The
machines share nothing but the transients, which are bound from outside at any
time (`Bind1`). What a program shows to its environment is the sequence of the
primitives it calls with their arguments (`trace`), and its results or exception.
The counter starts at any value up to 5, the code's constant: a procedure may
have been called before.

## 3. Runs

| Run | Checks | Shows |
|---|---|---|
| scheduler (2 threads, 2 transients) | RunQueueExact, WaitQueueExact, OneResolver, RefsResolve, DataflowSpec, NoStarvation, WaitersRun | run queue and wait queues are exact under every order of suspend, resume, raiseIn, wake-up, preemption; chains of holes, futures and promises end in a word of the program; the whole implements `Dataflow`, by which a transient is bound once; every runnable thread and every woken waiter is executed |
| ring_queue (2 elements, initial size 2, length 5) | FifoSpec | the array implements the sequence |
| lock (3 threads, 5 calls, depth 2) | MutualExclusion, OwnerExact, WaiterServed | exclusion also when waiters are interrupted; waiters get the lock unless a call before them was interrupted |
| signals (1 signal, 2 closures, 2 alarms, time 2) | HandlersOneShot, AlarmsInOrder, AlarmsFire, HandlersStart, SlicesEnd | one thread per registration; alarms in order and never early; nothing is lost for ever although status bits are |
| io (2 threads, 3 futures, reader, writer, socket, listener, 2 numbers) | WaitersRegistered, EntriesLive, RightStream, SelectServesAll, NoLostWakeup | whoever waits has an entry for the right number and direction, and no entry names a closed number, under close, reuse and interrupts; a select serves all it reports; data goes to the file of the IODesc; what becomes ready is noticed |
| handlers (5 frames, 2 blocks per frame, 2 closures) | CapacityOK, HandlersMatchFrames, HandlerFound, OuterHandlersStay, ExnActionsRun | the two stacks stay in step, every exception finds its handler, all atExn actions run |
| collector (2 variables, 3 steps, 2 collections, tables of 2) | OldToYoungRecorded, MapsFindKeys, GraphPreserved, FinalizedExact | the graph below the roots survives with its identities, every reference from an old to a young block is recorded, maps find their keys at the new addresses, and exactly the unreachable registered values are finalized, but for those that `FINALIZE_PERMITTED` takes for weak maps |
| copying (root and 2 blocks of 1 word, 2 entries in the set) | CopiedOnce, NothingLost, GraphKept, BarrierRestored | from 190656 heaps, up to renaming: nothing is copied twice or left behind, words lead where they led, the old-to-young set is restored |
| pickling (graphs of 4 nodes, radix 4, buffer 14, pieces of 4) | RoundTrip, FrameFits, CorruptExact, Ends | the unpickled graph is that of one moment of the pickled one, the announced sizes suffice, a file is called corrupt exactly when its end is missing or a handler cannot be loaded, and both sides end |
| byte_code (520 calls of small programs) | SameOutcome, BothEnd | byte code calls the same primitives and ends in the same way as the abstract code, whenever it is compiled and whenever transients are bound; the two end together, but for two forms of code, in the run as well, in which compiled code waits for another constructor, or does not wait (section 6) |
| promise_cycle, byte_code_sharing | RefsResolve, SameOutcome | violations, see section 6 |

Bounds. Two threads allow one that acts on the other in every state it can be in,
and both to wait for a future that the runtime binds; two transients are a hole
with its future, or a reference and what it leads to. All that scheduler checks
but its two liveness properties is proved for any number of both (section 5).
A thread that asks again for what has become a by-need future needs a further
thread: where none is left the bound ends the behaviour (`OutOfThreads`), which
the liveness properties except. The ring queue grows from 2 to 3, 4 and 6 slots, so that elements wrap
around at every index, and shrinks again. Five calls of `sync` let a queue of
three waiters form and be served twice. `MaxPending` 2 lets a signal arrive again
before its first delivery was handled. Time 2 gives alarms of different and of
equal times, registered in either order. Two numbers for four descriptors make
every close lead to a reuse, also while a thread waits. Three futures are more
than two threads can refer to at once. Five frames with two blocks each give nine and more
entries, so that the block of ten words grows several times, with handlers that
raise inside handlers of callers. Three steps of the program and two collections
of any range, in any order, let a block be promoted, be overwritten with a young
one, and a second collection find it by the old-to-young set alone. The keys of a
weak map are odd numbers, as words, and collide in a table of two slots: the second
stream is in front of the first in one chain, either may be dropped, and the third
makes the table grow. `WordSize` 32 includes all that happens with 64. Three blocks with every label, generation and
word give roots, copies, old blocks and references that refer to one another in
every order, and two entries a set that shrinks while it is read. A radix of 4 gives numbers of one and two
bytes; the buffer of 14 bytes holds the header, but not the longest instruction
(a chunk of 14 bytes), so that it is enlarged, and `Cuts` ends files in the last
instruction and in the one before. Graphs have a tuple with two nodes below it,
shared, cyclic, transient, mutable, concrete, unique or sited, and the chunk of
the handler's name. The programs of `MCHotSpot` are families that vary one thing
each: the arities of caller and callee, the operands of primitives, every
assignment of a self tail call to three formals, every form of test with its
branches and bindings, constructors, closures with substituted globals,
exceptions in bodies and handlers, and arguments that are transients or
determined. Threads, transients, closures and alarms
are not reused, as the collector would; identities are interchangeable, so runs
without liveness use symmetry.

Deadlock checking is off in Scheduler (all threads may block, the system may
exit), Lock (bounded calls, interrupted waiters), HandlerStack (a thread ends),
IOHandler (descriptors may be used up, the virtual machine may end), Collector
(bounded programs) and Pickling (both sides end); in SignalHandler, RingQueue,
CheneyScan and HotSpot it is on, in the last two with an explicit step at the end;
in CheneyScan it shows that dereferencing always ends.

Every property of a run has a mutant, an operator placed before the definition it
mutates, that a plausible slip in the C++ code would give and under which the
property fails.

## 4. Fairness

`Scheduler!Fairness`: the loop never waits while a thread is queued or a binding
is under way (weak fairness of `Dispatch` and of the binding steps); what a
thread has begun goes on (weak fairness of `Proceed`); the timer sets a status
bit every 10 ms, the bit stays until the slice ends, and every procedure call
then returns PREEMPT (strong fairness of `Preempt`, since a thread may call
primitives in between). `SlicesEnd` of `SignalHandler` checks the last point
against the races on the status word. No fairness is assumed of the program: it
need not fulfill any promise or return.

`SignalHandler!Fairness`: time passes, the loop goes on, and the timer, which is
not in step with the loop, again and again strikes during a slice outside the
two instructions of an update, and during a select call.

`IOHandler!Fairness`: a primitive that was begun is carried on, since nobody else
runs; `Scheduler::Run` calls Poll after every slice and Block when no thread can
run, so that a select that could report something is executed again and again
(strong fairness: between two calls a thread may read the data away). Nothing is
assumed of the peers.

`Lock!Fairness`: threads that can run do run (`NoStarvation`), and f returns.

`Pickling!Fairness` and `HotSpot!Fairness`: a thread that is not blocked is run
(`NoStarvation`); a transient the pickler waits for is bound, but in HotSpot no
transient need ever be bound. Both are weak fairness with the condition under
which the step is enabled written out.

## 5. Proofs

`SchedulerProofs` proves, for every number of threads, transients and values and
both values of `CyclicFulfill`, from `WordAssumption` and `ThreadAssumption`
(sets of names do not overlap):

* `TypeCorrect`: `Spec => []TypeOK`. One lemma per step; needs that `Deref`
  returns a word or the content of an argument, and that removing an element
  from a sequence gives a sequence.
* `QueuesInvariant`: `Spec => []QueueInv`, and from it `RunQueueCorrect` and
  `WaitQueueCorrect`. Neither queue invariant is inductive alone: `WakeupThread`
  appends a thread to the run queue, which is right only because a thread in a
  wait queue is blocked and hence not in the run queue already; `raiseIn` removes
  a thread from the wait queue it recorded, which must be the one it is in.
  `QueueInv` adds that a binding replaces only the future whose waiters it wakes,
  or a hole (`BindingTargets`), so that `FinishBind` takes the label FUTURE from
  no future that still has waiters, and that a thread which does not exist yet is
  not suspended. The lemmas `AppendQueued`, `TailQueued` and `RemoveQueued` say
  what the three queue operations do to the set of queued threads and to the
  absence of duplicates. Most primitives leave queues, states and current thread
  alone and are dispatched by `QuietStep`.

It goes on from `QueueInv`, under the same assumptions:

* `ResolversUnique`: `Spec => []OneResolver`, and `AssignedOnce`:
  `Spec => SingleAssignment`. There are many primitives, but what a step does to
  the transients is one of a few effects (`Effect`): nothing, allocation of a word
  for a thread, a promise, the runtime or a hole, the beginning of a binding by
  one of these four, and its end. One lemma per primitive names its effect; one
  per effect shows that it keeps `ResolverInv`. That invariant counts a
  binding under way among the resolvers (`Claim`) and says that an unresolved
  future has exactly one, that nothing else has one but the targets of a binding,
  which are futures or holes (`Settled`), that a thread whose frame will bind has
  not reached its end (`Lives`), and that a binding stores a label of a resolved
  transient (`BindingLabel`). OneResolver alone is not inductive: that a thread
  has only its empty task left although its frame must still bind, or that a
  binding stores a label that is none of a resolved transient, would be seen only
  some steps later.
* `ReferencesEnd`: `Spec => []RefsResolve` under the hypothesis `~CyclicFulfill`.
  `RefInv` adds that what a reference holds is a word of the program (`RefArgs`)
  and that a binding stores the end of a chain that is none of its targets
  (`GoodBinding`): the checks for cycles in `fill` and in `BindFutureWorker`.
  `Promise.fulfill` has no such check; the run promise_cycle shows that without
  the hypothesis the statement is false.
* `TransientsImplementDataflow`: `Spec => DataflowSpec` under the same hypothesis.
  Each effect is shown to be a step of `Dataflow` or to change no mapped variable
  (`EffectFlow`). What has to be seen is that `FinishBind`, which replaces a future
  and its hole, changes what a transient leads to exactly for those that led to one
  of the two (`BoundMeaning`): a chain that avoided the targets still does
  (`SameEnd`), and one that ended in a target now ends where the stored word ends
  (`BoundEnd`). For that the words that references hold must be allocated
  (`RefArgs`) and the targets of a binding must be a future, or a hole with the
  future it holds (`BindingGroup`).

`RingQueueProofs` proves that `RingQueue` implements `FifoQueue`
(`QueueImplementsFifo`), for any elements and any initial size that the code
accepts. The invariant is that of the indices (`TypeOK`: both are slots of the
array). Each operation is compared with its abstract counterpart through
`ItemsOf`, the elements that an array and two indices stand for, by cases on
whether the elements wrap around before and after the step; the scan of `Remove`
stops at the first occurrence (`LeastNat`), which is the one that the abstract
queue drops. `QueueBlanked` is
`Spec => []BlankClears`: Blank leaves no word in an unused slot.

`SignalHandlerProofs` proves `RegistrationsOneShot` and `AlarmOrder` for any
number of signals, closures and alarms, whatever the OS does between two
instructions. `SignalInv` has the types, that a closure is in the list of at most
one signal and then has no thread yet, that no closure got two, and that the list
of alarms is sorted and names no alarm twice, nor one that has gone off. The latter is why `CheckAlarms` may stop at the
first entry that is not due; that `RegisterAlarm` keeps the list sorted needs
that its scan finds the first later entry.

`IOHandlerProofs` proves, for any number of threads, descriptors and numbers, from
`IOAssumption`, the four safety properties of the run io:
`WaitersAreRegistered`, `EntriesStayLive`, `DataGoesRight`, `SelectSkipsNone`,
and `IOTypeCorrect`. The inductive invariant `IOInv` relates four things that no
single property mentions: an open descriptor has its number for itself
(`Numbers`, without which the file of a waiting thread could be replaced by an
open of another one); a primitive works on a descriptor that was opened, and
between its two system calls on one that is still usable, since no other Alice
thread runs then (`CallOK`); the entries of the three sets have different, unbound
futures (`SetsLive`) and numbers that stand for something (`FilesLive`); and a
blocked thread waits for one of them (`Waits`). `Close` keeps `Waits` only because
it drops the entries of its number and wakes exactly their threads
(`UpdateEffect`), and `DataGoesRight` then follows because a retry looks at the
type of its IODesc first. The loop of `Set::Schedule` is a recursive function on
pairs of a queue and an index. Its result is found without an induction theorem:
a configuration from which the loop ends has its result in every set that is
closed under the loop's body (`Ends`), the number of entries it has still to look
at decreases, so that a least configuration for which it does not end is
impossible (`LoopEnds`, by `LeastNat`), and the set of configurations with the
loop invariant is closed (`BodyInv`). `ScheduleDrops` is the outcome: exactly the
entries with reported numbers are gone, whatever the length of the queue.

`LeastNumber` has the one fact about numbers on which these proofs rest: a
non-empty set of naturals has a least member.

`LockProofs` proves `MutualExclusion` and `OwnerExact` for any number of threads,
calls and nestings, whoever is interrupted. The inductive invariant
`LockInv` says that the fulfilled promises are an initial segment of the exchange
order and that a waiting or holding thread owns a promise of its own that is not
fulfilled. Of two holders the later one has seen its predecessor's promise
fulfilled, hence also that of the other.

`HandlerStackProofs` proves, for stacks of any height and any number of closures
(`StackAssumption`: the bounds are numbers), `StackTypes`, by which the task stack
never becomes empty, and `HandlerCapacity`, the assertion in `PushHandler`. The
inductive invariant `StackInv` adds to both that the frame at the bottom is that
of the empty task (a worker that pops its own frame is another one, so a frame is
left) and that the block has at least ten words (half of it is then more than the
one entry and the slack that the assertion asks for: `GrownSuffices`).

The same module proves the four properties that relate the two stacks:
`StacksMatch`, `ExceptionsCaught`, `OuterHandlersSurvive` and `ExnActionsAllRun`.
HandlersMatchFrames counts the entries of each frame, which no step changes in one
place. The inductive invariant `MatchInv` says instead that the stack of handlers
is cut into segments, one per frame, by a function that gives the number of
entries up to each frame (`Segments`), that the frames below the top have the shapes with which
threads start (`Shape`), and that the handler of last resort is TRYING (`Caught`).
Every step rebuilds the stacks from some frame on and leaves what is below alone;
`Rebuilt` and `CutDownKeeps` show once that such a step keeps the segments, and
the actions are cases of them.

`CheneyScanProofs` proves the four properties of a collection and its types
(`NoBlockCopiedTwice`, `NoWordLost`, `GraphUnchanged`, `BarrierReady`,
`CollectionTypes`) for heaps of any size and shape, from `HeapAssumption` (blocks,
values and numbers differ, sizes are numbers). The inductive invariant `CopyInv`
pairs moved blocks with copies (`CopiesOK`), says of every word that it is the one
of the start or a survivor that stands for the same (`WordsOK`, `Good`), and which
of the two by how far the scan has come (`CopyWord`); that the entries of the array
that count are different ones and agree with the flags (`SetOK`); and that an old
block is yet to be read, is being traversed, or has only survivors as words and is
kept if one is younger (`OldOK`). Three facts are not in the code's own comments.
References are never moved, so that `Deref` need not fear a forwarded one
(`RefsSame`). A chain still ends after links of it were replaced, as a new link
leads out of the references at once (`ChainEnds`), and it ends in what stands for
its former end (`DerefOrig`). And in a major collection, where copies are marked
with a generation that is collected, none is met again, since the words that are
still to be scanned are those of the start (`DerefMajor`).

`BlankClears`, `SingleAssignment`, `LockInv` and the types are stated by theorems
alone; the runs check stronger properties, or their consequences.

Only model-checked: all liveness properties (fairness and ENABLED are out of the
prover's reach), and Collector (with weak maps, hash maps, finalization and the
program between collections), the pickling modules and the byte code modules,
which follow chains, graphs and trees with recursive operators: what these compute
for every input needs induction over data, which is out of reach as well.

## 6. Findings

* `Promise.fulfill` with the promise's own future. The manual promises
  `Future.Cyclic`; `Promise::Fulfill` has no check, and because `Become` writes
  the label first, the future is replaced by its wait queue (run promise_cycle).
* A self tail call that passes a variable in two places, one of which is not the
  variable's own. `CompileInlineCCC` builds chains of registers with
  `usedBy.Put(src, dst)`, which keeps only the last register that is to receive
  `src`: compiled, `fun f(a, b, c) = ... f(b, 5, b)` assigns b to a, 5 to b and
  only then b to c. With `f(b, c, b)` the walk along the chain of definitions has no end
  and leaves its vector (run byte_code_sharing). byte_code has the self tail calls
  in which no register that is changed has two uses (`Form`).

Met while modelling, part of the models, without a violation run of their own:

* A thread that is interrupted while it waits in `Lock.sync` leaves its promise
  in the lock unfulfilled; all later callers wait for ever. `WaiterServed` says
  that nothing else holds them up.
* No handler is pushed for the frame of a signal handler
  (`UnsafeSignal.cc:124`): an exception, which the comment at line 150 means to
  ignore, ends the process (`SignalExnIgnored` does not hold).
* `MakeFulfilledBlock` (`Unpickler.cc:796`) takes argument and name of a transform
  in the other order than `AllocBlock`; a cycle through a concrete node leads
  there (`TransformsNamed` does not hold with `Cycles` TRUE).
* `ApplyTransform` with a handler that is already registered does not bind the
  future by which the node was announced.
* The result of `Broker::Load` is not looked at: a language layer that cannot be
  loaded is reported as a corrupt pickle.
* Pickler's `Sited` is raised for what a walk has found before it is restarted,
  also when the graph has changed by then.
* `Queue::Blank` of an empty queue computes the number of entries as the size of
  the array: nothing is cleared or given back, and the slots keep threads that
  were dequeued long ago alive. `BlankClears` is about the other queues.
* The manual says that locks are not reentrant; `sync` compares the owner and
  lets it in (`EnterHeld`).
* `IODesc::DoBlock` clears the arguments before it blocks; the primitive `block`
  is executed again on unit, and DECLARE_IODESC requests what is no transient
  (`Lost`, `failed`).
* `IOHandler::IsWritable` (not modelled, it only reads) passes its descriptors to
  select as the set for reading.
* A thread that waits for input on a socket, which another thread closes, retries
  on the number and may receive from another socket (`misled`). `RightStream`
  holds for IODescs, which know that they were closed.
* A self tail call that passes one future to a procedure with several arguments,
  all of them unused, does not wait for it, where the abstract code does
  (`CompileUntuple` has nothing to select): when the future fails, the abstract
  code raises its exception and compiled code goes on for ever. And the byte code
  of ConTest requests the constructors of all branches in turn, also those for
  values of the other arity (`ByteCodeJitter.cc:2085`,
  `ByteCodeInterpreter.cc:1613`): it waits for a constructor that is a transient
  where the abstract code takes another branch. Programs of both forms are in
  byte_code. `BothEnd` names the two cases (`UsesNoArgument`,
  `WaitsForOtherArity`); without either of them TLC reports a counterexample.
* After a nested `CompileInstr` the flag `topScratchReusable` may still be set
  (`ByteCodeJitter.cc:2249` clears it, nothing restores it), so that the next
  constructor of a ConTest is loaded over the tested value. It takes a value in a
  scratch register (a global), a first constructor that is not in one (a local) and
  a branch that ends by building a tuple of four words with a constant for a
  primitive. The value then has every constructor that is tested. With
  `Form = "scratch"` instead of "sharing", MCHotSpotSharing.cfg gives such a
  program with two outcomes (`SameOutcome`); byte_code has the same test with a
  branch that leaves the flag alone (`ScratchTests`).
* `FINALIZE_PERMITTED` (`Store.cc:316`) reads the label of a value after
  ForwardBlock has overwritten its header with the forward pointer. With words of
  32 bits a copy may lie where the address has the bits of WEAK_MAP_LABEL; its
  value then stays in the map although nothing else refers to it, until a later
  collection copies it to another place (`spared` in `FinalizedExact`). What the
  comment before it asks for, "Value is non Dict or empty Dict ?", is not what it
  decides: a weak map that is registered in another one would be finalized with
  its entries. No code registers one.

Read in the code, below what the models tell apart: the loop of UnpickleWorker
keeps a pointer to its frame across the push of another one, which may move the
task stack; PickleCheckWorker has no way to continue when the header crosses the
end of the buffer; a list of finalizations that grows during a minor collection
lies in a young generation and is no root (`Store.cc:397`); tests of real numbers
compare -0.0 and 0.0 in two ways.

## 7. Not modelled, and the plan

Not modelled: of descriptors, the positions, kinds and non-blocking operations
and the Windows variant with forwarded handles; growth and overflow of task
stacks; of the store, chunks of memory, their sizes and the choice of the
generations to collect; the minimizer of pickles; the native code jitter, and of
the byte code jitter the inlining of procedures and primitives, constant
propagation, specialization, `LazyPolySel` and `PutPolyRec`, calls with more
arguments than there are argument registers and tags beyond the small ones;
iteration over maps, dynamic arrays; debugger and profiler; component manager and
distribution; compiler (but for its liveness analysis) and bindings, which are
sequential or external.

Order of further work:

1. Inlining in the byte code jitter, with its substitutions and handlers.
2. `FutureLib` (awaitEither, timeouts), component manager, mobile cells.
