# OpenPA in TLA+

OpenPA is a small C library: atomic primitives (`OPA_*`) with one
implementation per architecture and compiler, and a multi-producer,
single-consumer queue built on them. It is a library of a few hundred lines
whose correctness is almost entirely about interleavings, so this project
models every shared-memory access of the queue and of the emulated primitives
as a step of its own.

Paths below are relative to the repository; `opa_queue.h` is `src/opa_queue.h`
and the ports are in `src/primitives/`.

## The system

| component | state | operations | what is hard | what makes it correct |
|---|---|---|---|---|
| queue (`opa_queue.h`, `opa_queue.c`) | `head`, `tail`, `shadow_head` in `OPA_Queue_info_t`; `hdr.next` of every element | `OPA_Queue_init`, `header_init`, `enqueue`, `is_empty`, `peek_head`, `dequeue` | producers run concurrently with each other and with the consumer; an enqueue is visible in two steps; `head` is written by both sides; the store order of the hardware | it is a FIFO; nothing is lost; a returned element is the client's again |
| relative addresses (`opa_queue.h`, `opa_queue.c`) | `OPA_Shm_asymm_base_addr`, per process | `OPA_Shm_asymm_init`, `abs_to_rel`, `rel_to_abs` | two sentinels (0 and 64); an unguarded test-and-set | an element has the same relative address in every process; a second initialisation is refused |
| reference semantics (`opa_primitives.h`, `opa_by_lock.h`) | one int or pointer cell | load, store, add, incr, decr, decr_and_test, fetch_and_{add,incr,decr}, cas, swap | wrap-around | each call takes effect at one instant |
| LL/SC emulation (`opa_emulated.h` over `opa_gcc_ppc.h`, `opa_gcc_arm.h`; in assembly in `opa_gcc_sicortex.h`) | the cell and the reservations | all of the above as loops | a store between LL and SC; ABA; spurious failure | refines the reference semantics; the loops end |
| CAS emulation (`opa_emulated.h`; used by `opa_gcc_intrinsics.h`, copied by `opa_gcc_ia64.h`) | the cell, `prev` and `cmp` | fetch_and_add, swap | the retry with the value returned; ABA | the same |
| lock-based primitives (`opa_by_lock.h`, `opa_primitives.c`) | a mutex in shared memory, a pointer to it per process, the cell | `OPA_Interprocess_lock_init`; every call as a critical section | failure of the initialisation; processes that attach, and go on, before the leader | mutual exclusion, the same |
| the other ports (x86, ia64, C11, gcc intrinsics, Sun, NT, unsafe) | the cell | single instructions, library calls or intrinsics | what the port makes of their answers; what each orders and what it does not | atomicity and the right result; enough order for the queue |
| barriers, acquire and release | store order | `OPA_{read,write,read_write}_barrier`, `load_acquire`, `store_release` | differ per port, and not all are as strong as their name | publication, handing over, store-load order |

The components interact through shared memory only. The queue calls
`OPA_load_ptr`, `OPA_store_ptr`, `OPA_swap_ptr` (enqueue), `OPA_cas_ptr`
(dequeue), one write barrier before the swap and one read barrier at the end of
dequeue, and identifies elements by relative addresses. There are no messages,
no callbacks and nothing persistent: no crash recovery to model. The tests are
clients; they fix how the calls may be combined (`test_queue.c` is the consumer
loop whose fairness is assumed below).

## Modules

| module | models |
|---|---|
| `FifoQueue` | what the queue promises: a sequence of elements and the set of those whose enqueue is still running |
| `OPA_Queue` | the queue, one shared access per action, sequentially consistent |
| `QueueProofs` | the theorems about `OPA_Queue` and `QueueOverCAS` |
| `OPA_QueueRelaxed` | the queue on hardware that delays stores (`Model` is `"TSO"` or `"PSO"`) |
| `RelaxedProofs` | the theorems about `OPA_QueueRelaxed` |
| `MachineInts` | two's complement ints, wrap-around and the `OPA_*` calls |
| `AtomicOps` | what the primitives promise: a linearizable cell |
| `Emulated` | the one-line functions of `opa_emulated.h`, as the addend they pass on and what they return |
| `EmulatedLLSC` | the LL/SC loops |
| `LLSCProofs` | the theorems about `EmulatedLLSC` |
| `PortOps` | the calls of the ports that have compare-and-swap: one instruction or a CAS loop |
| `PortProofs` | the theorem about `PortOps` |
| `EmulatedLemmas` | lemmas about the ints of `MachineInts` and `Emulated` |
| `ByLock` | the lock-based calls and `OPA_Interprocess_lock_init` |
| `ByLockProofs` | the theorems about `ByLock` |
| `QueueOverCAS` | `OPA_Queue` with `OPA_swap_ptr_by_cas` for the swap of its enqueue |
| `ShmAddr` | relative addresses, `OPA_Shm_asymm_init` |
| `ShmAddrProofs` | the theorems about `ShmAddr` |
| `Barriers` | what the barriers, acquire and release of each port keep in order, and programs that depend on it |
| `BarriersProofs` | the theorems about `Barriers` |
| `MCQueueRelaxed`, `MCLLSC`, `MCPorts`, `MCByLock` | constants for TLC |

The modules are layered by refinement:

    QueueOverCAS --> OPA_Queue --> FifoQueue <-- OPA_QueueRelaxed
    EmulatedLLSC, PortOps, ByLock --> AtomicOps

### The queue

`head`, `tail`, `shadow_head` and `next` are the fields of the same names; an
element stands for its address, relative or absolute. `ppc` and `cpc` say
where a producer or the consumer is inside a macro. `q` is a history variable:
the elements in the order of their swaps, less those the consumer has
unlinked. `pool` holds the elements that are the clients' own.

| code | actions |
|---|---|
| `OPA_Queue_enqueue` | `EnqueueCall` (reset `next`), `EnqueueSwap` (swap `tail`), then `EnqueueSetHead` or `EnqueueSetNext` |
| `OPA_Queue_is_empty` | `IsEmptyShadow`, or `IsEmptyLoadHead` and, if there is a head, `IsEmptyCopyHead`, `IsEmptyResetHead` |
| `OPA_Queue_peek_head` | `PeekHead` |
| `OPA_Queue_dequeue` | `DequeueCall` (is there a `next`?), then `DequeueAdvance`, or `DequeueCas` and, if it fails, `DequeueWait` and `DequeueAdvance`; `DequeueClear` in both cases |
| `OPA_Queue_header_init` | `HeaderInit` |

Accesses to variables that one thread owns (`shadow_head`, locals) ride along
with the shared access next to them. The preconditions in the comments of
`opa_queue.h` are guards: one consumer, peek only right after is_empty, dequeue
only after an is_empty that answered 0. An element is enqueued only by a client
that owns it. In `Init` the `next` fields hold anything, since the memory is the
client's and `header_init` is optional; so they do in `OPA_QueueRelaxed`. There
an element is handed from one thread to another only when no store to it is on
its way (`HandedOver`: in the tests that is `malloc` and `free`), and
`HeaderInit`, whose result nobody reads before the element is enqueued, is one
step.

`FifoQueue` is deliberately weaker than an atomic FIFO. is_empty may answer 1
although an enqueue has returned: the element may be behind another one whose
enqueuer has swapped `tail` but not stored its link. `Blocked` states exactly
when that is.

`OPA_QueueRelaxed` puts a store buffer between each thread and memory. Under
`"TSO"` (x86) stores leave it in order and a locked instruction waits for it to
drain. Under `"PSO"` stores to different locations overtake each other, and cas
and swap wait only for earlier stores to their own location: a store order that
POWER and ARM allow (`OPA_LL`/`OPA_SC` contain no barrier), and C11 for relaxed
operations. Loads are in program order in both, so what holds under `"PSO"` is
not thereby shown for POWER or ARM, while a failure under it is one there. (What
the consumer loads of an element it loads through a pointer that it has loaded
before; program `Publish` of `Barriers` looks at that order without taking it
for granted.) Each element has a payload, which its client stores before the
enqueue and loads after the dequeue. In this module the store that links the
element is one action, `EnqueueLink`.

### Relative addresses

The queue modules identify an element with its relative address. `ShmAddr` says
when they may. Each process has mapped the segment somewhere (`segment`) and has
a `base`; `link` is a relative address in shared memory, with the element it was
made for and its maker. `OPA_Shm_asymm_init` is two actions, `AsymmTest` and
`AsymmSet`, so that two threads of a process may both find the base unset, and
the second may set it when links have been made with the first. Callers may give
any address, 64 included, at which the segment may lie; elements lie anywhere in
it, at its start included; `given` records what was accepted. The only thing
assumed is that a process converts addresses after a call has returned 0 (the
assertion that says so expands to nothing).

With so much freedom addresses need not mean the same to everyone. `Agree` says
between whom they do: each process was given one base, and the segment is as far
from the one as from the other, be it that both gave its address or, as the
tests do, 0. `LinksResolve` says that it is enough, and that an element is taken
for `OPA_SHM_REL_NULL` exactly when it lies at the base: the code cannot see
that, so the queue modules assume that no element does. Racing first calls that
give the same address do no harm; if they give different ones, the process does
not `Agree` with any. `RefusedOnceCalled` is the promise of `opa_queue.h:33`: once
a call has returned 0 no later one is accepted, unless one gave 64. (Calls that
had passed the test before are accepted: that is the race.)

### The primitives

`AtomicOps` is the cell: a call is invoked, performed at one instant, and
returns. `NewValue` and `Result` are read off `opa_by_lock.h`, which calls
itself "a very readable reference for the exact semantics of our OPA_* ops".
The emulations are modelled one access per action. For LL/SC the hardware is
the set `reserved` of threads whose next `OPA_SC` may succeed: any store to the
cell empties it, and `LoseReservation` is the spurious loss. Pointer and int
versions are the same code, so only ints are modelled.

`PortOps` chooses a port in `Init`, as the build does. A call is `Direct` (one
instruction, library call or intrinsic) or, where `Looped` says so, `ReadFirst`
and then `Cas` until it succeeds. What is left to the ports is what a unit test
of one thread hardly tells apart: which calls are loops (gcc's swap, ia64's
addends that are no immediates), whether decr_and_test looks at the old or the
new value, and how the old value is recovered from the new one (Sun). `by_cas`
is `opa_emulated.h` with all it can express by compare-and-swap; `gcc_swap` is the
gcc port with `SYNC_LOCK_TEST_AND_SET_IS_SWAP`. The ports whose
calls are LL/SC loops or critical sections are in `EmulatedLLSC` and `ByLock`.

In `ByLock` a critical section is `Enter`, `Read`, `Write`, `Exit`. Two guards
are what the comment above `OPA_Interprocess_lock_init` asks of clients: every
process calls it exactly once, and one of them as leader. One more is what its
return value is for: a process makes `OPA_*` calls only after its own call has
returned 0. No process waits for another's. A process that is not the leader
gets that at once, before the leader has initialised the mutex and even if it
never does (`LeaderInit` fails when any of the three pthread calls does). So a
critical section can be entered by a mutex that is not one, and exclude nobody:
`Enter` is then not held up, since zeroed memory is a free mutex, and the error
of a mutex that is none is ignored. (To wait for ever instead is never to take
the step.) And the leader's late `pthread_mutex_init` frees a mutex that others
hold. Critical sections do overlap in these behaviours; neither the code nor the
comment prevents it. What the module shows is what remains true:

- `OnlyHastyUnguarded`: only a process that made a call before the leader had got
  0 (`hasty`) can enter in that way (`unguarded`). A process that waits for the
  leader need not wait for the others, and a leader that has got 0 has a mutex.
  (One that waited is nevertheless not safe from another's haste.)
- `SectionsExclude` and `SectionsAreAtomic`: as long as nobody has entered in that
  way, critical sections exclude each other and every call is atomic, with other
  processes attaching to the mutex while it is held.

### The queue over compare-and-swap

Where gcc's `__sync_lock_test_and_set` is no swap, enqueue swaps `tail` by a load
and a compare-and-swap loop. `QueueOverCAS` extends `OPA_Queue`, keeps the
consumer and the links, and replaces `EnqueueSwap` by `SwapLoad`,
`SwapCasSucceed` and `SwapCasRetry`. Other enqueues and the consumer's own
compare-and-swap move `tail` in between, to NULL and back to the same element
included. It implements `OPA_Queue` under the mapping that takes a producer in the
loop for one that has not swapped yet.

### Barriers, acquire and release

`Barriers` describes a port by the pairs of accesses that it keeps in order:
what the machine orders by itself, and what each barrier adds, where
load_acquire's stands after its load and store_release's before its store. A
program is a sequence of accesses and barriers, and its accesses are performed
in any order that respects the pairs, accesses to one location, and nothing
else. The programs are the repository's own:

| program | from | property |
|---|---|---|
| `LinearArray` | `test_barriers_linear_array_write` and `_read`, with a two-element array, two writers and one reader | `NeverIncreasing` |
| `Publish` | `OPA_Queue_enqueue`, `peek_head` and `dequeue`: a payload and a NULL `next`, then a link | `PublishedIsVisible` |
| `Handover` | a variable handed over by store_release to load_acquire | `AcquireSeesRelease` |
| `DoneThenContinue` | `threaded_llsc_int_aba_helper_0`, the same with `OPA_read_write_barrier` | `BarrierHandsOver` |
| `StoreThenLoad` | `threaded_llsc_int_stack_pop`, a store to be seen before a load | `StoreBeforeLoad` |

The queue has a read barrier only at the end of dequeue. What is read before it,
the `next` field at `opa_queue.h:264` and anything the client of `peek_head`
reads, is read through the link that was loaded before (`Follow`). Every machine
with a port of its own performs such a load after the load it depends on
(`KeepsDependencies`). C11 does not promise it for relaxed operations, nor gcc
for plain accesses, so that half of `PublishedIsVisible` leaves these two ports
out.

Two other properties leave ports out, because there the code does not do it, and
in both cases a comment says that it does:

- `AcquireSeesRelease`, the gcc port. `opa_gcc_intrinsics.h:45` and `:52` say
  "guarantees acquire semantics" and "guarantees release semantics" of an
  operation on a local variable, the acquire after the load and the release
  before the store. A one-sided barrier there keeps neither in its place. (On
  x86, and wherever the compiler makes full barriers of them, it makes no
  difference.)
- `StoreBeforeLoad`, the NT port, whose `OPA_read_write_barrier` is an instruction
  to the compiler alone; `opa_nt_intrinsics.h:50-51` calls it "a full memory
  barrier". Without it a store is not ordered before a later load. The same is
  so in the C11 port (an acquire-release fence) and the Sun port (two membars,
  for loads and for stores), where no comment claims more, and
  `opa_primitives.h:67-70` only declares it. The stack that relies on that order
  runs only in ports with LL/SC, where the barrier is a full one.

`load_acquire` and `store_release` of the ia64 port do not compile
(`opa_gcc_ia64.h:92`), so `Handover` skips that port.

The model has one memory: an access is performed with respect to all threads at
once. POWER and C11 allow more, so on them a property that holds here is
necessary and not sufficient. What each instruction orders is taken from the
comments in the code (`opa_gcc_ppc.h:44`) and the manuals of the machines.

## Runs

| run | instance | shows |
|---|---|---|
| `queue` | 3 producers, 4 elements | `IInv`, `NoDanglingReference`, `HeadNeverOverwritten`, `LinkWrittenOnce`, `ImplementsFifo`, `EventuallyDequeued` |
| `queue_cas` | 3 producers, 3 elements | `ImplementsQueue`, `SomeEnqueueSwaps` |
| `queue_tso` | 2 producers, 3 elements | `NothingLost`, `ImplementsFifoTSO`, `EventuallyDequeuedTSO` on x86 |
| `queue_pso` | 2 producers, 3 elements, symmetric | `RelaxedInv`, `PayloadVisible`, `DequeuedInOrder` |
| `llsc` | 2 threads, 2 calls each, 2-bit ints, 1 spurious failure | `Inv`, `LoopsAreAtomic`, `LoopsEnd` |
| `ports` | 2 threads, 2 calls each, 2-bit ints, all eight ports | `PortsAreAtomic`, `CasLoopsEnd` |
| `bylock` | 2 processes, 2 calls each, 2-bit ints | `OnlyHastyUnguarded`, `SectionsExclude`, `SectionsAreAtomic` |
| `shm_addr` | 2 processes with 2 callers each, 3 addresses, sentinel 1, elements at 0 and 2 | `LinksResolve`, `RefusedOnceCalled` |
| `barriers` | 3 threads, 2 passes over the array, 11 ports, 5 programs | the five properties above |

Three runs end in a violation, each a disagreement between the code and what
the repository says of it:

- `queue_lockfree`: `opa_queue.h:7` calls the queue lock-free. A consumer whose
  cas fails waits at line 275 for the link of an enqueuer, for ever if that
  enqueuer never runs again.
- `queue_pso_loss`: with unordered stores the reset of `head` in is_empty
  (line 175) may reach memory after the cas of the dequeue that follows it. In
  between, an enqueuer finds `tail` NULL and stores `head`; the late reset wipes
  that out, and the element is never found. `test_queue.c` checks that every
  element arrives.
- `ia64_add`: the fallback of the ia64 `OPA_fetch_and_add_int` stores `val`
  instead of `prev + val`. (3-bit ints, so that 2 and -3 are ints but no
  immediates. The addends of `ports` are immediates.)

### Bounds

Queue: a gap in the list needs one producer, two gaps (one at the head and one
further on) two, and a third lets an enqueue complete behind both. With three
elements one can be in the queue, one pending and one reused after its dequeue;
with four the list has an inner link besides. With a compare-and-swap loop
one producer can be in the loop while two others, or one and the consumer, take
`tail` away and bring it back. The models of the queue are
finite without any bound on the number of calls, since elements are reused.

Primitives: `MaxCalls` bounds the calls of each thread, `Spurious` the spurious
failures. Two calls by another thread are enough to take the cell away from a
value and back to it (ABA), and one spurious failure to go round a loop without
interference. With two bits (`Half = 2`) sums wrap around. These runs switch
deadlock checking off because threads stop when they have made their calls (in
`ByLock` also when the initialisation has failed); `barriers` because its
programs end. The queue never stops.

Addresses: with three of them every placement of two segments and every choice of
bases is covered, the sentinel 1 is a place for the segment, a base and an
address of elements, and the element at 2 wraps around the address space.

Barriers: the linear array needs two writers for a reader to be overtaken while it
reads, and a second pass to find values left by the first; the other programs
are as long as the code they come from.

### Fairness

- A producer inside an enqueue, the consumer inside a call, and a thread inside
  a primitive go on taking steps (weak fairness): they are running threads.
  Nothing makes a producer start an enqueue.
- The consumer is the loop of `test_queue_threaded_dequeue`: it calls is_empty
  again and again (weak fairness) and dequeues when the answer is 0. Strong
  fairness of `DequeueCall` says that it does not go on peeking and polling for
  ever instead.
- In `queue_cas` only producers inside an enqueue are fair. The consumer may stop
  anywhere: `SomeEnqueueSwaps` is the lock-freedom of the swap loop, and it
  cannot be owed to the consumer.
- On relaxed hardware a buffered store reaches memory eventually (weak).
- Nothing is assumed, and no liveness claimed, of the mutex.

The emulation loops are lock-free and not wait-free: a thread can be kept in
one by others that succeed for ever. `LoopsEnd` and `CasLoopsEnd` therefore speak
of finitely many calls.

## Proofs

`QueueProofs` proves, for any sets of producers and elements and from
`NullAssumption` alone, that `IInv` is an invariant, and from it
`NoDanglingReference`, `HeadNeverOverwritten`, `LinkWrittenOnce`, the type
invariant, and that the queue implements `FifoQueue`.

`IInv` is inductive. None of the properties is by itself: whether a dequeue may
unlink its element depends on who still owes a link to it, that on the order of
the swaps, and that on who owns which element. Its parts are

- `Ownership`: an element is in one place only: with a client, in an enqueue that
  has not swapped, in `q`, or in a dequeue about to return it;
- `Chain`: neighbours in `q` are linked, or an enqueuer owes the link; the last
  has none, and `tail` is the last;
- `Owed`: what an enqueuer owes is a link between neighbours that is not there
  yet, or `head`, and only while `head` and the consumer's front are NULL;
- `Front`: where the list begins, and what each place in the consumer's code
  knows of it;
- `Replied`, `Locals`: what the consumer's last answer and the local variables
  of idle threads say.

There is one lemma per part (`OwnershipStep`, `ChainStep`, ...) with one step per
action, and `StepImplementsFifo` maps each action to a step of `FifoQueue` or to a
stutter: the swap is `Enqueue`, the link `Complete`, `DequeueClear` is `Dequeue`,
and is_empty takes effect at its load of `head` when that is NULL and at its
reset otherwise.

`LLSCProofs` proves, from `HalfAssumption` (ints have at least two bits) and
`LLSCAssumption`, that a thread that keeps its reservation holds the value of
the cell (`NoStaleStore`), and that the LL/SC loops implement `AtomicOps`. The
proof needs two facts about ints: sums wrap around to ints, and comparing the
old value with 1 is comparing the new one with 0. The second fails for ints of
one bit, hence the assumption.

`PortProofs` proves, from `HalfAssumption` and `PortsAssumption`, that the calls
of every port implement `AtomicOps`, provided that no call of an ia64 port takes
its fallback (`NoFallback`): the run `ia64_add` shows that it would be false
without. Besides the wrap-around it needs that the old value can be recovered
from the new one by subtraction modulo the width, which is what Sun's
`fetch_and_add` does. The inductive invariant says that a loop compares with the
value its sum is made from (`cmp` and `prev` are equal when it does).

`ByLockProofs` proves, from `ByLockAssumption` and `HalfAssumption`, for any
number of processes and whichever of the pthread calls fails:
`OnlyHastyUnguarded` without a condition; and as long as `unguarded` is empty,
`SectionsExclude` and that every step is one of `AtomicOps`
(`SectionsAreAtomic`). The first needs that the leader gets 0 only for an
initialised mutex and that a thread whose call is in progress is `hasty` unless
the leader had got it. The inductive invariant for the others is conditional,
too: who is in a critical section then owns the mutex, which is initialised, so
that the leader's `pthread_mutex_init` is in the past; and between `Read` and
`Write` the local variable holds the value of the cell.

`QueueProofs` also proves that the queue over a compare-and-swap loop
implements `OPA_Queue` (`CASQueueImplementsQueue`), for any sets of producers and
elements. No invariant about `cmp` is needed, which is why ABA does no harm
here: what the loop has read decides only whether it goes round again.

`RelaxedProofs` proves, from `ModelAssumption`, for any sets of producers and
elements:

| theorem | store order | says |
|---|---|---|
| `RelaxedStructure` | both | `RelaxedInv` is an invariant |
| `PayloadArrives` | both | `PayloadVisible` |
| `OrderIsKept` | both | `DequeuedInOrder` |
| `NothingLostTSO` | x86 | `NothingLost` |
| `QueueImplementsFifoTSO` | x86 | the queue implements `FifoQueue` |

The last two are false for unordered stores, as `queue_pso_loss` shows.
`RelaxedInv` is the `IInv` of `OPA_Queue` with stores in flight:

- `Ownership`, `Replied` and `Locals` are as before;
- `Buffers`: what can be on its way: no two stores of a thread to one location;
  of a producer the link of its last enqueue and the two stores before its next
  swap, none of them once it has swapped; of the consumer the resets of `head`
  and of elements it has given back;
- `Prepared`: payload and NULL link of an element before its swap are in memory or
  on their way, those of an element in `q` are in memory. This is what the write
  barrier is for;
- `Chain`, `Owed`: a link that is not in memory is owed, by exactly one producer,
  which has yet to make the store or has it in its buffer (`Owes`);
- `Front`: how the list begins. A NULL front with an element in `q` means that
  `head` holds it or that it is owed, or, only under `"PSO"`, that the element is
  lost. Under `"TSO"` the reset of `head` is never on its way when the consumer
  has nothing left, because the cas of its last dequeue has drained the buffer:
  the one fact that excludes the loss.

The sequences of stores are dealt with once, in the lemmas up to `FlushEffect` and
`StoreEffect`; after that a buffer is the set of its stores (`InFlight`), and a
store that reaches memory is one of four kinds (`FlushReset`, `FlushClear`,
`FlushLink`, `FlushPrepared`). In the refinement the swap is `Enqueue` and the
arrival of the link in memory is `Complete`, which may be after the enqueue has
returned; the link's store itself is a stutter.

`BarriersProofs` proves the five properties of `Barriers` from
`BarriersAssumption` (there are two threads to talk to each other, and the ports
and programs are those described), for every port and any number of threads and
rounds. `Orders` looks at each port once: which pairs of accesses does it keep
in order, by the machine or by the barrier? The rest is independent of the port.
`BarriersInv` has a part for each program, which says that memory is what the
performed stores have made it and that a load has returned no more than memory
can have held. The linear array needs counting: `x` is ahead of `y` by the
number of writers between their two increments (`Middle`), and neither ever
decreases: the `x` that a reader finds is not behind the `y` it has seen before.

`ShmAddrProofs` proves `LinksResolve` and `RefusedOnceCalled` from
`ShmAssumption`, for an address space of any size. The invariant (`Inv`) says
that a base was given, by a call that has ended or one that is running, and that
a relative address is the distance from a base that its maker was given; the
rest is modular arithmetic (`SameDistance`).

Only model-checked: all liveness (`EventuallyDequeued`, `EventuallyDequeuedTSO`,
`SomeEnqueueSwaps`, `LoopsEnd`, `CasLoopsEnd`), since the prover does not reason
about fairness. Every other property that a passing run checks is a theorem.
`FifoQueue` and `AtomicOps` are specifications, not proved from anything. That
`QueueOverCAS` is a FIFO follows from two theorems, by transitivity; it is not
stated as a third.

## Not modelled

- `opa_unsafe.h`: its comment (lines 24-29) promises nothing under concurrent
  use. It is sequential one-line functions.
- The second half of the eight bytes that ia64's `OPA_swap_int` exchanges
  (`opa_gcc_ia64.h:202`): `OPA_int_t` has four there and is neither padded nor
  aligned. The models have one cell and no memory after it.
- `opa_util.h`: macros without state. `OPA_assert` expands to nothing, which
  the models take into account.
- The tests, apart from the programs `Barriers` takes from them, and the build,
  which chooses a port.
- Memory models beyond a store buffer and beyond one memory for all threads:
  POWER's and C11's in full.
