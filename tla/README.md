# Verification of cl_sparse

cl_sparse is a library for sparse linear algebra: matrices in the formats COO,
CSR, ELL and HYB and dense vectors, each with a class for the host (`CPU`) and
one for an OpenCL device (`GPU`), kernels for products and reductions on the
device, and a driver, `main.cpp`, that multiplies two sparse matrices on the
host. The repository also carries clBLAS, a library of dense linear algebra
that cl_sparse can be built with. This directory holds TLA+ models of the core
of both, TLC configurations that check them on small instances, and proofs
checked by TLAPS.

What makes this code hard to test is that its results depend on the order in
which a device runs work-items, on rounding in the sizes of a launch, on what
fresh memory holds and on what an object was used for before. A test runs one
device, one order and one heap. In clBLAS it is threads that share a cache and
scratch images, and calls that are cut into steps whose order only events keep.

## Inventory

| part | state | operations | what makes it correct |
|---|---|---|---|
| `matrix/matrixcoo_gpu.cpp`, `coo_kernels/` | y, local memory of each warp, `temp_rows`/`temp_vals` | `multiply`: three launches | no lost update of y, each entry counted once, no slot of the carries read unwritten |
| `matrix/matrixcsr_gpu.cpp`, `csr_kernels/` | y, local memory | `multiply`: a scalar or a vector kernel | lanes read slots of other warps, which must not reach the result |
| `vector/ocl_vector.cpp`, `vector_kernels/` | local memory, partial sums, result cell, queue | `sum`, `dot`, `norm`, `norm2` in two overloads; elementwise operations | the barrier-free end of the tree; a non-blocking write; launch sizes against compiled sizes |
| `matrix/matrix*_cpu.cpp` | arrays of each format | load, conversions, products, resize, clear | conversions keep every entry in its row; products agree; each array has one owner and as many elements as nnz says |
| `matrix/matrixell_gpu.cpp`, `ell_kernels/` | y | `multiply`: one work-item per row | agrees with the host although it ends a row elsewhere |
| `matrix/matrixhyb_gpu.cpp` | y | `multiply`: ELL kernel, then the COO kernels | the COO kernels add to what the ELL kernel left, and only to that |
| `main.cpp`, `utils/` | workspace of products, result | expand, sort, compress | each product once, in its place |
| `ocl.cpp`, `kernel.cpp` | flags, handles, map of kernels (all static) | construct, shutdown, getters | the device asked for; handles alive, released once |
| `vector/cpu_vector.cpp` | an array | construct, `operator=`, resize, load, destroy; elementwise loops | the array is as long as `size` says, and deleted once |
| buffers of the GPU classes (`matrix*_gpu.cpp`, `ocl_vector.cpp`) | members and `cl_mem` handles of each object | construct, load, clear, `operator=`, destroy, temporaries of `multiply` | one owner for each buffer, none after its release; lengths that agree with members; no leaks but the known ones |
| `io/mmio.cpp` | none | parse Matrix Market text | - |
| `timer`, `iterator`, headers, `src/testing` | - | - | - |
| clBLAS `common/kern_cache.c` | kernels with reference counts, LRU list, total size | find, add, put, clean; called by `makeSolutionSeq`, `freeSolutionStep` | a count is the number of holders; a step gets the kernel it asked for; the size within its limit; nothing left by teardown |
| clBLAS `blas/scimage.c` | list of images, the devices that use each | add, remove, get, put | an image lent once per device; it lives as long as it is listed or lent |
| clBLAS `blas/generic/solution_seq_make.c` | the sequence of steps of a call | divide among queues, decompose, find patterns and kernels | parts tile the problem; the result is that of the whole |
| clBLAS `blas/generic/solution_seq.c`, `events.c` | the array of events | enqueue, release | the order of the steps; the events of the caller mean what they say |
| clBLAS functions, `blas/gens`, `tools/tune` | - | check arguments; print kernels; measure | - |

Parts interact by calls. A matrix or vector on the device sets the arguments of
a kernel from the static map of class OpenCL, enqueues it in the one command
queue, which is in order (`ocl.cpp:148` passes no properties), and blocks in
`clWaitForEvents`. The program has one host thread. Concurrency is on the
device: work-groups run in any order, the warps of a group in any order between
barriers, and the lanes of a warp in lock-step. The kernels count on the last
point: they come from CUSP and drop barriers inside a warp.

In clBLAS any number of threads may call. A call makes a list of steps, one per
command queue and then several per queue, asks the scratch images and the cache
of kernels for what each needs, enqueues them and returns; the kernels run
later. Threads meet in the cache, in the list of images and in the array of
events, each with a mutex of its own; `clblasSetup` and `clblasTeardown` are not
to be called meanwhile (`clBLAS.h`).

Components that are left out, with the reason, are in `PROJECT.json`, as are the
hazards, each with the line where it bites and the properties that cover it.

## Modules

```
FormalSums        sums as functions from terms to how often they were added
SpMV              what every multiply() promises            (abstract)
CooFlat           COO product on the device                 implements SpMV
CooFlatProofs       theorems about it and about HybMultiply (TLAPS)
HybMultiply         HYB product: ELL kernel, then CooFlat's launches
CsrSpMV           CSR product on the device                 implements SpMV
CsrSpMVProofs       theorems about it                       (TLAPS)
VectorReduce      sum, dot, norm, norm2 on the device
VectorReduceProofs  theorems about it                       (TLAPS)
Formats           COO, CSR, ELL, HYB on the host, conversions, products
Primitives        scans, scatters, sort ... of utils/       (operators)
SpMM                the sparse product of main.cpp over them
MatrixProofs        theorems about it and about Formats     (TLAPS)
Runtime           class OpenCL;  MCRuntime: machines to check it on
DeviceBuffers     who owns which memory of the device
DeviceProofs        theorems about these two                (TLAPS)
HostArrays        who owns which array of the host;  MCHostArrays: symmetry
HostArraysProofs    theorems about it                       (TLAPS)
KernelCache       clBLAS: cache of kernels, calls that use it
ScratchImages     clBLAS: images that steps borrow          (actions)
BlasCalls           both, composed by whole calls;  MCBlasCalls: instance
BlasProofs          theorems about these three              (TLAPS)
ProblemDivision   clBLAS: one problem, several queues
SolutionSeq         steps, events and kernels after it;  MCSolutionSeq: calls
SolutionProofs      theorems about these two                (TLAPS)
```

**Numbers.** All kernels only add. `FormalSums` keeps a number as the count of
each term (an entry's product, an element of a vector, "what was there before")
in it, so that a term lost, added twice or left over shows for every value it
might have. Rounding is out of scope, as are overflow and the difference between
`int`, `float` and `double` kernels, which are the same text.

**Atomicity.** A warp's instruction is one step, since its lanes are in
lock-step. An update `y[r] += v` of global memory is a read step and a write
step: no kernel uses an atomic. Within a group the reductions take a step per
warp and line, and a barrier is a joint step of all warps. In the second COO
kernel, whose every line ends in a barrier, a line is one step of the whole
group, except for the updates of y.

**CooFlat** follows `MatrixCOO<scalar,GPU>::multiply`. `NumUnits`, `NumWarps`,
`NumIters`, `IntervalSize`, `Tail`, `ActiveWarps` are the variables of that
name. The kernel has a block size of its own, so `KernelWarps` and `HostWarps`
are two constants and `Launched` is the set of warp numbers the kernel computes
for the warps the host starts. Actions: `ZeroOut` (host), `Leave`, `Start`,
`CarryIn`, `FlushRead`, `FlushWrite`, `Scan`, `EndsRead`, `EndsWrite`, `CarryOut`
(flat kernel, per warp), `GroupLoad`, `GroupScan`, `GroupRead`, `GroupAdd`,
`GroupNext`, `GroupDone` (reduce_update), `Serial` (the tail). A slot of
`temp_rows`/`temp_vals` that nobody has written, and local memory at the start
of the second kernel, hold any value. If two lanes wrote one element the model
would keep either value.

**HybMultiply** extends CooFlat: `EllItem`, one step per work-item, writes rows
of y; then every step of CooFlat after `ZeroOut` is taken over unchanged, as
`MatrixHYB<scalar,GPU>::multiply` repeats the launches of the COO class. It does
not clear y. The rest of the matrix may have any number of entries in any rows: the
width of the ELL part is the mean length of a row in a new object only, since
`clear` leaves `max_row` as it was, and a HYB matrix of the host goes to the device
with the split it has (`matrixhyb_gpu.cpp:24`).

**CsrSpMV** has `ScalarRow` for the scalar kernel and `BeginRow`, `Fold`,
`EndRow`, `Leave` for the vector kernel, per warp. Local memory starts with junk,
as does y.

**VectorReduce** has one shape for eight functions: what a work-item adds for an
index differs, nothing else does. `form` is the overload: "host" reads the
partial sums back and adds them up, "mem" enqueues a non-blocking zero of the
result and a second kernel. `queue` is the in-order command queue. The zero is read
from the stack of the call: a write that ran after the return would write junk. For
a vector of no more than a block the host starts fewer work-items than the kernels
count on (`Threads`), and a slot beyond the local memory it asked for holds junk
(`Slot`).

**Formats** has an object of each format; a call is a step, as the code is
sequential. `FreshOffsets` and `FreshCounts` are what `new int[]` may return and
`Reused` what `max_row` of the HYB object may be left at by an earlier use
(`clear` does not reset it). Values are the positions of the file, so that each
can be told from the others. An entry written outside its array ends in status
"overflow", a failed assertion in "aborted". Reading the offsets of a CSR matrix
that do not add up is not followed further.

**SpMM** follows `main` and `coo_spmm_helper` in the order of their calls. The
helper is only called with `begin_segment` 0; the slicing branch computes where
the first slice would end (`calculate_end_row` answers 1 whatever it is given)
and multiplies nothing, and so does the model. `Primitives` gives each function
of `utils/` by what it computes, including its ends: the sort leaves out the
last element.

**Runtime** has one step per call that can fail. Getting no context, queue,
program or kernel is a choice at each of them. Using -1 as an index, after a
search that finds nothing, ends in "outside". A second session may follow a
shutdown, as the test classes do (`initTestCase`, `cleanupTestCase`).

**DeviceBuffers** has objects of each class and a device with room for
`MaxBuffers` buffers. A field of an object (`row`, `val`, `data` ...) holds a
handle or NULL; `size` is the length that the members of the object imply for
it; `mem` is the length of each buffer. An action is a whole member function, as
the host is sequential: `ConstructDefault`, `Construct` (from the host's class,
from arrays, with a size, by copy), `Clear`, `Load` (clear, then allocate),
`LoadHyb` (allocate only), `MultiplyCOO` (for its two temporaries), `Assign`
(`operator=` between different sizes; between equal sizes only contents
change), `LoadVector`, `Destroy`. Every allocation may fail, is logged, and the
call goes on with NULL. A buffer that is released may be handed out at once:
`Lowest` gives the lowest free handles, so that they are. A CSR or HYB object
made from a matrix without entries has members that nobody has set (`unset`):
any use of it may end the program (`Crash`). The operators of vectors construct,
assign and destroy; functions that release their temporaries before they return
change nothing. The matrix classes have no copy constructors of their own, and
no code copies a matrix of the device.

**HostArrays** does the same for the classes of the host, whose rules differ from
those of the device and from each other. The arrays of a matrix are made,
replaced and deleted together and are as long as its `nnz` implies, so one array
stands for them (`row_offset`, which has `nrow + 1` elements, is never the one
that is too short: only vectors and COO matrices are resized or loaded in
place). `ptr` and `size` are an object's members, `mem` is the heap; `new` returns
any free address, also one that was just deleted. An action is a whole member
function: constructors (`ConstructDefault`, `Construct`, `Copy`), `Assign`, `Resize`,
`LoadVector`, `Clear`, `Load`, `GetData`, `ResizeCOO`, `Destroy`. Undefined behaviour
ends a run: "outside" when a copy reads or writes past an array (`Renew`,
`LoadVector`), "crashed" when a pointer that no constructor has set is deleted.
Calls that fail an assertion end the program and are left out, as is a `new` that
throws. A default-constructed ELL matrix does not set its nnz, but its pointers
are NULL, which delete accepts: it is `unset` with any size and no array, its
destructor and `clear` delete nothing, and `get_data` of a CSR matrix from it makes
arrays of whatever size that is and fills none of them (`max_row` is 0). Vectors that are lent a
piece of another array by `set_pointerData` give it back in the same function and
are not objects of this model; neither are the copies of matrices that the
compiler would make, which share their arrays.

**KernelCache** has a step for each section that the code runs with the mutex of
the cache held, and for what a thread does alone in between: `Find` (the key and
`findKernel`), `Make` (`makeKernel` or `loadKernel`, then `getKernel`), `Add`
(`addKernelToCache` up to the unlock), `PutRemoved`, `Destroy`, `FreeStep`. A
program stands for everything a kernel is made for but its context. Handles of
contexts are used again as soon as a context has no reference; addresses of
kernels as soon as they are freed. `removed` is the thread's `truncList`, and
also holds the reference of a refused kernel that `makeSolutionSeq` puts. A
thread that has kernels to put or to destroy does it before anything else, as
the code does.

**BlasCalls** puts `ScratchImages` in front of and behind it: `findBestPattern`
borrows images one by one, gives back what it got if one is missing and tries
again with `maxImages` one less, and `freeSolutionStep` puts kernels, then
images. `selectPattern` chooses the same pattern in every attempt, so that the
images needed are drawn once per call. The application adds and removes images
at any time. A call has one step in this module; the sequence of steps is in
SolutionSeq.

**ProblemDivision** has one action per queue for each of the three divisions.
`cus` holds the compute units in sums from the right, so that shares need no
recursion. Sizes are integers: the code's `size_t` never passes below zero
there, which the proof shows. The square root of the triangle is replaced by
the inequality it solves; rounding in `double` is left out. `rectDivision` sorts
nothing (its inner loop reads the step of the outer one), and neither does the
model.

**SolutionSeq** continues with the decomposition (`DecomposeTRXM`,
`DecomposeSYRK`, `DecomposeSYR2K`, or `KeepStep`, which the choice of the
implementation, the type or a failed `calloc` may always bring about), the
enqueueing and the queues. Numbers are those modulo a prime: all matrices have
fixed elements, and `promised` is what one step on the whole problem computes. A sum
of products is a recursive function over its terms (`Total`), and so is the solution of
a line (`Solution`), so that they can be proved about.
TRSM divides, so a prime is needed; that two different sums are equal by chance
is possible and makes a property weaker, never wrong. Transposition and order of
storage only change how `A` is read and where `uplo` points to (`TriangleA`);
lda, offsets and vectors' increments are left out. Queues of which the device
cannot be asked are skipped by the code and not modelled. TRMM and TRSM use one
queue (`TRXM_MULTIPLE_QUEUES` is not defined), SYRK, SYR2K, GEMM and GEMV
several. A queue in order runs its steps in order, another as soon as the events
they wait for are complete. Enqueueing may fail at any step, also at one without
elements.

**One text, several copies.** The kernels for `float` and `double` differ in the
names of types only, and sum, dot and the norms in what is added. `map` in
`PROJECT.json` gives each definition one of the copies it stands for.

## Runs

| run | question | size |
|---|---|---|
| `coo_blocks` | CooFlat: types, races, carries, refinement of SpMV with its termination | 5 chunks of 2 lanes over 4 groups of one warp, 3 rows, all 78 row patterns |
| `coo_shipped` | *violated*: does the flat kernel handle all but the tail with the block sizes shipped? | two groups, kernel block twice the host's |
| `hyb_all` | HybMultiply: product, lanes | 2 warps of 4 lanes, 13 entries in the rest, 3 rows, every pattern |
| `reduce_grid` | VectorReduce: local races, for which lengths the result is right, no deadlock | 2 groups of 4 warps of 2, blocks of 8; 1, 8, 9 and 33 elements |
| `csr_fold` | CsrSpMV: clean folding, refinement of SpMV with its termination | 2 warps of 4 lanes, 3 rows, 5 entries |
| `formats_chains` | Formats: round trips, agreement of products | files of up to 4 entries in 3 x 3 |
| `spmm_all` | SpMM: workspace, result | all pairs 2 x 3, 3 x 2 |
| `runtime_sessions` | Runtime: choice of the device, handles over three sessions | 6 machines, numbers -1..5 |
| `device_buffers` | DeviceBuffers: owners, lengths, losses | a COO, a CSR, a HYB object and a vector; 3 buffers |
| `host_arrays` | HostArrays: owners, lengths, losses | a COO, a CSR, an ELL, a HYB object and two vectors; 3 addresses, lengths 0 to 2 |
| `blas_calls` | BlasCalls: kernels, contexts and images of concurrent calls, teardown | 2 threads, 3 kernels, 2 contexts, 2 programs, limits 1 and 2, 2 images |
| `blas_sequence` | SolutionSeq: parts, order, events, results, every kernel ends | 6 functions, 1 to 3 queues, sizes around the thresholds |

The type invariant of CooFlat is checked (`coo_blocks`) and proved, and so are, as
parts of inductive invariants, those of CsrSpMV, DeviceBuffers, HostArrays and clBLAS
(`KTypeOK`, `BTypeOK`). Type invariants are left out of the other runs, which would report an ill-typed state by an error of TLC or by the
invariants that use it.

**Why these bounds.** In CooFlat the cases are: a row that ends in a chunk,
between chunks of a warp, at the end of an interval, and one that spans warps;
a warp without work; carries in more than one block of the second kernel; a
tail. `coo_blocks` has all of them with every pattern of 3 rows, and `hyb_all`
adds scans of two steps and several ends in one chunk (4 lanes). In VectorReduce
the tree has one step with and two without a barrier, as many lanes in lock-step
as the barrier-free part assumes, a warp that takes no part in it, and a second
round of the grid for some groups only; the lengths are one element, exactly a
block (both launched with fewer work-items than the kernels count on), one more than
a block and one more than a round. In CsrSpMV the first warp reads slots of
the second and the second the padding, and one of them takes a second row. In
Formats 4 entries in 3 rows give empty rows, rows longer and shorter than the
width of the ELL part, and width 1 and 2; `Reused` gives widths that other
matrices left. In SpMM three entries in a row of A meet empty rows of B in every
order, and `Capacity` 8 makes both branches of `main` happen (the code has 102).
In Runtime the machines have platforms without devices at each place, ties for
the best device, and more platforms than one subtraction passes. In
DeviceBuffers three buffers are fewer than two matrices need, so that
allocations fail half-way, one object takes what another has just released, and
lost buffers fill the device; a vector has two lengths besides zero, as a wrong
length must differ from the right one. ELL is left out of the run: it is as COO
with two arrays instead of three. In `host_arrays` three addresses are fewer than
the six objects ask for, so that what one deletes another gets at once, and what is
lost is missed; two lengths besides zero make a wrong one differ from the right one.
Addresses are alike, and so are the two vectors (`Alike`).

In `blas_calls` three kernels are enough for two threads to make the same one
while a third is evicted; limit 1 refuses the large program and limit 2 makes one
kernel push out two. Two contexts let a handle come back. Calls have up to two
kernels (the code: three, of which the two for images are made in no pattern
that is enabled). Images and the cache have no influence on each other, so steps
need images only in behaviours without a cache (`Demand`), where threads with
queues of one device contend for two. In `blas_sequence` the alignment is 3
instead of 128 (not a power of two, which `Align` does not need), the tile 3
instead of 8, the threshold 4. Sizes 4 and 5 give halves that are rounded up and
down, and 5 leaves a rest; 1, 2 and 7 give parts of size zero, parts that are
too large, and dropped queues. The array of events begins empty or nearly full.
The run does not check for deadlock, as a call that has ended takes no step;
`KernelsEnd` says that everything that was enqueued has ended by then.

The proofs have none of these bounds. WarpSize 32,
8 and 4 warps per block, 256 threads and 64 blocks are replaced by small numbers
that keep their order and divisibility.

`formats_chains` and the theorems about Formats assume zeroed fresh memory, which
C++ does not promise: they say that the conversions are right if the heap is. With `FreshOffsets = {0, 1}` the offsets do not add up,
and with `FreshCounts = {0, 1}` the same model copies values of other rows into
an empty row of the COO part (`matrixhyb_cpu.cpp:202`).

Deadlock is checked in every run but `blas_sequence`; the only states without a further step are
"returned", "done" and the like, which have a stuttering step.

**Fairness.** That `multiply` returns is part of `SpMV!Spec`, and so of
`ImplementsSpMV`. It assumes weak fairness of the host,
of the second kernel's group and of each warp (and each work-item of the scalar
and the ELL kernel): the device runs every warp of a launch it has accepted, and
the host thread does nothing but wait for it. No kernel waits for another warp
except at barriers, and no strong fairness is needed. `SSpec` of SolutionSeq
assumes weak fairness of the calling thread, of the device (some kernel that may
run does) and of the event the caller made the call wait for, which is the
caller's to complete. HybMultiply, VectorReduce, Formats, SpMM, Runtime,
DeviceBuffers, HostArrays and BlasCalls have no liveness property: the first two are covered
by the check for deadlock, since no loop of them can repeat a state; a call of
clBLAS only waits for mutexes, whose sections are short; the others are
straight-line code.

## Findings

`coo_matrix_krenels.cl:106` numbers warps by the kernel's block size of 256,
the host launches blocks of 128. From 5 * 32 entries on, entries are lost
and carries are read unwritten (`coo_shipped`).

The models also show, without a violated run of their own: "size < 256 is not
supported", the reductions say (`ocl_vector.cpp:1158`), log it and go on; but 256 is
not either. Up to there `threads` is half the block or less, while the kernels step by
a block of 256: what follows the first `threads` elements of a block is not added, and
the first step of the tree adds what lies beyond the local memory that was asked for.
`SumOnReturn`, which `reduce_grid` checks on both sides of the boundary, says that the
result is the sum exactly if the vector is longer than a block. Row offsets are counted up in memory that nobody has cleared
(`matrixcsr_cpu.cpp:176`); the sort of the products is
given the address of the last one as its end and leaves it where it is
(`matrix_utils.cpp:101`); a symmetric file is expanded, sorted and cut off again after
as many entries as the file has (`matrixcoo_cpu.cpp:383`; `Expanded` of Formats says
that it is not, and fails on a 2 x 2 file); `Vector::load` changes the size and keeps the buffer, and
`MatrixHYB::load` and `MatrixCOO::multiply` leak (`OnlyLoadDisagrees` and
`OnlyTwoLose` of `device_buffers` say that nothing else does); on the host, a resize
to more copies past the end of the old array (`cpu_vector.cpp:314`,
`matrixcoo_cpu.cpp:249`), a load of a vector writes past the end of one that is too
short (`cpu_vector.cpp:449`), and a load over a matrix, a resize from or to nothing
and matrices without entries lose arrays (`InBounds` and `OnlyTheseLose` of
`host_arrays` say that nothing else does), as does `get_data` from an ELL matrix
whose constructor set no nnz (`matrixell_cpu.cpp:4`). And as ends of
behaviours: the
number of a device that does not exist, or a machine without GPUs, is used as
index -1 (`ocl.cpp:125`; "Device out of range" at line 106 cannot be reached);
`device_initialized` is never set, so `get_device` never answers; a product of
fewer than five terms ends in the assertion of `operator[]`
(`matrix_utils.cpp:87`); a CSR matrix without long rows cannot be converted to
HYB (`matrixhyb_cpu.cpp:152-154`).

In clBLAS, met while modelling and kept in the models as they are:

* `decomposeEventsAlloc` grows its array by `realloc` while steps hold pointers
  into it, and nothing ever lowers `numDecomposeEvents` or releases an event.
  If the array moves, wait lists are read from freed memory. The properties of
  SolutionSeq are stated for calls during which it did not (`lost = {}`).
* Scratch images are put back when a call returns, before its kernels have run;
  `LentOncePerDevice` is about the call, not about the kernels.
* `getSCImage` is given a context and looks at devices only.
* The loop of `rectDivision` that is to sort the steps by compute units reads the
  step of the outer loop (line 898), so the queues keep the caller's order.
* A queue that gets no part has its event never written.
* `triMatrixStripeDivision` gives the whole rest to a queue whose share rounds to
  zero; its branch for a part of zero rows (line 1032) cannot be reached.

## Proofs

`CooFlatProofs` proves for every warp size, both block sizes, any number of
entries and rows, and every row-ordered matrix:

* `TypeCorrect`: `TypeOK`. No warp reads past the matrix, the scans never read a
  slot of another warp, and the second kernel's indices are in range.
* `WriteRaceFreedom`: `NoWriteRace`. Two warps never hold a read-modify-write of
  the same element of y - also when kernel and host disagree about the size of
  a block, so the finding above is not a race.
* `LaneRaceFreedom`: `NoLaneRace`.
* `CarrySlots`: `CarryFits`. A warp that has work has a slot in the buffers
  that were allocated for `active_warps`.

None of these is inductive. `IInv` adds, per warp: between the start and the end
of its loop, `n` is a multiple of the warp size and a whole chunk of the
interval lies ahead (`InInterval`); the padding holds the sentinel, so that a
scan stops there (`PaddingHolds`); the carry is a row of the interval, not
before its first and not beyond the current one (`CarryBehind`), different from
the current one when it is flushed (`CarryEnded`); and the local rows are those
of the chunk (`ChunkLoaded`). `InitInv` and `StepInv` are the induction, with a
lemma per action. Race freedom follows from disjoint intervals
(`IntervalsDisjoint`) and the order of rows: whatever a warp has read of y is a
row strictly before the last row of its chunk, which is no later than the first
row of any later interval, and that is where the later warp's rows begin. The
proofs use one assumption, `SizeAssumption`: positive sizes, an even warp size,
at most as many warps in the host's blocks as in the kernel's, and more entries
than a warp has lanes, which `multiply` asserts.

The rest is proved for every matrix and all sizes under `SameBlocks`: equal block
sizes of host and kernel, or one group, which numbers its warps alike for both.
The code ships unequal sizes, so for it what follows holds of the matrices that fit
into one group of four warps, fewer than 160 entries, and a run above shows that
it is false for larger ones:

* `CarriesAllWritten`: `CarriesWritten`, and `CarryRaceFreedom`: `NoCarryRace`.
* `FlatHandles`: `FlatHandlesAllButTail`, and `CooIsTheProduct`: every step of the
  three kernels is a step of `SpMV` or none (these two for warp sizes that are a
  power of two). With `<>returned`, which stays with TLC, the latter is
  `ImplementsSpMV`.

`CarryInv` says that a warp leaves through its slot if it had work, that the slot
holds the row of the last entry of the interval, and that the block the second
kernel works on holds these rows in their order; the launch arithmetic
(`ActiveLaunched`) says that under `SameBlocks` the warps launched include all
that own a slot. `SumInv` then names, for every register, carry and element of y,
the set of entries it is the sum of: what a warp has closed (`Closed`), what a lane
has reached back over at the present distance of the scan (`Near`, and `Gathered`
for the second kernel), what a warp carries out (`CarryOf`), and what has been
counted in y (`Counted`, `OutputHolds`). Each action adds one set to another, and
is right because the two are disjoint: a warp's own by the order of the rows, two
warps' by their intervals, two items' by `AddersApart`. That an element of y which
has been read is still what it was when it is written (`FreshReads`) is where race
freedom enters. At the barrier no carry of the block is left over
(`BlockDelivered`: the last item of a run of equal rows is an adder, as a full
block ends at the sentinel and any other has padding, `BlockFits`), and the
intervals of the active warps cover what lies below the tail (`IntervalsCover`).

The hybrid product is proved in the same module. `SumInv(B)` has what y held before
the kernels as its parameter, nothing after `ZeroOut` and one term after the ELL
kernel, so that the lemmas of the COO product are those of the hybrid one:

* `HybIsTheProduct`: `HybProduct`, under `SameBlocks` and for warp sizes that are a
  power of two, whatever the ELL part left over. `EllInv` adds that the rows not yet overwritten are those whose
  work-item runs, and that none runs when a COO kernel does; every row has a
  work-item (`RowsHaveItems`, the rounding up of the global size).
* `HybLaneRaceFreedom`: `NoLaneRace` and `NoWriteRace`, and `HybTypeCorrect`:
  `HybTypeOK`, without these conditions.

`CsrSpMVProofs` proves for every warp size that is a power of two, and any numbers
of warps, groups, rows and entries,

* `FoldsAreClean`: `FoldIsClean`, and `CsrTypes`: `TypeOK`, so that the half warp of
  padding is enough.
* `CsrIsTheProduct`: every step of either kernel is a step of `SpMV` or none.
  With `<>returned`, which stays with TLC, this is `ImplementsSpMV`.

`FoldIsClean` is inductive only with three facts: distances come from halving the
warp size and so are never odd before they are 1 (`Distances`); a warp's own slots
hold what its lanes hold, since no other warp writes them (`Published`, by
`SlotsApart`); and a warp's row leaves its number as the remainder (`Turns`). The
step of the fold is `ModFolds`: what leaves `l` or `l + s` over from a division by
`2 * s` leaves `l` over from one by `s`. For the refinement, rows that have been
passed or whose work-item ended are done (`RowsDone`), an entry is in exactly one
row because offsets never decrease (`OneRow`), and the launch of the scalar kernel
has a work-item for every row (`EnoughItems`). `CsrAssumption` says that the sizes
are positive and the warp size is a power of two.

`VectorReduceProofs` proves for any block size and part without barriers that are
powers of two, any number of groups, vectors of every length, and both overloads,

* `NoRace`: `NoLocalRace`, `TypeCorrect`: `TypeOK`, and `SumReturned`: `SumOnReturn`,
  that the result is the sum if the vector is longer than a block, and never if it
  is not

under `Wide`: a warp is as wide as the part without barriers (32 on NVIDIA, 64 on
AMD). On a narrower one the kernels are not meant to run.
The invariant says of every group that it is in one of three phases. It loads: a
work-item has added its elements before the current round (`LoadingIn`; that the
rounds of the groups tile the vector is `RoundOf`). It folds 2S slots to S, where
each warp has yet to do its part or waits with it done (`FoldingIn`). Or its first
warp goes on alone (`Synced`). Slot t, when S slots are left, is the sum of what the
group reads and leaves t over from a division by S (`Fold`), so that a step is
`ModFolds` again. Halving reaches the part without barriers exactly, and never jumps
over it, because there is one power of two from a number up to its double
(`OnePower`, by the least counterexample); the same lemma shows that the host starts
as many work-items as the kernels count on if the vector is longer than a block
(`ThreadsAre`), and at most half of them if it is not (`FewThreads`). Of such a
vector the invariant keeps the phases (`InStep`) and one fact only: the first step
of the tree adds to the first slot what lies beyond local memory, and no later step
can take it out (`Marred`). Of the host the invariant
says what may be in the queue when (`Commands`), and that the result is the sum of
the groups added so far, once it has been zeroed (`Results`).

`DeviceProofs` proves of `Runtime`, for any machines, kernels, arguments and any number of
sessions: `NoStaleHandle` (`HandlesAlive`), `NoSecondRelease` (`ReleasedOnce`) and
`ShutdownLeavesNothing` (`NothingLeft`). `shutdown` resets neither the handles nor
the map, and only the constructor clears the flags, so that between sessions they
all hold what is gone. The invariant therefore says how far the constructor has
come (`Phases`): a flag that is set belongs to a handle of this session
(`FlagsMean`), what is alive is exactly what was opened (`Opened`) and, once the
map is filled, its kernels. These three use no assumption.

`DeviceOfNumber` (`RequestedDevice`) is about the search for the device of a
number, on a machine with any platforms. The invariant (`Searched`) is that the
number asked for is what is left of it plus the devices of the platforms passed
(`UpTo`): a platform more adds as many as it has (`OneMorePlatform`), so that the
device found has as many before it as was asked (`CountBefore`), and a search that
passes all platforms was for a number no device has. The list of platforms is a
recursive function; that it exists and is a list follows from the least number
where it would not (`Recursion`, `PlatformsAreLists`). `RuntimeAssumption` gives
the type of the machines.

Of `DeviceBuffers` it proves all properties, for any objects
of the five classes, any size of the device and any lengths:

* `BuffersTypeCorrect`: `DTypeOK`.
* `Ownership`: `OwnedOnce`. A handle in an object is one of a buffer in use and
  in no other field of any object. The invariant `DInv` adds that an object that
  does not exist holds nothing (`GoneHoldNothing`): a constructor that sets
  nothing would otherwise bring old handles back. Two lemmas carry the proof:
  allocating over memory that still has what others hold, and releasing one
  object, keep the owners (`AllocateKeepsOwners`, `ReleaseKeepsOwners`); every
  member function is one of the two, or the first after the second.
* `LoadAloneDisagrees`: `OnlyLoadDisagrees`, and `LossesAccounted`:
  `OnlyTwoLose`, from the same invariant, since a step that disturbed the
  lengths of another object, or left behind what it held, would have to touch a
  buffer that has two owners.

The only assumption is `BuffersAssumption`: the bounds are natural numbers, a
matrix has a row, and no object is of two classes that differ in their members
or their rules.

`HostArraysProofs` proves, for any objects of each class, addresses and lengths,

* `NothingDeletedTwice`: `DeletedOnce`. HYB's `clear` keeps pointers to arrays that
  are gone; they do no harm because every class asks nnz before it deletes.
* `ClaimsHold`: `InBounds`, of every object whose nnz or size has been set (of a
  default ELL matrix nothing has), and `LossesOfTheHost`: `OnlyTheseLose`.

Neither of the first two is inductive. `MatrixCOO::resize` deletes an array that no
destructor would, one of a matrix without entries: it must be the matrix's own
(`OwnedOnce`, about `Owns`, which counts these arrays too) and of exactly the length
it claims (`ExactCOO`, without which the copy could leave the array unnoticed). A
constructor that sets nothing must not bring an old pointer back
(`BlankHoldNothing`). Again two lemmas carry the proof: a new array on a heap that
still has what others own (`AcquireKeeps`), and an object that lets go
(`ReleaseKeeps`); a resize is a new array on a heap without the old one
(`RenewIsAcquire`). `ArraysAssumption` says that no object is of two classes.

`SolutionProofs` proves of ProblemDivision `PartsAlwaysTile`: `PartsTile`, for every size, every
alignment, every kind of division, and any number of queues with any compute
units. `PartsTile` speaks of the end only. The invariant `DivInv` adds that at
every step each element is in the rest and in no part, or in exactly one part,
which is live (`Accounted`); that `totalCUs` is the sum over the queues still to
serve, or zero when the rest is empty (`CUsLeft`); and that a triangle cut from
the top is cut at multiples of the alignment (`FromTopAligned`). Each action
cuts a piece off the rest; what its length is does not matter, only that it lies
between zero and what is left (`ChunkWithin`, `TriangleChunkWithin`). The rounded
share may well be outside, and the guards that catch it are exactly what the
proof needs.

It goes on to the calls of SolutionSeq, for every function, any sizes, thresholds,
alignments, queues in order or not, decompositions, and failures at any step:

* `NoKernelIsEarly`: `NothingEarly`. Only the first step of a queue has the
  caller's wait list.
* `NoKernelsConflict`: `NoConflict`.
* `CallTiles`: `PartsTile`, of the division as the first phase of a call.
* `OutputMeansQueueDone`: the event that the caller gets for a queue is that of the
  last step of the queue, and when it is complete all kernels of the queue have run,
  even if a step of another queue failed to be enqueued.
* `EveryResultIsRight`: `ResultRight`, and `EventsMeanDone`: `EventMeansDone`, about
  the numbers in the matrix.
* `HalvesAfter`: the three steps that TRMM or TRSM is decomposed into compute what
  the whole step computes. This is the arithmetic that the first of these rests on.

`CallInv`, which holds at every step, says of the sequence that each step but the first of
its queue waits for the event of the step before it and for nothing else, and
that no two steps have one event, save `NULL` when there was no memory, and that the
caller's event is that of the last step of its queue and of no other (`Chained`); a step that waits for `NULL` is never queued. From this it follows
that a kernel that runs is behind all earlier ones of its queue, which are done,
also on a queue that executes out of order (`InTurn`). Each decomposition is
shown to give such a chain (`Tidy`, `TwoTidy`, `FourTidy`, `TiedTidy`), with
events that `decomposeEventsAlloc` gave to no one else (`EventsAllocated`), and a chain
put behind those of the other queues keeps all of it (`StepsAppended`). Kernels
of different queues exist only where there is more than one queue; there a step
writes in the part of its queue (`InItsPart`), whose rows or columns end before
those of every later one begin (`PartsInOrder`), and reads no more of the result
than it writes. The three parts about the sequence are stated for `lost = {}`: when `realloc` moved the
array, waits and events mean nothing any more. `CallAssumption` says how a function is
divided, that TRMM and TRSM have one queue, and that one growth of the array is
enough for one step (`ALLOCATION_STEP` is 100, and three events are the most).
For the numbers it also says that `Prime` is a prime, that a problem has rows and columns
(`checkMatrixSizes` refuses others), and that the threshold of decomposition, at
least 640, is not below the alignment, 128: of fewer rows than the alignment the first half could
be larger than the whole.

What the kernels compute is proved in three layers.

1. Sums of products modulo a prime. A sum is split, reordered and multiplied term by
   term (`Total`); as `f[n - 1]` is what the recursion adds last, that two sums are
   equal is shown by the least place where they are not, as elsewhere.
2. A line of TRMM or TRSM, a column of the result or a row on the right side. To
   multiply it by a triangle (`Multiplied`) is to multiply the half that is needed unchanged last,
   and the other one before, with the block's product added between them (`TrmmLine`).
   To solve it (`Solves`) is to have numbers that satisfy the equations one place after
   the other; they determine each other (`SolutionUnique`), and the numbers of the
   two halves, the second one of them from what the block leaves, satisfy
   them (`TrsmLine`). The block is multiplied by `-1 / alpha` and the second half by `alpha`,
   which cancel; a zero alpha has no reciprocal and stays zero, and then the block adds
   nothing and both halves are zero (`Undoing`). `TrxmHalves` shows that
   `TrxmSequence` makes these steps, with these offsets, in this order.
3. For the other functions every element is computed by itself. What decomposition makes of a
   step is `Packed`: two steps of a queue write one element only as the first and the
   second product of SYR2K, in this order, and every element of the part is written
   by a final one, of the tiles off or on the diagonal.

`DataInv` carries these through the run of the kernels (`OtherOut`, `TrxmOut`): an element is as it was
until a kernel that covers it is done; it is final when a final one is done; between the
products of SYR2K it is what the first one computes. Of TRMM and TRSM, whose kernels
read what others write, the matrix is what the first kernels of the sequence make
of it, so many as are done. It needs `CallInv`, because the order of the
kernels is that of the sequence only through the chain of events, the division
(`DivInvTiles`: no element is left out, `PartsInOrder`: none is in two parts), and
that a part keeps all columns of GEMV, is the whole for TRMM and TRSM, and does not leave
the problem (`PartsAsMade`).

`BlasProofs` proves of KernelCache, for any finite sets of threads and kernels, and any
contexts, programs, sizes, limits and number of kernels in a step:

* `CountsAreExact`: `CountsExact`. The references of a node are the places that
  refer to it: the LRU list, a thread that is adding it, steps, lists of removed
  kernels. So no kernel is freed while a step uses it, and none leaks.
* `KernelsAlwaysFit`: `KernelsFit`. The lookup and the use of a kernel are two
  sections of the mutex, and anything may happen in between.
* `ContextsStayHeld`: `ContextsHeld`, which is why a context's handle is not used
  again while a key has it.
* `CacheWithinLimit`: `SizeWithinLimit`, and `TeardownLeavesNothing`:
  `NothingCached`.

`IInv` is the conjunction of these with what they need: a kernel is in the LRU
list once (`LruDistinct`); what a thread has in its hands depends on where it is
in its call (`Phases`); a kernel on its way into the cache is known to its thread
only and has no key yet, without which two threads could add one node
(`AddingFresh`); the context of a key is the one the kernel was built for, and
free nodes have no key (`CachedKeys`); setup and teardown are alone (`Sessions`).
A count is the cardinality of a set of places (`Places`, `Refers`), and every
section removes a place, adds one or moves one, so that three lemmas
(`HolderGone`, `HolderNew`, `HolderMoved`) serve all of them. The size of a set
of kernels is the cardinality of a set of units, which makes sums additive
without recursion; `RoomMade` says that `removeKernels` stops only when there is
room or nothing left. Teardown removes everything because sizes are positive.

Of BlasCalls it proves `CallsUseTheCache`: `BSpec => Spec`, every step of a call
with images is a step of KernelCache or none, so that the five properties above
hold of calls (`CallsAreSafe`). For the images, `BInv` is inductive relative to
`KTypeOK`: a step that still collects images holds fewer than its pattern needs,
and none is held once the call has returned (`Loans`); each device of an image has one
user, and the notes of an image in the list are its users' devices (`LentOf`);
its references are its users' and the list's (`CountedOf`). From it follow
`ImagesAreLentOnce`: `LentOncePerDevice`, and `ImagesAreCounted`: `ImagesCounted`,
for any images, devices and patterns.

Both rest on `CacheAssumption` (finite sets of threads and kernels, positive
sizes, `NULL` in none of the sets) and `CallsAssumption` (which device a thread
uses, which images a pattern may need).

`MatrixProofs` proves of SpMM, for matrices of every size and every pattern of entries,
with empty rows or without,

* `WorkspaceIsExact`: `WorkspaceExact`, and `ResultIsExact`: `ResultExact`.

The scans and `reduce_by_key` compute by recursion over the places of an array. What
a recursion computes is shown by the least place where two arrays that obey it
would differ (`LeastOf`, `SameElements`), so that each primitive has a lemma that
says: an array with this first element and this step is what it returns
(`ExclusiveScanIs`, `InclusiveScanMaxIs`, `InclusiveScanByKeyIs`, `RunOfIs`). The
invariant names what each array is. Offsets are the numbers of entries in the rows
before (`Offsets`), `output_ptr` the numbers of products of the entries before
(`Pointers`), so its last element is the number of all products. A place of the
workspace is in one segment (`OneSegment`), although segments without products begin
where the next one does, and these scatter nothing (`ScatteredByPointers`); the
maximum spreads a segment's number to its places (`Located`), and the scan by key
counts on from the offset of its row of B (`Paired`). So places and products are in a
bijection (`Complete`). The sort, one after the other by column and by row, is a
permutation (`SortPermutationIs`), which keeps it; that it leaves the last product
where it is does not matter to that. Of the runs it is shown that they are numbered
from 0 without a gap up to what `calculate_NNZ` counts, and that equal numbers
mean equal keys even where the keys are not in order (`Runs`), so that no element of
C is left as it was allocated (`Exact`). `SizeAssumption` says that no matrix is
without rows or columns.

Of Formats it proves, for files of every size, every order of the calls and every
width a HYB object may have been left with, on memory that is zero (`ZeroMemory`:
`FreshOffsets` and `FreshCounts` are `{0}`, as in the run; the code does not see to it,
and where the heap is not zero the theorems say nothing),

* `RoundTrips`: `RoundTrip`, and `ProductsOfFile`: `ProductsAgree`;
* `FormatsAgree`: a product, of a symmetric file too, is that of the COO matrix there
  is, so what `load` cuts off of a symmetric file is missing from all formats alike;
* `Within`: no conversion writes outside the arrays it has allocated;
* `FTypes`: `FTypeOK`.

The invariant `FInv` says that the CSR matrix is what `get_data` builds from the COO
matrix, and that the ELL and the HYB matrix are what it builds from the CSR matrix. It is
inductive because each of them determines the CSR matrix: a conversion back never
changes it, and the conversion to COO gives entries in another order that build the
same arrays (`UnpackedIs`). The lemmas say what each conversion computes. The places that
`get_data(COO)` writes to are in a bijection with the entries, and in the row of each
(`Placed`); an index is in one row (`InOneRow`). An ELL part holds the first entries of
every row and then padding (`Part`), so the used slots of a row come first
(`EllRowIs`), which is where the kernel stops (`KernelSlots`). In the conversion to HYB three
running sums are built apart, of the rows, of the ELL entries and of the rests; the
first is the sum of the others (`Splits`), so that `j - nnzell[i]` stays inside and
hits every place of the COO part once (`HybOfIs`). The order of `load` is total also between
entries and mirror images (`ExpansionIs`). The sizes of rows are cardinalities, and
a product counts entries, so both follow from bijections (`SameNumber`, `SameCount`).
`FormatsAssumption` says that no matrix is without rows or columns, and that a
symmetric one is square.

Only model-checked is liveness, which is out of the prover's reach: `KernelsEnd` of
SolutionSeq and the termination half of `ImplementsSpMV`. Every invariant that a run
checks is a theorem.

## Plan

Done: the modules above, in the order CooFlat, VectorReduce, CsrSpMV, Formats,
SpMM, HybMultiply, Runtime, DeviceBuffers, KernelCache, ScratchImages, BlasCalls,
ProblemDivision, SolutionSeq, HostArrays. Next:

1. clBLAS: the cut of a step along an image (`executeImageStep`), with the images
   in SolutionSeq, so that what happens to an image after the call is in reach.
2. `save()` of device matrices, which copies them back, over DeviceBuffers and
   HostArrays together; the views that `coo_spmm_helper` makes with
   `set_pointerData`, as objects.

## Not modelled, and why

Parsing and writing of Matrix Market files (text, third-party); timer, iterator
and headers (no state); elementwise kernels and the arithmetic of host vectors (each
element by itself; which array they go over is in HostArrays); the texture kernels of the CSR class (benchmarks outside of
`multiply`, unreachable from it); tests and benchmarks. Of clBLAS, which is
vendored and used only when `CL_BLAS` is defined, by far most of the text is not
modelled: the two headers declare functions, `blas/gens` prints the text of
kernels piece by piece, and `tools/tune` measures times; none of these keeps a
state that several actors share, and what a generated kernel computes is taken
as the function it is generated for (`map` names the lines of the generators whose
loops the kernels of SolutionSeq stand for). Floating point rounding, and the failure of a launch,
which the code logs and ignores (failing allocations are in DeviceBuffers).
