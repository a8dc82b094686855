# TLA+ verification of TiledArray's core utilities

This directory holds TLA+ models of the parts of TiledArray that are under
`src/`: the bitset, the runtime start-up and shut-down, the tile-operation
dispatch layer, the rank-local LAPACK wrappers, the MPI/CUDA example and,
through the contract its tests check, the Range. It also has TLC configurations that
model-check them on small instances and TLAPS proofs that hold for every
value of the constants. `PROJECT.json` lists the following, in machine-readable form:
- the components;
- the runs, and the mutants that show each property can fail;
- the line map from every definition to the code it translates;
- the findings, the hazards and the theorems.

## 1. Inventory of the system

| Part | Source | State | Operations | Interactions |
|---|---|---|---|---|
| Bitset | `src/TiledArray/bitset.h` | `size_`, `blocks_`, the block array `set_` | constructor, copy constructor, `=`, `\|=`, `&=`, `set`, `operator[]` (read), `get`/`size`/`num_blocks` (read) | used by sparse shapes; `get()`/`num_blocks()` expose the block layout for serialisation |
| Runtime lifecycle | `src/TiledArray/initialize.h` | static flags `initialized_madworld`, `initialized`, `finalized`; the default World; the MADWorld runtime (external) | `initialize` (3 overloads), `finalize`, `cuda_initialize/finalize` | the user may start/stop MADWorld and create Worlds on communicators |
| Add dispatch | `src/TiledArray/tile_interface/add.h` | none of its own; mutates the left operand of AddTo/ScalAddTo | `Add`, `ScalAdd` (with/without permutation), `AddTo`, `ScalAddTo`, each as a direct or cast specialisation | calls the tile type's native `add`/`add_to` and `Cast` |
| Range / Permutation | `Tests/range.cpp` (tests only; the class is not under `src/`) | start, finish, size, weight, volume | construct, resize, default, `^=`, `&`, includes, ordinal, iterate | used by every tile access |
| LAPACK wrappers | `src/TiledArray/math/linalg/rank-local.cpp` | matrices passed by reference | cholesky, trtri, posv, trtrs, heig, sygv, svd, lu_solve, lu_inv | throw on a non-zero LAPACK `info` |
| MPI/CUDA example | `examples/mpi_tests/mpi_cuda_um.cpp` | one buffer per rank | allocate, send (rank 0), receive and verify (rank 1), free | two MPI processes |
| Tensor printing | `src/TiledArray/tensor.h` | none | `operator<<` | stream output |
| initializer_list tests | `tests/initializer_list.cpp` | none | tests of a header that is not under `src/` | none |

The behaviours that make these parts hard to test:
- **Bitset.** Index arithmetic at block boundaries, a block count rounded up, and bits that must stay below `size()`.
- **Lifecycle.** The order of user and TiledArray calls matters. So does a throw in the middle of `initialize`, and so do static flags that survive a failed call.
- **Dispatch.** Which specialisation the `enable_if` conditions select for each combination of types, and the order of accumulating and casting.
- **Range.** Strides that must be recomputed (not relabelled) after a permutation, two coordinate conventions, intersections of touching and disjoint boxes, and several representations of an empty box.
- **LAPACK wrappers.** Leading dimensions and buffer sizes derived from Eigen matrices that LAPACK trusts blindly, and routines that run after a failed one.
- **MPI example.** Two OS processes, a send that may or may not buffer, an assert on a never-assigned variable, and a job torn down by an abort on either rank.

## 2. Modules and how they correspond to the code

### BitsetSpec, Bitset, MC_Bitset, BitsetProofs (bitset.h)

**`BitsetSpec`** is what the class promises. Each object in `Obj` is a flat vector of `size_` Booleans. Its actions are construct, copy, assign, or-assign, and-assign, and set.

**`Bitset`** is the implementation:
- Each block value is the set of its one-bit positions, so `|` is `\cup`, `&` is `\cap`, and `&~mask` is set difference.
- `block_index`, `bit_index` and `mask` are the code's lines 138-140. They divide by `sizeof(block_type)` (`BlockBytes`), not by the bit width.
- `NumBlocks` is line 29.
- Each action is one member function. `Set` models the write `set()` performs with no bounds check.
- `Next` passes only indices below `size()`, the precondition of every caller. Likewise it passes only equal sizes to `=`, `|=` and `&=`, the `TA_ASSERT` precondition.
- `Read` is `operator[]`.

The refinement mapping `bits <- [i |-> Read(o, i)]` shows that `Bitset` implements `BitsetSpec`.

### Lifecycle, MC_Lifecycle, LifecycleProofs (initialize.h)

The variables:
- **MADWorld** (external to this repository) is `mad` (uninit/up/down), `madComm` (the communicator of its default World), `worlds` and `madOwner`.
- **TiledArray's statics** are `imw` (`initialized_madworld`), `initialized`, `finalized` and `defWorld` (the default World).
- **Observation variables** are `lastCall`, which records the result of the last call, and `fault`, which marks undefined behaviour:
  - a null `find_instance` result being dereferenced;
  - a second `madness::initialize`;
  - a fence on a missing World.

Undefined behaviour is a nondeterministic choice over what the build can do. The null `find_instance` dereference either crashes (the `null_world` fault) or binds a null reference as the default World (`defWorld = NoComm`), after which `initialize` goes on through lines 92-97 and reports success. `DefaultWorld` is `get_default_world()` (defined outside `src/`, so it is marked `spec_modelled`): the stored World, or MADWorld's default World when none is stored. `finalize` fences on it at line 119.

A fault stops the system, which is why the Lifecycle runs set `CHECK_DEADLOCK FALSE`.

How the actions map to the code:
- `Initialize(c)` is the whole of `initialize(argc, argv, comm)`. Its overloads differ only in the communicator, so `c` ranges over `Comms`.
  - Each early throw (lines 79-80, 85-86, 101) is a disjunct.
  - `StartUp` is lines 81-98.
  - `SetDefaultWorld` is lines 92-97. `cuda_initialize` may throw there when `HasCuda`.
- `Finalize` is lines 115-126, fence included.
- `UserInitialize`, `UserWorld` and `UserFinalize` model the environment: the user's own MADWorld calls.

### AddDispatch, MC_AddDispatch, AddDispatchProofs (tile_interface/add.h)

Tiles:
- A tile is a record `[type, data]`. `type` is a model value of `TileTypes` and `data` maps `Pos` to integers.
- The constants `NativeAdd`, `NativeAddPerm`, `NativeScalAdd` and `NativeScalAddPerm` give, for each pair of tile types, the type each native `add` overload returns.
- `add_to` returns its left operand, so its result type is the left operand's type.

Selecting the specialisation:
- The `enable_if` conditions are `AddIsDirect`, `ScalAddIsDirect` and `AddToIsDirect`.
- `AddCall` … `ScalAddToCall` are the two specialisations' `operator()` bodies. Each `result_type` is a compile-time fact, kept in the tile's `type` field but checked by no property.
- The direct `ScalAddTo` has no factor parameter (line 324). It is its own action, `DoScalAddToDirect`. A factor can only be passed to the cast form, `DoScalAddTo`, and that form drops it at line 351.
- Each `Do…` action is one call through a public wrapper. It stores the returned tile in `out` and the call, with a snapshot of its operands, in `last`.
- `AddTo` and `ScalAddTo` also overwrite their left operand's slot.

Abstractions:
- `Cast` and the tiles' element arithmetic are not under `src/`. They are modelled from the spec: a cast changes the representation and keeps the elements.


### Range, MC_Range, RangeProofs (Range, CoordinateSystem, Permutation)

The Range class is not under `src/`. What it must do is fixed by the checks of `src/Tests/range.cpp`, and, where the tests are silent, by spec.md §4.1-4.3. Definitions taken from the spec alone are marked `spec_modelled` in the map.

The model:
- A Range value is the tuple `<<start, finish, size, weight, volume>>`. The derived fields are stored, not recomputed on use, so a wrong one stays visible.
- `calc_weight(size)[d]` is the product of the sizes of the dimensions that vary faster than `d`. Under `"increasing"` (the tests' Fortran coordinate system) those are the dimensions below `d`; under `"decreasing"` (C style) the ones above. `calc_volume` is the product of all sizes.
- `order` is the CoordinateSystem's ordering. It is a template parameter, so each behaviour fixes it in its initial state and both orderings are explored.
- The program holds one Range `r`. The actions are:
  - `Construct(s, f)`: the constructor and `resize`, guarded by `finish >= start`. The failing call throws and leaves no object, so it is not a step.
  - `Default`: `r = RangeN()`.
  - `Permute(p)`: `r ^= p`. Position `p[d]` receives dimension `d`'s bounds, and weight and volume are recomputed.
  - `Intersect(b)`: `r = r & b`. The result takes the componentwise max of the starts and min of the finishes, or `Range()` when some finish falls below its start.
- The operand `b` and the permutation `p` range over every Range and every permutation of the instance.
- `Incr` is the iterator's `++`: step the least significant dimension and carry. `Enumerate` is `begin() .. end()`.

spec.md §3 describes a weight as "the product of sizes of all dimensions more significant than d". It also says "the least-significant dimension always has weight 1", and the iteration test enumerates in the other order. The model follows the test and the second sentence.

The tests and spec.md also disagree on empty Ranges, and no run checks this:
- The constructor keeps the bounds it is given even when the volume is 0. The test at lines 64-69 expects `Range(p2, p2)` to keep start `p2`.
- spec.md says every zero-volume Range canonicalises to, and equals, `Range()`.

The model follows the tests. With no Range code under `src/` to decide between the two, this is recorded as a hazard with a note, not as a finding.

### LapackShapes, MC_LapackShapes, LapackShapesProofs (math/linalg/rank-local.cpp)

Each action is one wrapper call on caller matrices whose dimensions come from `Dims`.

What a call records:
- Every buffer the wrapper passes, as `Alloc(name, rows, cols)`, after the `resize` calls the wrapper makes.
- For every LAPACK routine it reaches, the panel that routine touches in each buffer, as `Acc(name, ld, rows, cols)`. The leading dimension is the one the wrapper derives, and rows × cols are what the LAPACK interface documents for the arguments passed.
- `Execute` chooses every outcome of the routines' `info`. Execution stops at the first non-zero one, where `TA_LAPACK` throws. `last` holds the whole call.

The matrix contents and the Fortran-calling path (`TA_LAPACK_FORTRAN`) are not modelled.

### MpiCudaUm, MC_MpiCudaUm, MpiCudaUmProofs (examples/mpi_tests/mpi_cuda_um.cpp)

Each rank `p` is a process with a program counter `pc[p]` that follows `main()`:

```
init -> alloc -> check -> fill -> send -> [waitsend] -> free -> finalize -> done   (rank 0)
                        -> recv -> verify                                          (rank 1)
```

The variables:
- `alloc[p]` is the outcome of `cudaMallocManaged`. Its return value is discarded.
- `buf[p]` is the buffer's content, `"data"` or `"garbage"`.
- `msgs` holds the messages in flight.
- `size` is the job size and `ndebug` says whether the build is NDEBUG.
- `aborted` is set when the job is torn down.

How the code's behaviour is modelled:
- **The uninitialised read.** `cuda_error` is never assigned, so the assert at line 54 is a nondeterministic pass or abort. It is absent under NDEBUG.
- **Failed allocations.** Using the buffer after a failed allocation may crash (`Wild`) or go on silently.
- **MPI_Send.** It may complete eagerly or wait for its match (`waitsend`/`SendDone`).
- **Aborts.** Any abort or throw ends the whole job, as `mpirun` does.
- **Blocking.** `Matched(p)` (no message of `p` left unmatched) unblocks a rendezvous send. `Arrived(p)` (a message `MPI_Recv` accepts is in flight) unblocks a receive. `CanStep(p)` collects the guards of all of `p`'s actions. TLC checked that `CanStep(p) <=> ENABLED Rank(p)` in every reachable state for up to three ranks, so `NeverStuck` is the model's deadlock-freedom stated without `ENABLED`.

## 3. Runs

All runs are listed in `PROJECT.json`. The violation runs each check one documented property that the code breaks; section 5 has what they find.

| Run | Constants | Checks | Result |
|---|---|---|---|
| `bitset_refinement` | 2 bitsets of size 0, 3, 4; 2-byte blocks | `TypeOK`, `NoStrayBits`, `BitsetRefinesSpec` | pass (625 states) |
| `bitset_num_blocks` | same | `NumBlocksAsSpecified` | violation |
| `lifecycle_cuda` | comms `comm_world`, `comm_a`, `comm_b`; `cuda_initialize` may or may not throw | `InitializedFinalizable`, `FinalizeReleasesOwnRuntime` | pass (575 states) |
| `lifecycle_default_comm` | no CUDA | `InitializeRejectsOnlyForeignComm` | violation |
| `lifecycle_cuda_retry` | CUDA | `NoDoubleMadnessInit` | violation |
| `add_dispatch` | types T1, T2; 2-element tiles; factors -1, 2; both permutations of 2 positions; values ≤ 2 | `AddToAccumulates` | pass (22 560 states) |
| `add_dispatch_scal_add_to` | same | `ScalAddToScales` | violation |
| `lapack_shapes` | dimensions 1..3 | `SquareWrappersInBounds` | pass (802 states) |
| `lapack_svd` | same | `SvdInBounds` | violation |
| `mpi_cuda_um` | 1..3 ranks, both builds | `ReceivedWhatWasFilled`, `NeverStuck`, `Termination` | pass (380 states) |
| `mpi_cuda_um_alloc` | same | `ProceedsOnlyWhenAllocated` | violation |
| `range` | 3 dimensions, coordinates 0..2, both orderings | `OrdinalBijective`, `IterationFollowsOrdinal`, `IntersectIsMeet`, `PermuteKeepsElements` | pass (432 states) |

What the new runs show:
- **`lapack_shapes`.** Every routine that cholesky, cholesky_linv, cholesky_solve, cholesky_lsolve, heig, heig_gen, lu_solve and lu_inv call stays inside the buffers the wrapper passes, for every operand shape that meets the wrapper's square precondition. The wrappers do not check that precondition. This holds whichever routine fails, e.g. `lu_inv` never calls `getri` after a failed `getrf`.
- **`mpi_cuda_um`.** Under every job size, build, allocation outcome and send mode, the test ends: every rank returns or the job is torn down. Before that, some rank can always take a step (`NeverStuck`), so no rank stays blocked in `MPI_Send` or `MPI_Recv`. A rank that passed verification with both allocations successful holds what rank 0 wrote, also in an NDEBUG build.
- **`range`.** Under both coordinate orderings, for every Range reachable by constructions, resizes, permutations and intersections:
  - the ordinal is a bijection onto `0 .. volume-1`, with `ordinal(start) = 0` and `ordinal(finish-1) = volume-1`;
  - the iterator visits indices in ordinal order;
  - `r & b` is the set intersection for every operand `b`, and equals `b & r`;
  - `r ^ p` keeps the volume and maps membership through `p` for every permutation.

Why the bounds are enough:
- **Bitset.** With 2-byte blocks, size 3 needs two blocks, the second one partial. Size 4 fills exactly two blocks. Size 0 has none. So the rounding at line 29, the last partial block and the empty bitset all occur, and two objects cover self-assignment and aliasing (`o = p`).
- **Lifecycle.** `HasCuda = TRUE` only adds a throw disjunct, so the CUDA runs also cover every behaviour without CUDA. Three communicators cover these cases:
  - the one MADWorld was started with;
  - one with a World created by the user;
  - one with no World.
- **Dispatch.** `MC_NativeAddPerm` makes permuting two T2 tiles return a T1. `Add<T2,T2,T2>` therefore needs the cast form even though the plain add already returns T2, which is the case the two-conjunct `enable_if` exists for. The factors -1 and 2 tell a scaled result from an unscaled one.
- **LAPACK.** Dimensions 1..3 give square matrices, both kinds of rectangular A for svd (m < n and m > n), and right-hand sides narrower and wider than A.
- **MPI.** Job sizes 1, 2 and 3 cover the rejected sizes on both sides of 2. A third rank would receive from rank 0 but is never sent to.
- **Range.** Three dimensions with coordinates 0..2 give sizes 0, 1 and 2 on every axis. That yields:
  - non-cubic boxes, for which relabelled strides differ from recomputed ones;
  - 3-cycles, the permutations that are not their own inverse;
  - disjoint, touching and nested intersections.

**Mutants.** Every property of a passing run has a mutant in `PROJECT.json`: a plausible code bug that TLC then catches.
- Bitset:
  - `bit_index` dividing by the bit width;
  - `block_index` dividing by the bit width;
  - a copy constructor that keeps the old block count.
- Lifecycle:
  - `finalize` that keeps the `initialized` flag, or that always finalizes MADWorld.
- Dispatch:
  - an `enable_if` that tests only the plain add;
  - an AddTo that casts before it accumulates.
- LAPACK:
  - `TA_LAPACK` with the test inverted;
  - `lu_solve` passing `B.cols()` as `ldb`.
- MPI:
  - a fill loop that writes nothing;
  - a receive on another tag.
- Range:
  - weights that include the dimension's own size;
  - strides relabelled instead of recomputed after `^=`;
  - `&` taking the min of the starts;
  - `^=` applying the inverse permutation.

**Fairness.** Only the MPI model assumes fairness: `WF_vars(Rank(p))` for every rank. Each rank is a separate OS process that the scheduler keeps running, so a rank that can take a step eventually does. There is no fairness between the choices within a step (eager or rendezvous, pass or abort): those are the implementation's. The MPI runs set `CHECK_DEADLOCK FALSE` because the program terminates. The other components promise no progress, and their properties are safety properties.

## 4. What is proved (TLAPS)

**`BitsetProofs`** (assumptions: `Sizes \subseteq Nat`, `BlockBytes \in Nat \ {0}`, i.e. every block width and every set of sizes):
- `TypeCorrect`: `Spec => []TypeOK`.
- `NoStrayBitsHolds`: `Spec => []NoStrayBits`.
- `BitsetImplementsSpec`: `Spec => Abs!Spec`, the refinement.

Why the invariant has to be strengthened:
- The inductive invariant is `IInv == TypeOK /\ BlocksMatchSize /\ NoStrayBits`.
- `BlocksMatchSize` (`blocks_ = NumBlocks(size_)`) is the strengthening. `set` writes block `i \div BlockBytes` and `|=` loops to `blocks_`, and neither stays in range unless the block count matches the size.
- The arithmetic lemmas (`BlockIndexInRange`, `IndexInjective`, `IndexDecomposition`) show these facts:
  - the block/bit decomposition of an index is unique;
  - for `i < size`, the block index is below `NumBlocks(size)`.

The refinement proof, `NextRefines`:
- Each step either maps to the abstract action of the same name or leaves the abstract bits unchanged.
- `Set` changes exactly one abstract bit, by injectivity of the decomposition.
- `|=` and `&=` act bitwise, since `Read` distributes over `\cup` and `\cap`.

**`AddDispatchProofs`** (assumptions: the native result-type tables are total functions into `TileTypes`, and every permutation is a bijection of `Pos`):
- `AddToAccumulatesHolds`: `Spec => []AddToAccumulates`.

Every step rewrites `out` and `last`, so the invariant needs only `TypeOK` as strengthening. The proof splits each action into the direct and the cast case. The lemmas:
- `ScaleByOne`;
- `PermuteById`;
- `PermuteType`, which needs bijectivity, since `CHOOSE` must land in `Pos`;
- `CastTile`.

**`LifecycleProofs`** (assumption `LifecycleAssumption`: `NoComm \notin Comms` and `HasCuda` is Boolean, i.e. every set of communicators):
- `TypeCorrect`.
- `InitializedFinalizableHolds`: `Spec => []InitializedFinalizable`. While `initialized()` is true, MADWorld runs and `DefaultWorld`, the World `finalize` fences on, is alive, also after a null World was bound. The property alone is not inductive: a null World leaves `DefaultWorld = madComm`, so the proof needs `MadWorldLive` (a running MADWorld's own communicator is alive). `FinInv` is the conjunction of the two. Faults and throws change nothing (lemma `FaultKeepsState`). `Initialize` splits into the three `StartUp` branches that set `initialized`. `UserFinalize` and `Finalize` keep the invariant because they take the runtime down only together with clearing `initialized`, or when TiledArray is not initialized.
- `NoDoubleMadnessInitHolds`: `~HasCuda => (Spec => []NoDoubleMadnessInit)`. No passing run checks this invariant. The theorem covers it for every set of communicators, and the run `lifecycle_cuda_retry` shows it fails with CUDA. The run `lifecycle_cuda` explores the behaviours without a CUDA throw too, for the other two Lifecycle properties.

Why `NoDoubleMadnessInitHolds` needs a strengthening, `MadnessInv`:
- A MADWorld that is shut down was shut down either by TiledArray, which then has `finalized` set and refuses to initialize again, or by the user.
- A running MADWorld that TiledArray started implies `initialized`.
- The second conjunct fails exactly when `cuda_initialize` throws between the two statements. That is why the theorem assumes `~HasCuda`, and why the run `lifecycle_cuda_retry` finds the violation with CUDA.

`FinalizeReleasesOwnRuntimeHolds`: `Spec => FinalizeReleasesOwnRuntime`, with or without CUDA. This is the action property that a successful `finalize` shuts MADNESS down exactly when TiledArray started it.
- `finalize` decides by `initialized_mpi_world`, and the property speaks of who really started the runtime (`madOwner`). The proof needs `OwnerInv`, which holds for every set of communicators:
  - `initialized_mpi_world` holds exactly when TiledArray owns the runtime;
  - an owned runtime has been started;
  - a live World implies a running runtime.
- The lemma `OwnerInvStep` shows `OwnerInv` is inductive. The `StartUp` case splits into TiledArray starting MADNESS and finding it already running. A throw or fault changes no MADNESS state.
- The action property then follows from `OwnerInv` in the state before a fault-free `Finalize`.
- TLC checked `OwnerInv` as an invariant on the `lifecycle_cuda` configuration before the proof.

**`MpiCudaUmProofs`** (assumption: `MaxRanks \in Nat \ {0}`, any number of launched processes):
- `MsgInvStep`.
- `ReceivedWhatWasFilledHolds`: `Spec => []ReceivedWhatWasFilled`.

`ReceivedWhatWasFilled` is not inductive: a receiver's buffer depends on what rank 0 put in the message. The strengthening `MsgInv` adds:
- only a job of size 2 gets past the size check;
- a rank has an allocation outcome exactly when it is past `alloc`;
- rank 0's buffer holds data once it has filled a successful allocation;
- every message in flight carries rank 0's buffer as it was when sent;
- a receiver that got past `recv` implies rank 0 has sent, and holds the data when both allocations succeeded.

The per-action lemmas are `ProceedStep`, `AllocStep`, `FillStep`, `SendStep` and `RecvStep`.

`NeverStuckHolds`: `Spec => []NeverStuck`, the job never deadlocks, for every job size. The inductive invariant is `StuckInv == MsgInv /\ Extra`. `Extra` adds four facts:
- `AbsentBeyondSize`: exactly the ranks beyond the job size are absent.
- `MsgShape`: a message in flight goes to rank 1 with tag 100, and rank 1 has not yet received.
- `SingleMsg`: at most one message is in flight.
- `Pending`: once rank 0 has sent, a message stays in flight until rank 1 has received it.

The lemmas `ProceedExtra`, `AllocExtra`, `FillExtra`, `SendExtra` and `RecvExtra` show `Extra` is preserved. TLC checked `StuckInv` as an invariant for up to four ranks before the proof.

`NeverStuck` then follows by cases:
- A rank blocked in `MPI_Send` is rank 0, and its message is in flight. By `MsgShape` and `AbsentBeyondSize`, rank 1 is waiting in `MPI_Recv` and can take the message.
- A rank blocked in `MPI_Recv` is rank 1 of a two-rank job. Rank 0 is then done, and by `Pending` its message is in flight.
- Otherwise every rank is absent or done.

`StepsAdvance`: `Spec => [][Advance]_vars`, an action property. Every step either tears the job down or moves exactly one rank strictly forward along `Point`, the order of program points in `main`. It follows from `TypeOK` through the lemmas `MoveAdvances` and `ProceedAdvances`.

Proving the violated properties is impossible, since they fail.

**`RangeProofs`** (assumption `RangeAssumption`: `Dim \in Nat \ {0}`, `Coords \subseteq Nat`, `Base \in Coords`, i.e. every number of dimensions and every coordinate set). `RangeProofs` extends `Range`, whose `Prod` and `Ordinal` are recursive *functions*, not `RECURSIVE` operators, so the SMT backend stays available.
- `RangeTypeCorrect`: `Spec => []RangeTypeOK`. The inductive invariant says the held Range's start and finish are vectors of naturals over `Dims`. Every action produces `MakeRange`, `DefaultRange`, `Permuted` or `Intersection` of such vectors.
- `IntersectIsMeetHolds`: `Spec => []IntersectIsMeet`, which follows from `RangeTypeOK` and two lemmas:
  - `MeetIncludes`: with overlap on every dimension, `r & b` is the box from the componentwise max start to min finish, which includes exactly the common indices. Without overlap on some dimension, no index is in both, and `r & b` is `Range()`, which includes nothing (`DefaultEmpty`, since `Dim >= 1`).
  - `MeetCommutes`: the max and min are symmetric, so both operand orders build the same Range.
- `PermuteKeepsIndicesHolds`: `Spec => []PermuteKeepsIndices`. This is the membership half of `PermuteKeepsElements`, for every permutation p and not only the reversal the tests use:
  - Position e of `p ^ x` holds `x[Src(p, e)]` (`PermIdxAt`).
  - `Src(p, .)` is onto the dimensions and undoes p (`SrcIn`, `SrcOf`).
  - Both facts need p to be a bijection. `Permutations` states "no repeats and every position covered" (spec.md's words), so no cardinality argument is needed.

**`LapackShapesProofs`** (assumption: `Dims \subseteq Nat \ {0}`, operands of every size):
- `SquareWrappersInBoundsHolds`: `Spec => []SquareWrappersInBounds`.

Each call rewrites all of `last`, so the property (`LapackInv`) is inductive as it stands.
- `ExecuteRecord`: what `Execute` records for one or two routines: every routine when none fails, otherwise the routines up to the first failure `k` (`LeastExists`).
- `WrapperStep`: if every panel fits its buffer under the precondition (`RoutinesFit`), any prefix of the routines does too.
- One lemma per wrapper shows the panels fit under the precondition: `CholeskyFits`, `SolveFits`, `HeigFits`, `HeigGenFits`, `LuSolveFits` and `LuInvFits`.
  - The leading dimension equals the buffer's rows.
  - The last element's offset `ld * (cols - 1) + rows` is within `rows * cols`. This is nonlinear, and each case gets its own SMT step.
  - `Pick2` and `Pick3` resolve `BufOf`'s `CHOOSE` over buffers of distinct names.
- `svd` meets `SquareWrappersInBounds` vacuously. `SvdInBounds` is false, as the run `lapack_svd` shows.

Proving the violated properties is impossible, since they fail.

**What stays with TLC, and why:**
- **Liveness and anything using `ENABLED`.** This covers the MPI example's `Termination`. Its safety parts are proved:
  - `NeverStuckHolds`: the job is never stuck;
  - `StepsAdvance`: only finitely many non-stuttering steps are possible, since there are finitely many ranks and program points.
  What remains is the temporal step: under weak fairness of each rank, a rank that can step eventually does. That step needs `ENABLED Rank(p)`, whose equivalence with `CanStep(p)` is TLC-checked only, so `Termination` itself is model-checked.
- **What a recursive definition computes for every input.** This needs induction over data, which the installed provers cannot instantiate. In Range:
  - `OrdinalBijective` and `IterationFollowsOrdinal` are facts about the sum `Ordinal` and the product `Prod` over all `Dim` dimensions, and about the iterator's carry chain `Incr`;
  - the volume half of `PermuteKeepsElements` says the product of the sizes does not depend on their order.
  All of these are model-checked for `Dim = 3` with coordinates `0..2`.
- **A refinement of Range by its set contract** ("a Range is the set of indices it includes"). A step-by-step refinement whose abstract actions are existentially quantified over their operands would be nearly vacuous: every Range result is some box, so it matches an abstract construction. A faithful version needs a history variable for the operands, and that multiplies the range run's state space about 440-fold. The proved invariants `IntersectIsMeet` and `PermuteKeepsIndices` state the same content, operand by operand.
- **Anything in a module that reaches a `RECURSIVE` operator.**

## 5. Findings

1. **initialize.h:85, code bug.** The `is_default(comm)` test is inverted. When the user started MADWorld, `initialize` throws for MADWorld's own communicator. It accepts any other communicator and then dereferences `find_instance(comm)`, which is null when no World wraps it. If that does not crash, a null reference is bound as the default World and `initialize` returns it with `initialized()` true. Run `lifecycle_default_comm`.
2. **initialize.h:83/94, code bug.** A throw from `cuda_initialize` after MADWorld was started leaves `initialized_madworld` set and `initialized` false. A retried `initialize` calls `madness::initialize` a second time, which the warning at line 72 says cannot happen. Run `lifecycle_cuda_retry`.
3. **bitset.h:29 and 138-139, spec/code divergence.** Blocks and bits are counted by `sizeof(block_type)` bytes, i.e. 8 bits per `unsigned long`, not 64. Run `bitset_num_blocks`. The refinement theorem shows this layout is still a correct bit vector: the divergence matters only to consumers of the raw blocks.
4. **add.h:351, code bug.** The cast form of `ScalAddTo`, the only one whose `operator()` takes a factor, calls `add_to(left, right)` without it. The left operand ends as left + right, not (left + right) * factor. Run `add_dispatch_scal_add_to`.
5. **rank-local.cpp:157/167, code bug.** `svd` with `AllVec` resizes `U` to m×n and `VT` to n×m, but gesvd writes m×m and n×n with `ldu = U.rows()` and `ldvt = VT.rows()`. For m < n the write to VT runs past its end; for m > n, the write to U does. Run `lapack_svd`.
6. **mpi_cuda_um.cpp:54, code bug.** `cuda_error` is never assigned. The assert that should stop a rank whose `cudaMallocManaged` failed reads an uninitialised value: it may pass, and under NDEBUG it is gone. A rank then fills, sends or receives through a failed allocation. Run `mpi_cuda_um_alloc`.

## 6. Hazards

`PROJECT.json` lists each hazard at the line where it bites, with the properties that cover it. Among them:
- the block arithmetic at the bitset's boundaries;
- a throw midway through `initialize`, and a retry after it;
- the null World bound on the foreign-communicator path, and the `finalize` fence that follows it;
- the order of accumulate and cast in `AddTo`;
- LAPACK leading dimensions and buffer sizes, for svd above all;
- the wrappers trusting A to be square;
- `lu_inv` leaving A overwritten by the LU factors when `getri` throws (not covered: matrix contents are abstracted away);
- the MPI rank blocked in a rendezvous send or a receive;
- the uninitialised assert, and a verification compiled out under NDEBUG;
- weights relabelled after a permutation;
- permutations that are not their own inverse;
- touching intersections;
- empty Ranges;
- iteration order against ordinal.

## 7. Not modelled

- **Tensor printing (`tensor.h`).** The two `operator<<` overloads change no program state. They only write to a stream. The non-contiguous overload addresses elements through `inner_size(t)` and `BlockRange::ordinal`, which are neither under `src/` nor described by the spec, so a model of its addressing would be invented, not translated. The contiguous overload prints `t[i]` in ordinal order, which the Range runs already cover.
- **The `initializer_list` tests.** The header they test is neither under `src/` nor described by the spec, and nothing in it changes state that the other components read.
- **The numerical content of LAPACK calls, CUDA memory management, and the `TA_LAPACK_FORTRAN` calling path.** Out of a model checker's reach: only shapes, allocation outcomes and error paths are modelled.
- **The `static_assert` on numeric scalars.** A compile-time check.
