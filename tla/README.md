# Verification of mjxsdk

TLA+ models of the C++ library under `src/src/mjxsdk`, checked with TLC, and
theorems about them proved with TLAPS. Paths below are relative to
`src/src/mjxsdk` unless they start with `tests/` (then to `src/`); `sp` stands
for `memory/smart_pointer.hpp`.

## 1. The system

The library is a set of memory-management building blocks. It starts no threads
and waits for nothing; it is *used* by threads, and the one thing it promises
them explicitly is a "thread-safe reference counter" (sp:264).

| component | state | operations | interacts with |
|---|---|---|---|
| `unique_ptr` (sp:24-128) | `_Myptr` | construct, move, `release`, `reset`, `swap`, `make_unique` | object management |
| `shared_ptr` (sp:287-415) | `_Myptr`, `_Myctr` | construct, copy, move, from `unique_ptr`, `reset`, `swap`, destroy, `make_shared` | reference counter, `unique_ptr`, object management |
| `reference_counter` (sp:264-285, `smart_pointer.cpp`) | `atomic<long> _Myrefs` | `increment`, `decrement`, `use_count` | shared by all handles of an object |
| `unique_array`, `shared_array` (sp:130-262, 417-563) | pointer, size, (counter) | as above, and `operator[]` with a bounds test | the same |
| object management (`memory/object.hpp`) | none | allocate/construct and destroy/deallocate objects and arrays | global allocator or one passed in |
| global allocator (`memory/impl/global_allocator.hpp`, `memory/allocator.cpp`) | atomic pointer to the current allocator | get, set, reset | every allocation of the above |
| `system_allocator` (`memory/system_allocator.cpp`) | none | allocate, deallocate | `operator new`; debug blocks in debug builds |
| debug blocks (`memory/impl/debug_block.hpp`) | header and sentinels in the block | wrap and validate a block | `system_allocator` |
| `object_allocator` (`memory/object_allocator.hpp`) | none | count and alignment to bytes | global allocator |
| `memory_resource` (`memory/memory_resource.cpp`) | pointer, size, owns | create, view, copy, move, swap, destroy, `contains` | internal `system_allocator` |
| `memory/endian.hpp`, `core/version.hpp` | none | byte order, version packing | - |
| exceptions, export macros, DLL entry, resource file | none | - | - |

What is hard, and what makes each part correct:

- **shared ownership between threads.** Copies, moves, resets and destructions of
  different handles of one object interleave between the atomic operations on the
  counter. The count must be the number of owners, the thread that deletes must be
  alone, nothing may be touched after it is freed and nothing lost.
- **calls that fail half way.** The counter of a shared handle is allocated, and
  the allocation may throw after ownership has moved; `reset(pointer)` is
  `noexcept`.
- **handles assigned to themselves or to another handle of the same object.**
- **pairs of fields that must agree**: pointer and size of an array, pointer, size
  and ownership of a resource.
- **views**: a `memory_resource` may refer to bytes another one owns.
- **boundaries**: arrays and blocks of no bytes, ends of blocks that wrap around.
- **metadata in memory the client can write to**: a debug block is validated with
  what is found around the user's bytes, after any sequence of other calls.
- **calls inside calls**: a deletion runs destructors, which destroy the members
  of the object and may call the smart pointers themselves, while the call that
  started it has not stored its result yet. `list = std::move(list->next)` is such a
  call.
- **the allocator changing** between an allocation and its deallocation, or while
  the destructors of a deletion run. Nothing is kept per block: allocator, size and
  alignment are found again when it is given back.

`PROJECT.json` lists each of these as a hazard at its line, with the properties
that would catch it, or a note on why none does.

## 2. Modules

| module | what it is |
|---|---|
| `SharedOwnership` | what smart pointers promise, with no counter: holders, objects, reclamation |
| `SharedPtr` | `shared_ptr`, `unique_ptr` and `reference_counter` used by several threads; refines `SharedOwnership` |
| `SharedPtrInvariant` | the inductive invariant of `SharedPtr` |
| `SharedPtrProofs` | the proof of the invariant and of the four safety properties; theorems: nothing is lost while counters can be allocated; every step is one of `SharedOwnership`, or none, so that whatever is held exists |
| `NestedOwnership` | smart pointers that are members of what they own: destructors that run, and call, inside of calls |
| `NestedOwnershipInvariant`, `NestedOwnershipProofs` | its inductive invariant; the proof of it and of the four safety properties |
| `SmartArray` | `unique_array` and `shared_array` |
| `SmartArrayInvariant`, `SmartArrayProofs` | its inductive invariant; the proof of it and of the seven safety properties |
| `ObjectManagement` | creating and deleting objects, arrays and storage through the global allocator and `object_allocator`, while it is switched |
| `ObjectManagementInvariant`, `ObjectManagementProofs` | its inductive invariant; the proof of it and of the five safety properties |
| `MemoryResource` | `memory_resource`, its bytes and the internal allocator |
| `MemoryResourceInvariant`, `MemoryResourceProofs` | its inductive invariant; the proof of it and of the four safety properties |
| `DebugBlock` | the layout of a debug block: rounding, offsets, sizes, in words that wrap |
| `DebugBlockProofs` | theorem: a block that does not wrap is divided without gap or overlap; rounding gives the least multiple |
| `DebugHeap` | `system_allocator` in a debug build: blocks, stray writes, deallocations and what they report; uses `DebugBlock` |
| `DebugHeapInvariant`, `DebugHeapProofs` | its inductive invariant; the proof of it, from the layout theorem, and of the seven safety properties |
| `Endian`, `Version` | byte order; version numbers in one integer |
| `PureFunctions` | the three modules of algorithms without state (`DebugBlock`, `Endian`, `Version`), what they have to compute, and every input in turn |
| `PureFunctionsProofs` | theorems: byte orders and versions, for every value; the five properties of `PureFunctions` |
| `MC*` | instances for TLC |

### SharedPtr

| model | code |
|---|---|
| `hnd[x]` | `_Myptr` and `_Myctr` of the handle at location `x`: a variable of the program (a slot) or the temporary that `operator=` and `reset` of thread `x` create |
| `uniq[t]` | the `unique_ptr` of thread `t` |
| `alive`, `ctrs`, `refs` | objects and counters that exist, and `_Myrefs` |
| `frame[t]` | the call thread `t` is in: the next step, `*this`, the target of the `swap`, the source of a copy |

A step is one access other threads can observe: an atomic operation, a deletion,
the creation of a counter, or a stretch of code that touches only handles of the
calling thread. So `s = r` is: read the fields of `r` into the temporary
(`CopyAssign`), `Increment`, `Swap`, `Release`, and perhaps `DeleteObject` and
`DeleteCounter`. `_Release` (sp:370-378) is split at exactly these points, and in
between the handle keeps its stale `_Myptr`, as in the code. Addresses are
reused: an object or counter that was deleted can be created again.

The client follows the rule of every standard smart pointer: different threads
may use *different* handles of one object without synchronisation, but a handle
that is being written is used by one thread (`CanRead`, `CanWrite`).
`decrement` returns the value it left, and the decision to delete is taken on
that value in the same step; the two are one because the value is local.

Abstracted: `use_count` (a read), construction and destruction of the object
itself (destructors that call the library are in `NestedOwnership`), the global
allocator (`ObjectManagement`; here one that may fail only when a counter is
created), memory order (the counter's operations are sequentially consistent in
the code).

### NestedOwnership

| model | code |
|---|---|
| `Roots`, `Nodes` | handles that are variables; objects, each with one member handle of the same name |
| `kind` | whether all handles of the behaviour are `unique_ptr`, `unique_array` or `shared_ptr` |
| `ptr[h]`, `refs[n]` | `_Myptr` of a handle; `_Myrefs` of the counter of object `n` |
| `heap`, `raw` | objects whose storage is allocated; pointers taken out with `release()` |
| `todo` | the call stack, unrolled: what the calls underway have still to do, innermost first |

A call changes what it changes at once and leaves the rest on `todo`:
`unique_ptr::reset(p)` (sp:81-87) leaves "delete the old object, then store `p`",
`unique_array::operator=` (sp:154-159) "delete, store the size and pointer read from the
source, clear the source", a `shared_ptr` swaps and leaves the `_Release` of the
temporary. A deletion (`object.hpp:74-83`) becomes: the body of the destructor, its
members, the deallocation. A call at the body of a destructor goes in front of
`todo`, so every interleaving of nested calls is a path of the model, at any depth
the objects allow. A destructor body makes one call, or none (`EndBody`).

The client's rule (`Usable`): a call is not given a handle that another call is in
the middle of (being destroyed, or about to be stored to), nor one that owns such
a handle, nor a `unique_ptr` inside what it owns itself, which nobody can reach.
The first part is a real restriction: `unique_ptr::reset` deletes before it
stores (sp:84-86), so a destructor that resets the very handle being reset would
delete its object a second time. `std::unique_ptr` stores first. A
`shared_ptr` is safe there because of the temporary. `MayDescend` says whether a
`unique_array` may be moved out of the array it is assigned to, which goes wrong
(section 5). Arrays have one element; the sizes are in `SmartArray`.

### SmartArray

A step is a whole call; the counting protocol is that of `shared_ptr` line by
line, so its interleavings are left to `SharedPtr`. The model adds `_Mysize`,
arrays of zero elements (`create_object_array` of zero elements yields null),
`reset()` in place (sp:495-497), `release` to the program (`raw` is what the
program answers for, with the size it knows), and calls that throw. `heap[a]` is
the number of elements of the array at `a`, 0 if there is none. Construction is
assignment to an empty handle, which has the same effect.

The constant `SharedReset` (may `reset()` be called on an array that others
share?) switches off a call whose result is a finding, so that everything else can
be checked. Null is passed with size zero only (`Passable`; see section 5).

### MemoryResource

`res[r]` has the three fields, `live` the blocks of the internal allocator with
the sizes they were allocated with, `mem` the bytes. A byte is something the
program wrote or `Junk`: never written, or freed, so nothing can be relied on.
Addresses are numbers below `2^Width` and pointer arithmetic wraps around there.
Assignment is modelled in the order of the code: the target is destroyed, a block
is allocated (perhaps the one just freed), the bytes are copied. `Aliasing` says
whether the source may be a view of the target's block. Where the code adds a
size to a pointer beyond the end of an object, C++ leaves the result open; the
model takes what flat address arithmetic gives.

### ObjectManagement

| model | code |
|---|---|
| `current`, `exists` | `_Mycur`; the allocators that have been constructed and not destroyed |
| `Arena[al]` | where an allocator gets blocks: instances of `system_allocator` share one (`is_equal`), a custom one has its own |
| `blocks[a]` | what the allocator gave out at `a`: arena, bytes, alignment |
| `owned[a]` | what the program holds at `a`, with the call and the count it came from, which it passes again to give it back |
| `lost` | blocks whose constructor threw (`object.hpp:67-69`) |
| `frame[t]` | the call thread `t` is in: next step, the reference `get_global_allocator` returned, the element it has come to |

`create_object`, `create_object_array`, `allocate_object_array` and
`object_allocator::allocate` are the four `APIs`; `allocate_object` is one of one element. A
step is a look-up, an allocation, the constructor or destructor of one element, or
a deallocation; between any two of them another thread, or the constructor or
destructor itself, may do anything it may do at all, switching the allocator
included. Sizes are products modulo `2^Width` as in the code. An allocation of no
bytes returns null (`system_allocator.cpp:60-63`); other allocators are
taken to behave like it, except for where their blocks come from.

No call compares its count with `max_size()` (`object.hpp:37-39`, 63;
`object_allocator.hpp:53`). `Requests` therefore asks for storage of any count, and gets too little
of it when the product wraps around; but objects are only created up to `MaxCount`,
because constructing more of them writes outside of the block, and no model can say what happens then.

The client's rule is part of the model, and finding the weakest one was a result
of it (`MaySwitch`, `DestroyAllocator`): switch only to an allocator that can take
back every block the program still holds *and every one being created*; a deletion
that has begun does not matter, because it looked its allocator up first, so
destructors may switch; destroy an allocator only when it is neither current nor
in use by a call. The library itself checks none of this.

### Endian and Version

Integers are numbers in base `Base`, so that shifts and masks by whole bytes are
division, remainder and product, and the model of each `_Bswap` has one term
per term of the portable branch (the GCC builtins are taken to do the same).
`InMemory` and `InInteger` say what a byte order is, and the conversions are checked
against them. A number is below `Base^n`, and the real base is 256; TLC takes 2.

`Encode` is the macro, with `|` and not `+`: `Or` goes through the bits of its operands and
cuts off what does not fit 64 bits, so that fields that are too large run into each other as
they do in the code. (It is a definition of this project because the module `Bitwise` is out
of the prover's reach.) The macro shifts in the type of its arguments; the model is that of 64-bit
arguments, which the tests (`uint64_t`) and the library's own version (`1ULL`) pass. With an `int`, the
shift by 48 is undefined.

### DebugBlock and DebugHeap

`DebugBlock` has one operator per function of `_Block_offset` and `_Calculate_*`,
modulo `2^Width`; `_Align_value` clears bits with a mask, which for a power of 2
takes away the remainder.

`DebugHeap` puts such blocks in an arena of cells. A cell is as wide as a header
and as a sentinel, so that a block of the model has the same parts in the same
order as one of 18- and 4-byte metadata; how many cells the paddings take depends on the
alignments of the instance.

| model | code |
|---|---|
| `memory` | what the bytes hold: header, sentinel, fill, or anything else (`Data`); blocks are put on memory that keeps its old contents, as operator new's does |
| `blocks` | blocks operator new has given out, with size and alignment |
| `live`, `freed` | pointers the client holds (with the size and alignment it asked for), and those it has deallocated |
| `stray` | cells the client wrote without owning them since they were last prepared |
| `last` | what the last `_Extract_and_validate_block` found and reported, and what the client had really done |
| `status` | running; `stopped` by a report; `corrupt` when operator delete was given something it had not given out |

A call is one step: blocks of different threads share nothing. A report ends the
process in the Linux build, and its heap is gone; in the Windows build it may also
return, and then the header is marked and the block goes to operator delete. The
model has both outcomes at every report. A
header that was overwritten may pass or fail every test; a sentinel that was
overwritten differs from the original, and no byte of the client forms a header
by chance. After a deallocation the C library may have overwritten the header.
The client deallocates only pointers it was given, now or once; the wrong size or
alignment is among those it uses elsewhere. Sizes are compared after rounding, as in the code, so that a
call is `right` if it names the block that was allocated. The tag is left out: the blocks are
all of `system_allocator`. The release build passes size and alignment to operator
new and delete and adds nothing.

## 3. What TLC checks

| run | instance | shows |
|---|---|---|
| `shared_ptr_safety` | 3 threads, 3 variables, 2 objects, 3 counters, counters may fail | types, exact count, no use after free, lone deleter |
| `shared_ptr_refines` | 2 threads, variables, objects and counters, no failure, fair threads | no leak; `SharedPtr` implements `SharedOwnership`, liveness included |
| `shared_ptr_leak` | 1 thread, 2 variables, 1 object, 1 counter, counters may fail | **violated**: an object is lost when its counter cannot be created |
| `nested_ownership` | 2 variables, 3 objects, each of the three kinds | nothing touched after it is freed, destroyed twice, lost or dangling, at any depth of calls |
| `nested_ownership_array` | the same, `unique_array` only, moves from inside the target allowed | **violated**: freed memory is written to |
| `smart_array` | 3 shared and 2 unique arrays, 3 addresses, up to 2 elements, 4 counters, calls may throw | exact count, size = number of elements, one owner, bounds test, no array lost |
| `smart_array_shared_reset` | the same, no call throws, `reset()` on shared arrays allowed | **violated**: an array is destroyed while a handle refers to it |
| `object_management` | 2 threads, 2 blocks, 3 allocators of 2 arenas, words of 3 bits, elements of 2 bytes, up to 2 of them (storage: 5 as well, which wraps around), calls may throw | blocks return to a live allocator of their arena with their size and alignment, elements fit, only throwing constructors lose a block |
| `memory_resource` | 3 resources, 3 bytes of heap, 1 of the program, addresses of 3 bits, allocations may fail | blocks and owners one to one, faithful copies, exact `contains` |
| `memory_resource_alias` | the same, a view of its own block may be assigned to a resource | **violated**: freed bytes are copied |
| `pure_functions` | debug blocks of 9-bit words with the metadata of the 64-bit build, every size and alignment; every value of 16 bytes (of one bit); versions of 2+3+3 bits and one more bit per field | least multiples; parts without gap or overlap; portable bytes; versions decode and compare exactly when their fields fit |
| `debug_heap` | 8 cells, sizes 0, 1 and 2, alignments 1 (the default), 2 and 4, one stray cell, reports that may end the process | right calls are not reported; damage, arguments that name another block and repeated deallocation are; operator delete gets its own block |

Every property of a passing run is also checked against a faulty variant of one
definition (the "Faulty variants" section of each module): TLC must then find it
violated.

**Bounds.** Counters: a call that needs one starts only if one is left for it
(`CounterLeft`, `FreeCounters`); objects and arrays likewise come from a finite
set. Three threads are two handles racing for the last decrement and a third one
copying; three slots and a temporary per thread allow six handles of one object,
two objects allow address reuse next to a live one. The theorems below lift the
bounds of all modules. In `NestedOwnership` three objects
allow a chain with an object in between, and a destructor that rebuilds part of it while the rest goes; four objects
were run once with the same result. In `SmartArray` four counters let every slot own one while
a new one is created. In `ObjectManagement` two threads and two blocks have a
creation, a deletion and a switch underway together; 3-bit words make a count of 5
wrap around to two bytes, in storage and, if `MaxCount` lets it through, under objects;
two elements are a loop that can stop too early or too late. In `MemoryResource` three bytes allow two blocks, a view of
the middle or end of one, and a freed block partly reused; the fifth to seventh
addresses are outside of everything. In `DebugHeap` a cell stands for the
16 bytes of the default alignment on x64: header and underrun sentinel (22 bytes) fill two of
them, so alignments 1 and 2 put the user block at the same offset, as 16 and 32 do in the
code, and a deallocation with the wrong one of the two reads the right header; with 4
it reads another place, where the header of an earlier block may be left. 8 cells hold two blocks of one
cell or one larger block, at several places, so that blocks are put across the remains of others; a block
of alignment 4 takes 12 cells and is never allocated, and padding before the sentinel does not
occur, which `pure_functions` and the theorems cover. A size of 1 at alignment 2
leaves slack. One stray cell (`MaxStray`) reaches any part of any block.

**Symmetry** is used in safety runs only.

**Deadlock** is off in the `SharedPtr` runs because the program really stops when
`std::terminate` is called (`CreateCounterTerminates`). In the others it is on.

**Fairness.** `FairSpec` assumes weak fairness of `Continue(t)`: a thread that is
in a call is scheduled again. The operating system provides it and no call in the
model ever waits for another. Nothing makes a thread start a call.

## 4. What is proved

For every value of the constants that satisfies the named assumptions:

| theorem | statement | module |
|---|---|---|
| `Invariance` | `Spec => []IInv` | `SharedPtrProofs` |
| `TypeCorrect` | `Spec => []TypeOK` | |
| `CounterIsExact` | `Spec => []CountMatchesOwners` | |
| `NothingUsedAfterFree` | `Spec => []NoUseAfterFree` | |
| `DeleterIsAlone` | `Spec => []SoleDeleter` | |
| `NothingLeaks` | `Spec => []NoLeak`, if not `MayFail` | |
| `CountingIsSharing` | `Spec => Ownership!Safe` | |
| `SharedObjectsAreAlive` | `Ownership!Safe => []Ownership!HeldIsAlive` | |
| `HeldObjectsAreAlive` | `Spec => []Ownership!HeldIsAlive` | |
| `FittingBlocksAreTiled` | `Fits(n, a)` implies `Tiles(n, a)` | `DebugBlockProofs` |
| `AlignmentIsLeast` | `RoundsUp(v, a)`, if `a` divides `Word` | |
| `Invariance` | `Spec => []IInv` | `ObjectManagementProofs` |
| `TypeCorrect` | `Spec => []TypeOK` | |
| `EveryBlockReturnsHome` | `Spec => []BlocksReturnHome` | |
| `EveryBlockReturnsAsAllocated` | `Spec => []ReturnedAsAllocated` | |
| `EveryElementFits` | `Spec => []ElementsFit` | |
| `OnlyThrowingConstructorsLose` | `Spec => []NothingLost` | |
| `Invariance` | `Spec => []IInv`, here and below if not `SharedReset` | `SmartArrayProofs` |
| `TypeCorrect` | `Spec => []TypeOK` | |
| `CounterIsExact` | `Spec => []CountMatchesOwners` | |
| `SizesAreCounts` | `Spec => []SizeIsCount` | |
| `OwnersAreSole` | `Spec => []SoleOwner` | |
| `HeldArraysExist` | `Spec => []HeldArrayExists` | |
| `AcceptedIndicesExist` | `Spec => []AcceptedIndexExists` | |
| `NoArrayIsLost` | `Spec => NothingLost` (every step) | |
| `Invariance` | `Spec => []IInv` | `MemoryResourceProofs` |
| `TypeCorrect` | `Spec => []TypeOK` | |
| `OwnersAndBlocksMatch` | `Spec => []OwnersMatchBlocks` | |
| `ContainsAnswersRight` | `Spec => []ContainsIsExact` | |
| `CopiesAreFaithful` | `Spec => CopyIsFaithful` (every step), if not `Aliasing` | |
| `Invariance` | `Spec => []IInv`, here and below if `SizesFit` | `DebugHeapProofs` |
| `TypeCorrect` | `Spec => []TypeOK` | |
| `BlocksHoldRequests` | `Spec => []BlockHoldsRequest` | |
| `NoFalseAlarms` | `Spec => []NoFalseAlarm` | |
| `DamageIsReported` | `Spec => []DamageReported` | |
| `MismatchIsReported` | `Spec => []MismatchReported` | |
| `DoubleFreeIsReported` | `Spec => []DoubleFreeReported` | |
| `RightCallsGiveBackTheBlock` | `Spec => []RightCallsAreExact` | |
| `NestedInvariant` | `Spec => []IInv`, here and below if `NoDescent` | `NestedOwnershipProofs` |
| `NestedTypes` | `Spec => []TypeOK` | |
| `NestedNothingTouched` | `Spec => []NothingTouchedAfterFree` | |
| `NestedDestroyedOnce` | `Spec => []DestroyedOnce` | |
| `NestedOwnersExact` | `Spec => []OwnersExact` | |
| `EveryNumberIsPortable` | conversions give the order asked for and are undone by any machine; `v < Base^n`, `n` of `Widths` | `PureFunctionsProofs` |
| `FittingVersionsAreDecoded` | a version is decoded as encoded exactly if its fields fit | |
| `VersionsAreOrdered` | `Supported` is the order of major, minor and patch, if the fields fit | |
| `BlocksAreTiled` | `Spec => []PartsTileTheBlock` | |
| `AlignedValuesAreLeast` | `Spec => []AlignIsLeast` | |
| `BytesAreAlwaysPortable` | `Spec => []BytesArePortable` | |
| `VersionsAreDecodedAsEncoded` | `Spec => []DecodedAsEncoded` | |
| `VersionsUpToOwnAreSupported` | `Spec => []SupportedUpToOwn` | |

The assumptions: `SharedPtrAssumption` (finitely many handles; addresses, locations
and the null pointer are different things), `ObjectManagementAssumption` (every
allocator has an arena, an element has at least one byte and fits a word, names do not
clash; any number of threads, allocators and addresses, and any set of counts),
`SmartArrayAssumption` (finitely many shared arrays, null is no address),
`NestedOwnershipAssumption` (finitely many handles and objects, whose names do not clash),
`MemoryResourceAssumption` (no block at null or at the very end of the address space; the
program's own bytes are not in the heap), `DebugBlockAssumption` (metadata smaller than a
word), `DebugHeapAssumption` (metadata of one cell each; alignments are powers of 2),
`BaseAssumption` and `VersionAssumption` (a byte has two values or more, a field one bit or
more). Three more are facts of arithmetic: to the provers `b^k` is some integer, so
`PowersOfBase` and `VersionPowers` say where powers begin (`b^0 = 1`) and how they go on
(`b^(k+1) = b^k * b`) as far as they are used, and `PowersOfTwo` that a power of 2 is
positive and divides the larger ones. TLC evaluates all of them in the runs.

The hypotheses: `MayFail`, `SharedReset` and `Aliasing` admit the calls whose results are
findings (section 5), and with them the theorems are false, as the runs that expect a
violation show. `NoDescent` leaves out such a call too (`MayDescend`), for `unique_array` only:
about the other two kinds it says nothing. `SizesFit` says that a size does not wrap around
when it is rounded and given its metadata; without it `BlockHoldsRequest` is false (section 5). The instance of
the run `debug_heap` satisfies it (`MCSizesFit`).

**SharedPtr.** `CountMatchesOwners` alone is not inductive. When `Release`
takes a counter to zero, that no other handle refers to it follows from the count
only if every handle that is *not* counted is accounted for: a copy waiting for
its increment has a source that is counted and stays put (`CopyHasSource`, kept
by `Exclusive`: what one call writes no other call touches), and a handle being
destroyed was the last (`DyingIsLast`). That the object dies with its counter
needs `OneObject` and `OneCounter` (handles agree on which counter belongs to
which object), and these need to know which handles have no counter: empty ones
and those whose counter is being created (`NoneIsEmpty`, `NewHasNone`). Because
addresses are reused, "refers to an object" excludes a handle whose object is
already deleted (`Managed`). `FrameOK` says which locations a call can be working
on. `IInv` is the conjunction; TLC confirmed it before it was proved.

`SharedPtrProofs` first shows that a step of thread `t` that writes only the
locations of its own call leaves every other call's view unchanged (`LocalStep`,
`LocalRoles`, `LocalFrames`, `LocalOthers`), then treats the actions one by one.
Steps of the same kind share a lemma: moves and swaps permute handles
(`ExchangeKeeps`, counted with `CountPermuted`), copies add an uncounted handle
(`CopyKeeps`), new handles wait for a counter (`PendingKeeps`), `unique_ptr` calls
leave the handles alone (`UniqueKeeps`).

`NoLeak` is not inductive either: between the two deletions of `_Release` the
handle has a stale `_Myptr`, which may be the address of a newer object and would
count as reaching it. The proof strengthens it to `NothingUnowned`, where only handles
that still manage the object count. The one step that needs an argument is a
decrement that does not reach zero (`OtherOwner`): by `CountMatchesOwners` the
counter has a second owner, which by `OneObject` refers to the same object.

The proof of `CountingIsSharing` uses the mapping of `SharedPtr`, what each handle holds
(`HeldBy`): a handle holds its object until the decrement that takes the counter to
zero. So the last `Release` is a `Drop`, as any other, `DeleteObject` is `Reclaim`
(allowed because `DyingIsLast` leaves no holder), `Swap` is an `Exchange`, and the steps that only
move the call along or work on counters change nothing. The last part of each proof is one of
the `SeenAs` lemmas, which say when a change of what is held is an action of
`SharedOwnership`.

**ObjectManagement.** That a deletion returns its block where it came from depends
on what was true when it began, so the invariant speaks of every block the program
holds: it has the bytes and the alignment its request computes, and its arena is
that of the *current* allocator (`HeldCanGoBack`). `MaySwitch` keeps this when the
allocator is switched, but a block that is being created becomes one the program holds only
later: hence `CreatedCanGoBack`. A call underway keeps the allocator it found alive
(`FoundExists`, kept by `DestroyAllocator`) and a block fit for it (`FoundTakesBack`).
`NothingLost` is part of the invariant: a block that had two owners could be returned by
one under the other. `ElementsFit` then is arithmetic: `MaxCount * Size` is less than a
word, so the product does not wrap.

**DebugBlock.** `DebugBlockProofs` reduces the layout to one fact, that rounding up
adds less than the alignment and leaves a multiple (`AlignRoundsUp`, from
`WithoutRemainder`); `Fits` keeps every sum below the word, so that no modulus
matters (`NoWrap`). Without `Fits` it is false (section 5). `AlignmentIsLeast` needs no
`Fits`: two multiples are at least the alignment apart (`NextMultiple`), and where the sum
wraps around, no multiple is left below the word and the result is zero.

**NestedOwnership.** The invariant is about the call stack, at any depth. Steps are
numbered from the outermost call inwards, so that a number keeps its meaning while calls
begin and end inside of it (`Depth`, `Step`, `At`). What a handle has in its field matters
less than what it will have: `Owns(h)` is the value of the last store that is pending, nothing
for a handle that is being destroyed, and the field otherwise. With it the properties
become those of a program at rest: an object has one owner (`UniqueOwner`), or its counter is
the number of sharing handles and of releases still to come (`CountedOwners`), or it is being
destroyed, once (`EndsOnce`) and part by part (`PartsInOrder`).

The hard part is that a deletion does not touch what others still write: a store into
a member whose object was deleted in the meantime would write to freed memory. So a member
is written before its own destruction begins (`StoresBeforeMembers`), and this is kept only
if it holds of everything the deletion *will* reach. `StoresBeforeDeletion` says so
without recursion: what a deletion reaches lies in a set of objects that is closed under
`Owns` and whose stores are all further in. Any such set is enough; the client's rule
gives one for each new call (`Usable`, whose `Below` is the least closed set).
`NoDescent` is needed exactly here: a move from inside the target stores to a member of what it
deletes, after the deletion.

`NestedOwnershipProofs` treats unique and shared handles apart. Calls have two forms,
those that delete or release what a handle had and those that only rearrange (`UniqueCallKeeps`,
`UniqueTake`, `SharedCallKeeps`, `SharedTake`); the inner steps take the first step off `todo`
and put others in its place (`InnerKeeps`). `StepsExist` and `EndsOnce` give
`NestedNothingTouched` and `NestedDestroyedOnce`. `OwnersExact` counts places in `todo`,
from the inside, with sets of numbers: `ClaimsAre` turns each into the set of the
invariant by a bijection.

**SmartArray.** The invariant is the properties themselves and what makes them hold
together. That the last share destroys an array nobody else refers to needs `SharersAgree`
(a counter stands for one pointer and one size) and `SoleOwner` (one pointer stands for one
counter); `UncountedIsEmpty` and `NullHasNoSize` say that there are no half-empty handles,
which a size that survives its pointer would be, and `RawAreArrays` that the
program answers for real arrays. The counts are those of a finite set of owners under
three changes (`ReplacedIsCounted`, `MovedIsCounted`, `SwappedIsCounted`); what a call does
to the arrays is split by handle (`InvByHandle`), and steps of one kind share a lemma:
`SlotReplaced` for a shared array that takes something else, `RearrangedKeeps` for moves and
swaps, `FirstShareKeeps` for new counters. Self-assignment is a case of each.
`NoArrayIsLost` is an action property: each lemma proves it next to `IInv'`.

**MemoryResource.** `OwnersMatchBlocks` needs that blocks are apart in the heap and that
what a resource refers to are addresses (`BlocksInHeap`, `FieldsAreBytes`), so that
the block `operator new` returns is nobody's yet. A call then replaces one owner, moves
one or swaps two (`ReplacedOwner`, `MovedOwner`, `SwappedOwner`), aliasing or not: a view owns
nothing. Without aliasing the bytes of the source are neither freed nor overwritten
between the destruction of the target and the copy (`CopiedIsTheSource`), although the new
block may be the freed one. `ContainsIsComesFrom` is a case split on the ends of the two
ranges, which does not wrap around because a block ends inside of the address space.

**DebugHeap.** None of the five properties of reports says anything before a deallocation;
what they rest on is true all the time. Metadata are what they were prepared as, or the
client strayed into them (`MetadataKept`), and that survives other blocks' calls because
blocks are apart and contain the user's bytes strictly (`LiveApart`, `LiveInArena`,
`LiveLayout`). `BlocksOfLive` ties each user block to the block under it, so that the
pointer and the alignment determine what operator delete is given (`RightCall`).
`DoubleFreeReported` and `MismatchReported` rest on `AllocatedAreLive`: a header that says "allocated" is that of
a block the client holds, because a deallocation marks it (`MarkedHeader`) and because neither
fill, sentinels nor the client's bytes form one; so a pointer whose header passes every
test is that of a block that is held, and that block is what operator delete gets (`PassedCall`). The layout enters through
`Layout`, which gets the offsets, in words that wrap, from `FittingBlocksAreTiled`,
and the alignment of what the client gets through `SumOfMultiples`.

**PureFunctions.** The invariant is that every state is an input (`IsInput`); the rest is
arithmetic. Everything about bytes is said with `Shows(v, n, d, f)`: the bytes of the number
`v` are `d[f]` to `d[f + n - 1]`. Two numbers put one above the other show the bytes of both
(`Joined`), which gives the sums of the byte swaps their meaning (`Two`, `Four`, `Eight`), once
each shift and mask of the code is known to move one byte (`Highest`, `Lowered`, `Raised`,
`Lowest`): a swap shows the bytes of its argument the other way round (`SwapReverses`), and 128
bits do because their halves do. Numbers that show the same bytes are equal (`BytesDetermine`),
so that swapping twice does nothing (`SwapTwice`) and a machine reads back what it wrote
(`ReadsWhatItWrote`).

For versions the point is that `|` is a sum when no bit is set in both operands
(`OrOfDisjoint`), and that a field shifted to the left has no bit in common with what is below
(`OrOfFields`). Encoded versions are then numbers in mixed radix (`EncodeIs`), which
division takes apart and which compare field by field (`ComparesInTurn`). That
a version that does not fit is *not* decoded follows from the width of each decoded
field.

`InInteger` and `Or` go through a number digit by digit. The library's induction theorems cannot
be used with the installed provers, but the well-foundedness of the numbers can:
`SetInduction` derives induction over a *set* from it, and every induction of the module (powers,
`ValueExists` for the recursive functions, `ReadShows`, `OrOfDisjoint`) goes through a set.

**Only model-checked:** the liveness half of `ImplementsOwnership`, that an object nobody holds
is eventually destroyed: fairness is out of the prover's reach. Every invariant and every action
property of a run that passes is proved.

## 5. Findings

Each is a run that TLC must find violated; `PROJECT.json` quotes the line of the
repository it contradicts.

1. `shared_ptr(unique_ptr&&)` and `make_shared` lose the object if the counter
   cannot be allocated (sp:300, 313-314); `shared_array(unique_array&&)` does it
   in the safe order.
2. `shared_array::reset()` on a shared array gives up its share and keeps the
   pointer (sp:495-497), so the array is destroyed under the other owner.
3. `memory_resource::operator=` frees its block before reading a source that may
   be a view of it (`memory_resource.cpp:44-45`).
4. `unique_array::operator=(unique_array&&)` clears its source after it has deleted
   the target's array (sp:154-159): if the source is a member of one of its elements,
   freed memory is written to and the target points to a destroyed array.
   `unique_ptr` and `shared_ptr` are right in the same situation.

Smaller things met while modelling, without a run of their own:

- `memory_resource::contains` accepts a size whose end wraps around
  (`memory_resource.cpp:110`); `ContainsIsExact` speaks of blocks that end inside the
  address space.
- In a debug build `system_allocator::allocate` wraps around for sizes near
  `max_size()` and returns a block of a few bytes (`debug_block.hpp:222`, and
  84-85 for sizes a little smaller); `Fits` excludes them.
- `create_object_array`, `allocate_object_array` and `make_unique_array` do not compare
  the count with `max_size()`, so `_Count * sizeof(_Ty)` may wrap around (`object.hpp:39`), nor does
  `object_allocator` (`object_allocator.hpp:53`): the block is then too small. `Requests` asks for
  such counts only where nothing is constructed.
- A constructor that throws loses its block, and the elements built before it are not
  destroyed (`object.hpp:56-72`): `lost`.
- `create_object` allocates over-aligned types without their alignment
  (`object.hpp:31-39`).
- Two `object_allocator`s always compare equal, though a block of one cannot go back through the
  other once the global allocator was switched.
- `unique_ptr::reset` deletes before it stores (sp:84-86; see section 2).
- A `unique_array` given a null pointer and a size keeps the size through `reset()`
  (sp:212-219, although the comment at 213 says null and zero).
- The copy of an empty `memory_resource` says that it owns (`memory_resource.cpp:63`), although
  `tests/src/memory/memory_resource/test.cpp:157` says "empty resource is never owned" (the test
  looks at a default-constructed one). The model sets the flag as the code does; `OwnersMatchBlocks` shows
  that no block is freed twice or lost for it, and says nothing of what `owns()` answers.
- The overrun sentinel of a debug block stands after the rounded size, so a write into
  the rounding is not noticed (`debug_block.hpp:222`; the part `slack` of `Damage`). For the same reason a
  deallocation with a wrong size that rounds to the right one is not reported
  (`debug_block.hpp:237`); operator delete then gets its own block all the same.
- The version macros shift an `int` argument by 48 bits without widening it, and do not cut their fields
  to their bits (`core/version.hpp:12`):
  the run `pure_functions` shows when the latter matters.

A limit rather than a disagreement: a second deallocation is noticed only while
the header is still there (`DoubleFreeReported`). If the same pointer was handed
out again in the meantime, the call is that of the new owner and nothing can tell.

## 6. Plan

Done: all components with behaviour are modelled. Every module with a state has an
inductive invariant, and all the safety properties the runs check are proved, of the
algorithms without state for every input; the refinement of `SharedOwnership` its safety
half. Nothing of the plan is left.

Not modelled and not planned:

- exception classes, export macros, the DLL entry point, the resource file, build
  files, tests and benchmarks: no behaviour of the library;
- memory order: TLC and TLAPS see one total order of steps;
- `alignof` of over-aligned types: `create_object` does not look at it;
- the depth of the stack when destructors nest: the order of calls is modelled, not
  their frames.
