# TLA+ models of neonrt

neonrt is a small C runtime library: a hash map, a linked list, a ring buffer and
a reference-counted byte buffer, with helpers around them. It has no threads and
does no I/O of its own. What is hard in it is what its data structures do over
long sequences of legal calls: the hash map grows through a client callback that
may grow it again before the first growth has ended, errors recorded by one call
decide what a later one does, unsigned counters meet zero, and several objects
keep a second, cached description of themselves that must stay in step.

Paths below are relative to the repository's root, which is `src/` here; a file of
the library is `src/src/...`, the test client `src/test_guest/guest.c`.

## Inventory

| component | state | operations | interacts with |
|---|---|---|---|
| hash map, `containers/hashmap.c` | buckets, `capacity`, `set`, `load_factor`, `collisions`, `resize_bound`, callback, `locked`, `last_error_code` | `hmap_new`, `hmap_set`, `hmap_get`, `hashmap_unset`, `hmap_resize`, `hmap_free`, three setters | keeps the entries of a crowded bucket in a linked list, keys in managed buffers, calls the client's unhealthy and error callbacks, takes a hash function |
| linked list, `containers/linked_list.c` | nodes, `first`, `last`, `len` | `ll_new`, `ll_add_node` (prepend, append, insert), `ll_remove_node`, `ll_gnat`, `ll_free` | used by the map and by guest.c |
| ring buffer, `ringbuffer/ringbuffer.c` | bytes, `capacity`, `size`, `head`, `tail` | `rb_new`, `rb_write`, `rb_read`, `rb_free` | none |
| managed buffer, `containers/buffer.c` | bytes, `ref_ct`, `lock`, `needs_sync`, `is_utf8` | `buff_new`, borrow, borrow writable, return, return n, free, force free, validate, compare | the map's keys, guest.c's lines |
| UTF-8 check, `validate_utf8` in `containers/buffer.c` | an index | one loop | `utf8proc`, which is not in the repository |
| wire, `util/wire.{c,h}` | none | integers in both byte orders, `align` | `wrap_siphash` |
| seeded hashing, `util/sip_wrapper.c` | a key of 32 bytes on the stack | `wrap_siphash` | the map's default hash function; wire, siphash |
| test guest, `test_guest/guest.c` | its loops | `main` | a map, a list and buffers, together |
| the rest | none | siphash and mum hash, `explicit_erase`, version strings, declarations in `ioutil.h`, the `kv_store` sample | none |

What makes each of them correct, and where it is hard:

- **hash map.** An entry is where a look-up searches for it; growing loses,
  reorders and changes nothing; `set` does not fall below the number of entries;
  every call returns; the lock is held after a call only for a reason. Hard: the
  nested growth, an error code nobody clears, allocations that fail halfway or
  unnoticed, and `hashmap_unset`, which does not do what it says.
- **linked list.** The chain has `len` nodes and ends; `last` is its end; no node
  leaks or dangles. Hard: the empty list, and the two ends.
- **ring buffer.** First in, first out, across the wrap-around; nothing is
  overwritten. Hard: full and empty look the same to `head` and `tail`, and
  `size` is unsigned.
- **managed buffer.** `ref_ct` is the number of leases; a writer is alone; the
  cached UTF-8 answer is true. Hard: leases are held across calls by code that
  does not know of each other, and `ref_ct` is unsigned.
- **UTF-8 check.** It ends, accepts what is well-formed and nothing else. Hard:
  a signed result is added to an unsigned index, and four bytes are offered
  at the end of the buffer as well.
- **wire and seeded hashing.** What is read is what was written; the key is
  initialised and keeps the seed. Straight-line code, nothing hard.
- **test guest.** It finds what it stored, and ends. Hard: it takes three
  containers through the cases each of them gets wrong.

`PROJECT.json` lists the hazards one by one, at their lines, with the properties
that watch each.

## Modules

| module | what it is |
|---|---|
| `Hashmap` | hashmap.c: one action per call; a growing call is a sequence of steps |
| `MCHashmap` | three keys and their hashes for TLC |
| `WriteOnceMap` | abstract: an exact store that may refuse once unhealthy |
| `HashmapWriteOnce`, `MCHashmapWriteOnce` | `Hashmap` under a client that stores each key once, refining `WriteOnceMap` |
| `HashmapProofs` | lemmas about the operators of `Hashmap`; its inductive invariant, and what follows from it |
| `HashmapAnswerProofs` | what a look-up finds: proofs for any client, and, for one that stores each key once, that the map implements `WriteOnceMap` |
| `FifoQueue` | abstract: a bounded byte queue |
| `RingBuffer`, `RingBufferProofs` | ringbuffer.c, refining `FifoQueue`; proofs |
| `Chain` | abstract: the sequence a linked list stands for |
| `LinkedList`, `LinkedListProofs` | linked_list.c at the level of nodes, refining `Chain`; proofs |
| `ManagedBuffer`, `ManagedBufferProofs` | the leases of buffer.c; proofs |
| `Utf8Check`, `Utf8CheckProofs` | `validate_utf8`; proofs |
| `Wire` | the encodings of wire.c, as operators |
| `SipKey`, `MCSipKey`, `SipKeyProofs` | `wrap_siphash` on top of `Wire`; proofs about both |
| `Guest`, `MCGuest`, `GuestProofs` | `main` of guest.c, composed of `HashmapWriteOnce`, `LinkedList` and `ManagedBuffer`; proofs |

`Hashmap` takes the list of a crowded bucket as a sequence. It appends to one, and
removes from one with the operator `ll_remove_node`. `LinkedList` shows that the
nodes and pointers of linked_list.c do implement the sequence `Chain`, whose
`Insert` at the end and `Drop` are these two. `ManagedBuffer` takes the answer of
`validate_utf8` as a fact about the bytes, `accepted`; `Utf8Check` is how that
answer comes about. `Hashmap` takes its hash function as a constant; `SipKey` is
the default one, down to siphash.

### Hashmap and the code

The variables are the fields of `struct hmap` under their own names, plus the
frame of a running `hmap_resize` (`new_buckets`, `new_cap`, the loop's position
`at_bucket`, `at_node`) and three facts about the call in progress: `swapped` (a
running `hmap_resize` has installed its table), `pending` (`hashmap_unset` has yet
to decrement `set`), `ret` (the result). A bucket is its chain of entries and its
`is_complex` flag; an entry's `live` is FALSE once its memory has been freed. The
one history variable, `lost`, records that an entry was lost for want of a list
node, which the code does not notice.

A call that does not grow the table ends in one step, or in two when the second
runs the rest of the frame. A call that reaches `update_load_factor` over the
threshold runs the callback, and with it `BeginResize`; then one `RehashEntry` per
entry, `RehashNextBucket` per bucket, and `ResizeBackOff` or `ResizeSwap`. The swap
recomputes the load **inside** the resize, as the code does, and may begin another
resize; `FinishCall` unwinds every frame at once. Only `swapped` and `pending` need
be remembered of the frames below: each `hmap_resize` that swapped does the same
two things on its way out (count collisions, unlock), and a frame whose inner call
backed off still does them.

`pc = "undefined"` is where a call reads or frees memory that was freed: the model
says that it happens and nothing about what follows.

The allocations that may fail are those whose result the code tests, and the list
nodes of `hmap_complex_key_set_value`: `ll_add_node` reports their failure and the
map does not look. With the other allocations the code runs on into a NULL pointer.

Three callbacks are modelled: the map's default one, the one of guest.c, and one
that leaves growing to the client. No run installs the third, since it adds
no step the others lack; the proofs about `Hashmap` cover all three.

### The other modules and the code

The calls of the ring, the list and the buffer run to their end undisturbed, so each
is one action. `rb_read`'s loop is summed up by `UntilTail`, after how many bytes it
breaks, `Copied` and `Counted`. `LinkedList` keeps the heap: `next` and `data` of
every node, and which nodes are allocated. Its walks are a function from indices to
nodes, so that a cycle is a chain that does not end. `ManagedBuffer` adds to the
fields what its clients hold and did, and of the bytes only whether `validate_utf8`
accepts them.

The clients:

- `RingBuffer`: `FittingSpec` asks for no more than the ring holds, `Spec` for anything.
- `LinkedList`: any calls in any order, on a list that starts with one node, as
  hashmap.c's do, or with none, as guest.c's. Two calls at the list's end leave `last`
  behind; `strayed` records them, and the properties that hold only until then say so.
  The model ends at an append that would write to a freed node, and with the first
  addition to an empty list, by whichever mode and refused or not (`Spoilt`): what it leaves
  is no chain. `Guest` goes on from there, with the appends that guest.c makes.
- `ManagedBuffer`: any number of readers, one writer, and an owner that tries to free
  at any time. `unmatched` counts what was taken off `ref_ct` by callers that gave no read lease
  back: attempts at freeing, and returned write leases.
- `Utf8Check`: any buffer. A byte is its part in a character. `utf8proc_iterate`
  returns the character's length or one negative code, -3 for what is no character
  (buffer.c uses nothing else of it).
- `SipKey`: one action per statement of `wrap_siphash`. An integer is the function
  from significance to byte, so `<< 8` and the encodings are exact; only the exclusive
  or of bytes and siphash itself are constants, with their assumptions.
- `Guest`: one action per call that `main` makes. It reuses the actions of the three
  containers, and follows the buffer of one line, which may be any.

## Runs

| run | shows |
|---|---|
| `MCHashmapFull` | all calls with failing allocations, NULL values, a bound: `HashPlacement`, `SetBoundsEntries`, `LockedOnlyAfterError`, `FreedEntriesStay`, `WedgedForever`, `ErrorEndsGrowth`, and `CallReturns` |
| `MCHashmapAnswers` | `ResizeKeepsAnswers`: no step of a resize changes what a search finds, unless a list node was lost or a value is NULL; `DamageIsConfined`: what else changes it happens in a call on the same bucket, and how |
| `MCHashmapWriteOnce` | `ImplementsMap`, the refinement; `SetIsElementCount`, `HealthyLoad` |
| `MCRingBuffer` | `ImplementsFifo`, the refinement; `SizeIsDistance`, `CountShortOnlyWhenDrained` |
| `MCLinkedList` | `ImplementsChain`, the refinement; `LenCountsNodes` whatever is called, `MemoryInOrder` and `GnatFindsNode` until a call at the list's end |
| `MCManagedBuffer` | `CountIsLeases`, `WriterIsAlone`, `StaleByWritesOnly`, `FreeAnswer`, `LockedForGood` |
| `MCUtf8Check` | `CompletedIsAccepted`, `AnswerOfFirstError`, and `Returns`: which buffers are accepted, and which are never answered |
| `MCSipKey` | `KeyDeterminesSeed` |
| `MCGuest` | `LookUpsFind`, `FirstNodeAddedTwice`, `LeftAtTheEnd`, `StoresOnce`, and `MainEnds` |
| `MCHashmapUnset` | violated: `UnsetRemovesItsKeyOnly` |
| `MCRingBufferOverread` | violated: `AcceptedWriteFits` |
| `MCUtf8Answer` | violated: `TrueIsRight` |

Every module's run checks its `TypeOK` too.

### What the code does otherwise than it says

Where no property is named the run that is named violates what the code says of itself;
the other entries name a property that holds and states what the code does instead.

- **`hashmap_unset` removes the wrong key** (hashmap.c:481, violated run `MCHashmapUnset`). A bucket with one
  entry is cleared without a comparison: removing a key that is not in the map
  removes another key of the same index and returns its value.
- **`hashmap_unset` does not remove from a list** (hashmap.c:186, `FreedEntriesStay`).
  hashmap.h:174 has "Remove a value from the hashmap". In a bucket with a list the value is
  freed and the node *before* it is unlinked, or none. The freed entry stays for good: later
  searches read it, a growth cannot get past it, `hmap_free` frees it again.
- **One error ends growth** (hashmap.c:316, `ErrorEndsGrowth`). `last_error_code`
  is never cleared, and `hmap_resize` takes any recorded error for one of its own:
  after a missed `hmap_get` or a refused `hmap_set`, the next growth backs off and
  leaves the map locked, for good (`WedgedForever`).
- **An update in a crowded bucket is not seen** (hashmap.c:430, `DamageIsConfined`).
  `hmap_set` appends behind the old entry, whatever `allow_update` says.
- **`rb_read` returns one less** (ringbuffer.c:63, `CountShortOnlyWhenDrained`) when
  it drains the ring, and only then.
- **`rb_read` past the contents** (ringbuffer.c:70, violated run `MCRingBufferOverread`) makes `size` wrap; `rb_write`
  then accepts what does not fit.
- **The first append to an empty list** (linked_list.c:96, `FirstNodeAddedTwice`)
  links the node to itself and counts it twice. guest.c does this; its later appends,
  and its walk, work on what remains, unless all appends but one fail: then `main`
  does not end (`MainEnds`).
- **A refused insertion into an empty list** (linked_list.c:118, `MemoryInOrder`) frees
  the node and leaves `first` and `last` on it, with a length of 1. linked_list.c:95 says
  "Check if the list is initialized if not just initialize and stop here".
- **`ll_remove_node` removes the node before** (linked_list.c:148, `ImplementsChain`, by
  `Chain`'s `Drop`). linked_list.h:70-73 has "Removes the node at from self", by its index, and
  "@return The value of the removed node". The walk stops one node earlier, neither 0 nor 1
  removes anything, and the function is `void`. The map's removal above rests on this.
- **`ll_add_node` returns the length** (linked_list.c:109, `ImplementsChain`, by `Chain`'s
  `Insert`), where linked_list.h:65 has "@return 0 on success, -1 otherwise".
- **`buff_return_n` refuses what is out** (buffer.c:120, `LeftAtTheEnd`). buffer.h:78 has
  "True if the references were returned, false if there were not enough"; the test, an unsigned
  difference `<= 0`, fails exactly for the number of leases that is out. guest.c returns its
  two that way, so every line's buffer keeps them.
- **The UTF-8 answer goes stale** (buffer.c:159, `StaleByWritesOnly`). buffer.h:35-37 has "Check if
  the buffer is valid UTF-8"; the first answer is kept, also after a write.
- **`buff_free` with one lease out** (buffer.c:138, `FreeAnswer`) returns 0, as when it
  deallocates, and frees nothing.
- **Invalid UTF-8 is accepted** (buffer.c:19, violated run `MCUtf8Answer`) when its first error is in
  the first three bytes (`AnswerOfFirstError` says what the answer is, by the place of the first error).
- **A cut-off character is accepted** (buffer.c:19, `CompletedIsAccepted`) when the bytes behind the
  buffer complete it. buffer.h:37 has "True if the buffer is valid UTF-8, false otherwise".
- **The check need not return** (buffer.c:18, `Returns`). After an error behind index 3 it goes back
  by three; if that brings it to a character other than the first, it comes to the error again.

### Bounds, and why they are enough

- `MCHashmapFull` (488,253 states): capacities start at 1 or 2, three keys, two of which
  collide at capacities 1 and 2 and all three at 1. That gives empty, single and
  crowded buckets, lists of two and three, a list that splits at a growth and lists that
  merge when the client shrinks the table. With a threshold of 75, one call at capacity
  1 grows twice, nested. Values are one pointer and NULL; the bound on buckets, 2, is below
  the third capacity.
- `MCHashmapAnswers` (907,012 states): two values and NULL, since a look-up must tell entries
  apart; a threshold of 100 lets a list with a key stored twice form before a growth
  moves it; the client resizes to 1 and to 4.
- `MaxSet`, 3, stops the stores of both: `set` is the only counter without a bound of its own.
- `MCHashmapWriteOnce` (51,890 states): four keys, two of them together up to
  capacity 4, growth from 1 to 8 by both callbacks and by the client.
- `MCRingBuffer`: capacities 1 to 3, all contents, reads and writes up to 4, which is one
  more than the largest ring. `SizeMod` is 8 for 2^64: larger than every capacity, as there.
- `MCLinkedList` (393,848 states): four nodes, positions up to 5, one past the longest list; lists
  of no node and of one to start with.
- `MCManagedBuffer` (943 states): four readers and three unmatched counts under a modulus of 8,
  so that the counter wraps below 0 and never comes round.
- `MCUtf8Check` (241,056 states): buffers up to five bytes, which have an error at, before and
  after index 3, and characters of every length; three bytes behind them; size_t modulo 16.
- `MCSipKey` (524,288 states): bytes of two bits; every seed. The exclusive or acts on each bit by itself.
- `MCGuest` (46,116 states): three lines, initial capacities 1, 2 and 4 under a threshold of 75.
  guest.c's own numbers, 36 lines in 100 buckets, never reach its threshold; the small
  capacities take it through the growth its callback is there for.

`CHECK_DEADLOCK FALSE` is set where the system ends: `hmap_free`, `ll_free` and the
two frees of the buffer leave nothing to call, the loops return, `main` ends, and
`pc = "undefined"` allows no step.

### Fairness

- `CallReturns` assumes weak fairness of `Running`, the steps of a call that has
  begun: the program is one thread, and a call that runs keeps running. Nothing is
  assumed of the client, which may never call again.
- `Returns` assumes weak fairness of the loop's step, and `MainEnds` of `main`'s: neither
  waits for anything. The second half of `Returns`, that some buffers get no answer, needs none.

## Proofs

### The hash map, any client

For all keys, hash functions, capacities, thresholds, bounds and callbacks
that `ConstantsAssumption` of `Hashmap` allows (capacities are not 0, the threshold is not 0):

- `TypeCorrect`, `EntriesStayPlaced`, `SetNeverUndercounts`, `LockMeansError`: the invariants
  of `MCHashmapFull`;
- `NoWayOutOfTheLock`, `NoGrowthAfterError`, `FreedEntriesRemain`: its action properties.

The invariant is `IInv`. None of the four is inductive alone. A swap installs the
table under construction, so `NewTableOK` says of `new_buckets` what the invariants say
of `buckets`, and bounds its entries by the number of entries the loop has passed;
at the end of the loop that is all of them. `TypeOK` needs `SetBoundsEntries`, or
`set--` could leave Nat. `LockedOnlyAfterError` needs `LockOK`: a call that is about to
return with the lock has either swapped or recorded an error. `BucketShape` says that a bucket
with one entry has it alive and that lists do not become empty, which tells the branches of
the calls apart.

`FreedEntriesRemain` needs one thing more, `PassedLive`: a growth has read every entry it passed, so
none of them was freed, and when it comes to its swap no entry is. A store keeps what
a list has (`AppendKeepsFreed`). A removal stops at the first freed entry or at its key, so the node
it unlinks was alive, and the one it frees stays (`UnsetKeepsFreed`). The first half of
`HashmapProofs` has what the steps need of sequences, remainders and cardinalities: the
number of entries of a table after one bucket has changed, the table types of each
operator, what `ll_remove_node` leaves of a list.

What a look-up finds, in `HashmapAnswerProofs`, also for any client:

- `AnswersChangeInTheirBucket`: `DamageIsConfined`. It follows from `IInv`, call by call: a call
  changes one bucket, and an appended entry is found only by a key with its digest
  that finds nothing before it in the list. What a conversion that failed half-way leaves comes
  with the error it records.
- `ResizeChangesNoAnswer`: `ResizeKeepsAnswers`, for any nesting of growths, under
  `DigestsTellHashes`: keys with the same digest have the same hash. The code compares
  digests and places by hashes. Were two keys with one digest to be in different buckets, a
  growth could bring them into one, and a search would find the other's value.
  The run's keys satisfy it.

The invariant of the second is `AnswersInv`: for each key, what a search of the new table
finds among the entries passed is the first of them with the key's digest, and
the entries yet to pass are behind them. A single step keeps it because all entries of one
digest come from one bucket, in the order of its chain, and are appended in that order
(`FoundAppended`, `SetValueChains`). At the end of the loop the new table gives every answer
of the old one; the swap then changes none. It is an invariant of the model
under the constants of `MCHashmapAnswers`.

### The hash map, storing each key once

- `LoadStaysHealthy`: `HealthyLoad`, if the client installs no callback that puts
  growing off. The invariant `HealthInv` holds between the growths only: while entries are being
  moved `load_factor` is the load that caused the growth.
- `SetCountsEntries`: `SetIsElementCount`, under `ExactClient`: no allocation fails, NULL
  is not stored, and keys with the same digest are the same key. Without each of
  them it is false.
- `MapImplemented`: `ImplementsMap`, under `ExactClient` and `Roomy`: the threshold is at least
  50, the client defers no growth, and it asks for no capacity that `MaxSet` entries would overload.
  `Roomy` keeps growths from nesting: the default callback, entered from a
  growth, finds the map locked and records that as an error, which the abstract map
  explains only by a miss. That doubling is enough for a table that was healthy before
  the store, `DoubledIsEnough`, is where 50 comes from: at capacity 1 and a lower threshold one entry
  overloads two buckets.

Both take a table for the set `Held` of the pairs of key and value it holds. `Exact` says
that no key is there twice. A store adds one pair, and so does each step of a rehash to
the table under construction, which holds the pairs of the entries passed (`MovedOK`); the
swap therefore changes the buckets and not the pairs. What a look-up answers
depends on the pairs alone (`AnswerIsHeld`), because of `HashPlacement`. The
abstract store is thus a function of `Held`, growing is a stutter, a store is `Put`.

### The rest

For the ring, for every set of bytes, capacity and modulus that `RingAssumption` allows
(capacities lie between 1 and the modulus), and for clients that fit their reads:

- `RingInvariant`, with `RingTypes`: `TypeOK /\ SizeIsDistance`, inductive together: `size` does
  not wrap because it is at most the capacity, a read of `size` bytes ends at the tail
  and not a round later because of the distance;
- `RingIsFifo`: every write is the queue's `Put` or `RefusePut`, every read its
  `Take`. The bytes a write stores are found again position by position, by the
  arithmetic of remainders at the top of the module;
- `CountShortOnDrain`.

For the list, for every finite set of nodes, any data and any calls:

- `ListIsTyped`, `LenIsTheCount`, `NoNodeIsLost` and `GnatIsSafe`: the invariants of `MCLinkedList`;
- `ListIsChain`: every call is `Chain`'s own.

`Node`, the walk from `first`, is a recursive function. The invariant `ListInv` therefore does not walk:
it says that there is a function from 0 to some k - 1 that names the nodes in their order (`IsChain`).
`WalkIsUnique` then shows, by a least index where two walks would differ, that `Node` is that function,
followed by NULLs. Each call is a change of the function, written down with what it does to
`next`: `ChainPrepended`, `ChainInserted`, `ChainRemoved`, `ChainCut`. After `last` has been
left behind the function may pass fewer nodes than are allocated (`strayed`). `AnyInv` is `ListInv`,
or the empty list (`EmptyInv`), or what the first addition to an empty list makes of it (`SpoiltInv`), from
which there is no step.

For the buffer, for every modulus and fewer readers and unmatched counts than that:

- `LeaseTypesHold`, `LeasesAreCounted`, with `WriterStaysAlone`: the lease invariants together with what
  relates `writer`, `lock` and the cache;
- `CacheOutlivesWrites`: `StaleByWritesOnly`, since the cache is true until a write lease is given;
- `FreeTellsTooLittle` and `LockIsForGood`: its action properties.

For the UTF-8 check, for every length and modulus: `IndexIsTyped`, `CutOffIsAccepted` (which is
`CompletedIsAccepted`), `EarlyErrorsPass`, and `NoAnswerForSome`, the safety half of `Returns`. The
invariant says that the index is on every walk of whole characters from 0, up to the first
error, and past the end after it has wrapped; and, where the walk comes back to one of its
characters, that it stays on the way round (`RoundAgain`).

For wire and the seeded hash, for every set of bytes: `WriteThenRead` (what was written is
read, and no other position changes, at every width and position), `ValHoldsBytes` and `KeysDiffer`.

For `main` of guest.c, for any number of lines, whichever allocations fail, any hash functions,
capacities and threshold. `GuestAssumption` says what main is: the lines are distinct and have
distinct digests, and nothing else is stored or looked up; malloc has a node for each line;
`ref_ct` counts past the four leases a buffer can get.

- `MainIsTyped`, `ListHoldsAppended`, `LeavesLeases`: the invariants of `MCGuest`;
- `MainStoresOnce` and `WalkFindsLines`: its action properties.

The invariant `GInv` has one part for each container and relates them:

- `ListInv`: a function c names the nodes in the order of the appended lines (`IsRow`), as `IsChain` does
  in `LinkedListProofs`, but with the link of a single node to itself; `NthAlongRow` shows that `Node` is c,
  then NULLs. While main walks, it is at some place q of the row (`IsWalk`).
- `BufferInv`, with `IsWalk`: the count of the followed buffer is 2 if its line is before place q, plus
  what the calls on the node at q have added. The walk ends when q is past the row, which gives
  `LeftAtTheEnd`. In a row of one node the walk passes the node again and again: it
  brings the count to 4 and back to 2 each time.
- `MapInv`: the keys of the map, also of the table a growth builds, are lines stored before the current
  one, none is freed or has the value NULL, and while no error is on record a search for each line
  stored finds it.

The steps of the map rest on `IInv` and on `AnswersInv`, which makes a growth keep what searches find; its
assumption `DigestsTellHashes` follows here from the lines' digests being distinct. That a line is not
in the map when it is stored comes from the keys being earlier lines, and that the node of the walk
holds a stored line from the list's history (`IsHistory`). The three containers meet in `GetFinds`.

### Only model-checked

`CallReturns`, `MainEnds` and the liveness half of `Returns`, because liveness is out of the prover's reach.

## Not modelled

- Of the map: key buffers' reference counts and what the map leaks of them; allocations
  whose result the code does not test; the undersized array of `hmap_new(0)` and the
  division by zero of `hmap_resize(0)`; `value_len`; messages and error callbacks.
- Of the list: the doubly linked node, which has a constructor and no user; what follows a write to a freed node.
- Of wire: `align`, a macro on bits that nothing calls.
- Of guest.c: what it prints, and a `buff_new` that fails, after which it goes on with NULL.
- Rings of capacity 0, by which the code takes remainders.
- The vendored hash functions: any function will do for the map, and any function of its key
  for `wrap_siphash`.
- `explicit_erase`, one loop that writes zeroes; `neon_info` and `ioutil.h`, which have no state.
- `kv_store`, which does not compile.

## Plan

Done: every part that keeps state or has control worth checking, with the composition of the three
containers in `Guest`.

Next: `Hashmap` with its keys as `ManagedBuffer`s: what a removal and a growth leak.
