--------------------------- MODULE ManagedBuffer ---------------------------
(***************************************************************************)
(* The reference-counted byte buffer of src/containers/buffer.c: its       *)
(* counter of read leases, its lock for a write lease, and the cached      *)
(* result of the UTF-8 check.  Calls are single steps.  The program is     *)
(* sequential, but leases are held across calls, by code that knows        *)
(* nothing of the other leases.                                            *)
(*                                                                         *)
(* readers, writer, unmatched and accepted are not fields: they are what   *)
(* the clients hold and did, and what validate_utf8 (module Utf8Check)     *)
(* answers of the bytes.                                                   *)
(***************************************************************************)
EXTENDS Integers

CONSTANTS
  RefMod,       \* the modulus of ref_ct, 2^64 in the code
  MaxReaders,   \* bound: read leases held at once
  MaxUnmatched  \* bound: counts taken off without a read lease

ASSUME BufferAssumption ==
  /\ RefMod \in Nat
  /\ MaxReaders \in Nat \ {0}
  /\ MaxUnmatched \in Nat
  /\ MaxReaders + MaxUnmatched < RefMod

VARIABLES
  ref_ct, lock, needs_sync, is_utf8,  \* the fields of managed_buffer
  allocated,                          \* the struct is still allocated
  readers,                            \* read leases the clients hold
  writer,                             \* a client holds the write lease
  unmatched,                          \* history: counts taken off so far by
                                      \* callers that gave no read lease back
  accepted,                           \* validate_utf8 accepts the bytes
  ret                                 \* what the last call returned

leases == <<readers, writer, unmatched>>
vars   == <<ref_ct, lock, needs_sync, is_utf8, allocated, leases, accepted, ret>>
-----------------------------------------------------------------------------
buff_new ==
  /\ ref_ct = 0
  /\ lock = FALSE
  /\ needs_sync = FALSE
  /\ is_utf8 = 0
  /\ allocated = TRUE
  /\ readers = 0
  /\ writer = FALSE
  /\ unmatched = 0
  /\ accepted \in BOOLEAN
  /\ ret = "data"

buff_borrow ==
  /\ allocated
  /\ readers < MaxReaders
  /\ \/ /\ ~lock
        /\ ref_ct' = (ref_ct + 1) % RefMod
        /\ readers' = readers + 1
        /\ ret' = "data"
     \/ /\ lock
        /\ ret' = "NULL"
        /\ UNCHANGED <<ref_ct, readers>>
  /\ UNCHANGED <<lock, needs_sync, is_utf8, allocated, writer, unmatched, accepted>>

(* Fault: one read lease is taken for none.                                *)
unleased_or_one == ~lock /\ ref_ct <= 1

Unleased == ~lock /\ ref_ct = 0

buff_borrow_writable ==
  /\ allocated
  /\ \/ /\ Unleased
        /\ lock' = TRUE
        /\ needs_sync' = TRUE
        /\ writer' = TRUE
        /\ ret' = "data"
     \/ /\ ~Unleased
        /\ ret' = "NULL"
        /\ UNCHANGED <<lock, needs_sync, writer>>
  /\ UNCHANGED <<ref_ct, is_utf8, allocated, readers, unmatched, accepted>>

(* Fault: the write lease is the only one, so its return unlocks.          *)
unlocked_by_return == FALSE

(* buff_return assigns lock to itself: no call ever unlocks a buffer.      *)
LockAfterReturn == lock

(* mine = 1: a read lease is given back.  mine = 0: the write lease is,    *)
(* which was never counted.                                                *)
buff_return(mine) ==
  /\ allocated
  /\ IF mine = 1 THEN readers > 0 ELSE writer
  /\ ref_ct' = (ref_ct - 1) % RefMod
  /\ lock' = LockAfterReturn
  /\ readers' = readers - mine
  /\ unmatched' = unmatched + 1 - mine
  /\ writer' = (writer /\ mine = 1)
  /\ UNCHANGED <<needs_sync, is_utf8, allocated, accepted, ret>>

(* Fault: one lease is taken off whatever n is.                            *)
one_less(n) == (ref_ct - 1) % RefMod

CountWithout(n) == (ref_ct - n) % RefMod

(* A client offers n of its leases.  The unsigned ref_ct - n <= 0 holds    *)
(* only when it is 0: returning all of them is what is refused.            *)
buff_return_n(n) ==
  /\ allocated
  /\ n <= readers
  /\ \/ /\ CountWithout(n) = 0
        /\ ret' = "false"
        /\ UNCHANGED <<ref_ct, readers>>
     \/ /\ CountWithout(n) # 0
        /\ ref_ct' = CountWithout(n)
        /\ readers' = readers - n
        /\ ret' = "true"
  /\ UNCHANGED <<lock, needs_sync, is_utf8, allocated, writer, unmatched, accepted>>

(* Fault: the owner's attempt leaves the count alone.                      *)
attempt_not_counted == ref_ct

CountAfterAttempt == (ref_ct - 1) % RefMod

(* When the buffer is leased, buff_free counts one lease down and returns  *)
(* the new count, 0 too.  The caller gives a read lease of its own back by *)
(* it (mine = 1) or is the owner, who holds none (mine = 0).               *)
buff_free(mine) ==
  /\ allocated
  /\ mine <= readers
  /\ \/ /\ Unleased
        /\ allocated' = FALSE
        /\ ret' = "0"
        /\ UNCHANGED <<ref_ct, readers, unmatched>>
     \/ /\ ~Unleased
        /\ ref_ct' = CountAfterAttempt
        /\ readers' = readers - mine
        /\ unmatched' = unmatched + 1 - mine
        /\ ret' = IF ref_ct' = 0 THEN "0" ELSE "count"
        /\ UNCHANGED allocated
  /\ UNCHANGED <<lock, needs_sync, is_utf8, writer, accepted>>

(* Whatever is leased.  The clients' leases dangle from here on.           *)
buff_force_free ==
  /\ allocated
  /\ allocated' = FALSE
  /\ ref_ct' = 0
  /\ ret' = "0"
  /\ UNCHANGED <<lock, needs_sync, is_utf8, leases, accepted>>

(* Fault: the check is made again and its result added to the last one.    *)
checked_again == is_utf8 + (IF accepted THEN 1 ELSE 2)

(* Fault: what was not yet checked passes for checked.                     *)
unchecked_passes == IF is_utf8 = 0 THEN 1 ELSE is_utf8

(* 0: not checked yet, 1: valid, 2: not valid.                             *)
Checked == IF is_utf8 # 0 THEN is_utf8 ELSE IF accepted THEN 1 ELSE 2

buff_validate_utf8 ==
  /\ allocated
  /\ is_utf8' = Checked
  /\ ret' = IF is_utf8' = 1 THEN "true" ELSE "false"
  /\ UNCHANGED <<ref_ct, lock, needs_sync, allocated, leases, accepted>>

(* The holder of the write lease writes.                                   *)
WriteBytes ==
  /\ allocated
  /\ writer
  /\ accepted' \in BOOLEAN
  /\ UNCHANGED <<ref_ct, lock, needs_sync, is_utf8, allocated, leases, ret>>
-----------------------------------------------------------------------------
(* Clients return what they hold, and the owner attempts destruction at    *)
(* any time, leased or not (buffer.h:106-112).                             *)
Next ==
  \/ buff_borrow
  \/ buff_borrow_writable
  \/ buff_return(1)
  \/ unmatched < MaxUnmatched /\ buff_return(0)
  \/ \E n \in 1..MaxReaders : buff_return_n(n)
  \/ buff_free(1)
  \/ unmatched < MaxUnmatched /\ buff_free(0)
  \/ buff_force_free
  \/ buff_validate_utf8
  \/ WriteBytes

Spec == buff_new /\ [][Next]_vars
-----------------------------------------------------------------------------
TypeOK ==
  /\ ref_ct \in 0..(RefMod - 1)
  /\ lock \in BOOLEAN
  /\ needs_sync \in BOOLEAN
  /\ is_utf8 \in 0..2
  /\ allocated \in BOOLEAN
  /\ readers \in 0..MaxReaders
  /\ writer \in BOOLEAN
  /\ unmatched \in 0..MaxUnmatched
  /\ accepted \in BOOLEAN
  /\ ret \in {"data", "NULL", "true", "false", "0", "count"}

(* Through every order of borrowing, returning and attempts at freeing the *)
(* counter is the number of read leases less the attempts and the returned *)
(* write leases, which were never counted up: two readers and two attempts *)
(* of the owner leave it at 0, and the next one deallocates under both.    *)
CountIsLeases ==
  allocated => ref_ct = (readers - unmatched) % RefMod

(* "the write-able reference MUST BE the only reference, this function     *)
(* will fail if ANY of the following is true: There is already ANY         *)
(* references to the buffer leased out" (buffer.h:55-57).  It is, unless   *)
(* an attempt at freeing has taken a reader's lease off the count.         *)
WriterIsAlone == lock => readers <= unmatched

(* The cached answer is not the one a check would give now.                *)
Stale == allocated /\ is_utf8 # 0 /\ ~((is_utf8 = 1) <=> accepted)

(* "Check if the buffer is valid UTF-8." "@return True if the buffer is    *)
(* valid UTF-8, false otherwise." (buffer.h:35-37).  After a write the     *)
(* answer may be the one of the bytes before it, since nothing clears the  *)
(* cache: only a write under the write lease makes it stale, only another  *)
(* one makes it true again, and a call answers wrongly exactly while it is *)
(* stale.                                                                  *)
StaleByWritesOnly ==
  /\ ~Stale
  /\ [][/\ allocated' /\ ~(Stale' <=> Stale) => WriteBytes /\ lock
        /\ buff_validate_utf8 => ((ret' = "true") <=> (accepted <=> ~Stale))]_vars

(* What buff_free tells its caller: 0 when it deallocates, and 0 as well   *)
(* when the count says one lease is out, which it takes off while the      *)
(* buffer stays.  "@return 0 if the string was deallocated successfully or *)
(* the refcount otherwise, check the result!" (buffer.h:111-112) cannot    *)
(* tell the two apart.                                                     *)
FreeAnswer ==
  [][\A mine \in {0, 1} : buff_free(mine) /\ ~lock =>
       /\ (ret' = "0") <=> (readers - unmatched \in {0, 1})
       /\ ~allocated' <=> (readers = unmatched)]_vars

(* Once leased for writing a buffer is locked for good: returning the      *)
(* lease does not unlock it, no borrow succeeds again, and no attempt at   *)
(* freeing it does, only buff_force_free.                                  *)
LockedForGood ==
  [][lock /\ allocated =>
       /\ lock'
       /\ ~allocated' => buff_force_free
       /\ buff_borrow \/ buff_borrow_writable => ret' = "NULL"]_vars
=============================================================================
