------------------------------- MODULE Guest -------------------------------
(***************************************************************************)
(* main of test_guest/guest.c, the repository's client: a hash map, a      *)
(* linked list and one managed buffer per line of text, used together.     *)
(* Every line is put into a buffer of its own, which is appended to the    *)
(* list, and is stored in the map; then the list is walked, and the bytes  *)
(* of each buffer are looked up in the map.                                *)
(*                                                                         *)
(* A line stands for its bytes (the key), for its address (the value) and  *)
(* for its buffer (the node's data).  The buffers are alike and apart from *)
(* each other, so one of them is followed, that of any line.               *)
(***************************************************************************)
EXTENDS HashmapWriteOnce

CONSTANTS
  Lines,      \* the array lines: distinct keys
  Nodes,      \* the addresses malloc may return for a node
  RefMod      \* the modulus of ref_ct

ASSUME GuestAssumption ==
  /\ Lines \in Seq(Keys)
  /\ Keys = ToSet(Lines) /\ Keys \subseteq Values
  /\ \A m, n \in DOMAIN Lines : m # n => ~SameKey(Lines[m], Lines[n])
  /\ "guest" \in Callbacks
  /\ IsFiniteSet(Nodes) /\ Cardinality(Nodes) >= Len(Lines)
  /\ NULL \notin Nodes \cup Keys
  /\ RefMod \in Nat /\ RefMod > 4

VARIABLES
  next, data, alloc, first, last, len, list_freed, list_ret, strayed,  \* ll
  ref_ct, lock, needs_sync, is_utf8, allocated,      \* the followed buffer,
  readers, writer, unmatched, accepted, lease,       \* as in ManagedBuffer
  at,                        \* the call main makes next
  i,                         \* the line the first loop is at
  node,                      \* the node the second loop is at
  followed,                  \* the line whose buffer is followed
  appended                   \* history: the lines that are in the list

list   == <<next, data, alloc, first, last, len, list_freed, list_ret, strayed>>
buffer == <<ref_ct, lock, needs_sync, is_utf8, allocated, readers, writer,
            unmatched, accepted, lease>>
gvars  == <<vars, list, buffer, at, i, node, followed, appended>>

List   == INSTANCE LinkedList WITH
            Data <- Keys, MaxPos <- 0, freed <- list_freed, ret <- list_ret
Buffer == INSTANCE ManagedBuffer WITH
            MaxReaders <- 4, MaxUnmatched <- 0, ret <- lease
-----------------------------------------------------------------------------
GuestInit ==
  /\ Init
  /\ \E d \in Keys : List!ll_new(NULL, d)
  /\ Buffer!buff_new
  /\ at = "configure"
  /\ i = 1
  /\ node = NULL
  /\ followed \in ToSet(Lines)
  /\ appended = << >>

Configure ==
  /\ at = "configure"
  /\ hmap_set_unhealthy_callback("guest")
  /\ at' = "append"
  /\ UNCHANGED <<list, buffer, i, node, followed, appended>>

(* ll_append_node(ll, buff_new(...)): what it returns is not looked at.    *)
AppendLine ==
  /\ at = "append"
  /\ pc = "idle"
  /\ \/ /\ \E n \in Nodes : List!ll_append_node(n, Lines[i])
        /\ appended' = Append(appended, Lines[i])
     \/ /\ MallocMayFail
        /\ List!AddFails
        /\ UNCHANGED appended
  /\ at' = "set"
  /\ UNCHANGED <<vars, buffer, i, node, followed>>

(* Fault: the first line is stored each time.                              *)
first_line == Lines[1]

Line == Lines[i]

(* The walk begins at the first node when the last line is stored.         *)
SetLine ==
  /\ at = "set"
  /\ hmap_set(Line, Line, FALSE)
  /\ i' = i + 1
  /\ \/ i < Len(Lines) /\ at' = "append" /\ UNCHANGED node
     \/ i = Len(Lines) /\ at' = "print" /\ node' = first
  /\ UNCHANGED <<list, buffer, followed, appended>>

(* A call on the buffer of the node, which is the followed one or not.     *)
OnBuffer(call) == IF data[node] = followed THEN call ELSE UNCHANGED buffer

(* Fault: the last node is taken for the end.                              *)
at_last == node = last

WalkEnded == node = NULL

PrintLine ==
  /\ at = "print"
  /\ pc = "idle"
  /\ ~WalkEnded
  /\ OnBuffer(Buffer!buff_borrow)
  /\ at' = "look"
  /\ UNCHANGED <<vars, list, i, node, followed, appended>>

LookUpLine ==
  /\ at = "look"
  /\ OnBuffer(Buffer!buff_borrow)
  /\ hmap_get(data[node])
  /\ at' = "return"
  /\ UNCHANGED <<list, i, node, followed, appended>>

(* Two leases at once; whether they are accepted is not looked at.         *)
ReturnLeases ==
  /\ at = "return"
  /\ OnBuffer(Buffer!buff_return_n(2))
  /\ node' = next[node]
  /\ at' = "print"
  /\ UNCHANGED <<vars, list, i, followed, appended>>

FreeList ==
  /\ at = "print"
  /\ pc = "idle"
  /\ WalkEnded
  /\ List!ll_free
  /\ at' = "free"
  /\ UNCHANGED <<vars, buffer, i, node, followed, appended>>

FreeMap ==
  /\ at = "free"
  /\ hmap_free
  /\ at' = "done"
  /\ UNCHANGED <<list, buffer, i, node, followed, appended>>

GuestNext ==
  \/ Configure
  \/ AppendLine
  \/ SetLine
  \/ Running /\ UNCHANGED <<list, buffer, at, i, node, followed, appended>>
  \/ PrintLine
  \/ LookUpLine
  \/ ReturnLeases
  \/ FreeList
  \/ FreeMap

(* The program runs: nothing main does waits for anything else.            *)
GuestSpec == GuestInit /\ [][GuestNext]_gvars /\ WF_gvars(GuestNext)
-----------------------------------------------------------------------------
(* The types of main's variables; the node the walk is at is allocated.    *)
GuestTypeOK ==
  /\ TypeOK
  /\ List!TypeOK
  /\ Buffer!TypeOK
  /\ at \in {"configure", "append", "set", "print", "look", "return", "free", "done"}
  /\ i \in 1..(Len(Lines) + 1)
  /\ node \in alloc \cup {NULL}
  /\ appended \in Seq(Keys)

(* The walk of the list looks up what the first loop stored, by way of     *)
(* buffers, however the map grew and chained: each line is found, unless   *)
(* an allocation failed on the way.                                        *)
LookUpsFind ==
  [][at = "look" /\ last_error_code = HMAP_ERROR_CODE_OK /\ ~lost
       => ret' = data[node]]_gvars

(* "Check if the list is initialized if not just initialize and stop here" *)
(* (linked_list.c:95): the code does not stop there.  The first node is    *)
(* counted twice, and linked to itself until the next append; from then on *)
(* the chain is the appended lines in order, and ends.                     *)
FirstNodeAddedTwice ==
  ~list_freed /\ appended # << >> =>
    /\ len = Len(appended) + 1
    /\ \A k \in DOMAIN appended : data[List!Node[k - 1]] = appended[k]
    /\ List!Node[Len(appended)] = IF Len(appended) = 1 THEN first ELSE NULL

(* What main leaves: the list's nodes and the map are freed.  But each     *)
(* buffer still has both its leases.  "True if the references were         *)
(* returned, false if there were not enough" (buffer.h:78): there are two, *)
(* and buff_return_n(buf, 2) refuses them.  Its test, an unsigned          *)
(* difference <= 0 (buffer.c:120), refuses exactly the number that is out. *)
(* A line that is not in the list was never leased.                        *)
LeftAtTheEnd ==
  at = "done" =>
    /\ alloc = {}
    /\ pc = "freed"
    /\ ref_ct = IF followed \in ToSet(appended) THEN 2 ELSE 0

(* main ends, unless all appends but one failed: the walk never leaves the *)
(* node that is linked to itself.                                          *)
MainEnds ==
  <>(at = "done") \/ <>[](Len(appended) = 1 /\ node = first)

(* main is a client as HashmapWriteOnce assumes: it stores no key twice.   *)
StoresOnce == [][WriteOnceNext \/ hmap_free]_vars
=============================================================================
