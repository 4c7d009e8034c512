------------------------------- MODULE Chain -------------------------------
(***************************************************************************)
(* The sequence a linked_list_t stands for.  Hashmap keeps the list of a   *)
(* complex bucket as such a sequence: Insert at the end and Drop are its   *)
(* Append and its ll_remove_node.                                          *)
(***************************************************************************)
EXTENDS Integers, SequencesExt

CONSTANT Data

VARIABLES
  items,  \* the data of the nodes, in order
  ret     \* the result of the last ll_add_node

chainVars == <<items, ret>>

ChainInit ==
  /\ items \in {<< >>} \cup {<<d>> : d \in Data}
  /\ ret = 0

(* The node goes behind the first pos ones.  The result is not the "0 on   *)
(* success" of linked_list.h:65 but the new length.                        *)
Insert(d, pos) ==
  /\ items' = InsertAt(items, pos + 1, d)
  /\ ret' = Len(items')

(* A call that is refused leaves the sequence.                             *)
Refuse == ret' < 0 /\ UNCHANGED items

(* "Removes the node at from self", "@param at The index of the node to    *)
(* remove" (linked_list.h:70-72): by the indices of ll_gnat, from 0, it is *)
(* the node before that; the first node cannot be removed at all, and the  *)
(* last only by a call that leaves the list's last pointer on it.          *)
Drop(at) ==
  /\ 2 <= at /\ at < Len(items)
  /\ items' = RemoveAt(items, at)
  /\ UNCHANGED ret

ChainNext ==
  \/ \E d \in Data, pos \in 0..Len(items) : Insert(d, pos)
  \/ Refuse
  \/ \E at \in 2..Len(items) : Drop(at)

ChainSpec == ChainInit /\ [][ChainNext]_chainVars
=============================================================================
