------------------------------- MODULE RtList -------------------------------
(***************************************************************************)
(* The doubly linked list of rtservice.h as the kernel uses it.  A list    *)
(* is the sequence of the threads linked into it, the list head left out:  *)
(* rt_list_insert_before(head, n) appends, rt_list_insert_after(head, n)   *)
(* puts n in front, and rt_list_remove(n) takes n out of whichever list    *)
(* it is linked into.                                                      *)
(***************************************************************************)
EXTENDS Naturals, Sequences, SequencesExt

\* rt_list_insert_before(&list, n): n becomes the last node.
rt_list_insert_before(list, n) == Append(list, n)

\* rt_list_insert_after(&list, n): n becomes the first node.
rt_list_insert_after(list, n) == <<n>> \o list

\* Mutant of rt_list_remove: the node stays linked.
rt_list_remove_Kept(list, n) == list

\* rt_list_remove(n), seen from one list: a list n is not linked into is
\* left alone, because a removed node is linked to itself.
rt_list_remove(list, n) ==
    IF n \in ToSet(list)
    THEN RemoveAt(list, CHOOSE i \in DOMAIN list : list[i] = n)
    ELSE list

rt_list_isempty(list) == list = <<>>

\* A node linked at most once into a list, as the pointers require.
LinkedOnce(list) == \A i, j \in DOMAIN list : list[i] = list[j] => i = j

\* The node linked in front of the first of the given positions, or last: the
\* loops of rt_ipc_list_suspend and rt_timer_start.
InsertBeforeFirst(list, positions, n) ==
    IF positions = {} THEN Append(list, n)
    ELSE InsertAt(list, CHOOSE i \in positions : \A j \in positions : i <= j, n)

\* A RT_IPC_FLAG_PRIO list: before the first thread of a strictly lower
\* priority (a larger number).
InsertByPriority(list, n, prio) ==
    InsertBeforeFirst(list, {i \in DOMAIN list : prio[n] < prio[list[i]]}, n)
=============================================================================
