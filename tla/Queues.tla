------------------------------- MODULE Queues -------------------------------
(***************************************************************************)
(* The intrusive lists of the kernel (include/isix/prv/list.h) as          *)
(* sequences.  Every list of the kernel is one of three kinds: a FIFO      *)
(* (list_insert_end), a list kept sorted by a key (the wait lists, by      *)
(* priority; the time lists, by deadline), and the list of the mutexes a   *)
(* task owns (list_insert_first).  Elements are unlinked from anywhere     *)
(* (list_delete).  All operators are written without recursion, so that    *)
(* Scheduler_proofs can establish what they return.                        *)
(***************************************************************************)
EXTENDS SequencesExt

(***************************************************************************)
(* Rank of position i among the positions of s that hold a member of S.    *)
(***************************************************************************)
KeptUpTo(s, S, i) == Cardinality({j \in 1 .. i : s[j] \in S})

KeptLen(s, S) == KeptUpTo(s, S, Len(s))

KeptPos(s, S, n) == CHOOSE i \in 1 .. Len(s) : s[i] \in S /\ KeptUpTo(s, S, i) = n

(***************************************************************************)
(* The members of S in s, in the order of s: the effect of visiting a list *)
(* once and unlinking what is not in S.                                    *)
(***************************************************************************)
Keep(s, S) == [n \in 1 .. KeptLen(s, S) |-> s[KeptPos(s, S, n)]]

(***************************************************************************)
(* list_delete of every member of S.                                       *)
(***************************************************************************)
Without(s, S) == Keep(s, Range(s) \ S)

(***************************************************************************)
(* The position before the first element with a key strictly above key[x]: *)
(* the search of _isixp_add_to_prio_queue and add_task_to_waiting_list,    *)
(* which leaves elements of equal key in arrival order.                    *)
(***************************************************************************)
SortedPos(s, x, key) ==
  CHOOSE i \in 1 .. Len(s) + 1 :
    /\ \A j \in 1 .. i - 1 : key[s[j]] <= key[x]
    /\ i <= Len(s) => key[x] < key[s[i]]

(***************************************************************************)
(* list_insert_before that position.                                       *)
(***************************************************************************)
InsertSorted(s, x, key) == InsertAt(s, SortedPos(s, x, key), x)

(***************************************************************************)
(* list_insert_first: list.h links the new element AFTER the first one, so *)
(* the oldest element of the list stays at its head.                       *)
(***************************************************************************)
InsertFirst(s, x) == InsertAt(s, IF s = <<>> THEN 1 ELSE 2, x)

(***************************************************************************)
(* Every element of s at most once: an intrusive node is linked into one   *)
(* place.                                                                  *)
(***************************************************************************)
Distinct(s) == \A i, j \in DOMAIN s : s[i] = s[j] => i = j

SortedBy(s, key) == \A i, j \in DOMAIN s : i < j => key[s[i]] <= key[s[j]]
=============================================================================
