------------------------------ MODULE RtlQueue ------------------------------
(***************************************************************************)
(* The intrusive circular list of rtl/queue/rtl_queue.c: a queue is the    *)
(* sequence of the nodes that are linked after its head.  rtl_enqueue is   *)
(* Append, rtl_queue_first is Head.  The lists of rtl/list are the same    *)
(* but for the null links of a node that is in none.                       *)
(***************************************************************************)
EXTENDS Integers, SequencesExt

Linked(s, i) == \E k \in 1 .. Len(s) : s[k] = i

(* rtl_queue_remove: the node leaves the list it is linked into, whichever *)
(* list that is.                                                           *)
Unlink(s, i) ==
  IF Linked(s, i)
  THEN RemoveAt(s, CHOOSE k \in 1 .. Len(s) : s[k] = i)
  ELSE s

(* The same of all the nodes in S that are linked into the list, one after *)
(* the other.                                                              *)
UnlinkAll(s, S) ==
  LET rest[k \in 0 .. Len(s)] ==
        IF k = 0 THEN << >>
        ELSE IF s[k] \in S THEN rest[k - 1] ELSE Append(rest[k - 1], s[k])
  IN  rest[Len(s)]
=============================================================================
