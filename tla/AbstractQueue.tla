---------------------------- MODULE AbstractQueue ----------------------------
(***************************************************************************)
(* What the queues of may_queue promise: a FIFO queue, whose pop may take  *)
(* several values at once (bulk_pop), and in mpsc_list_v1 one from which a *)
(* value can be removed.  out is what the last pop or remove returned.     *)
(***************************************************************************)
EXTENDS Integers, Sequences

CONSTANT Values

VARIABLES queue, out

Init == queue = <<>> /\ out = <<>>

Push(v) == queue' = Append(queue, v) /\ out' = out

Pop(n) ==
    /\ out' = SubSeq(queue, 1, n)
    /\ queue' = SubSeq(queue, n + 1, Len(queue))

Next == (\E v \in Values : Push(v)) \/ (\E n \in 1..Len(queue) : Pop(n))

Remove(i) ==
    /\ out' = <<queue[i]>>
    /\ queue' = SubSeq(queue, 1, i - 1) \o SubSeq(queue, i + 1, Len(queue))

Spec == Init /\ [][Next]_<<queue, out>>
SpecRemove == Init /\ [][Next \/ \E i \in 1..Len(queue) : Remove(i)]_<<queue, out>>
=============================================================================
