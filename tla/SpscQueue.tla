------------------------------ MODULE SpscQueue ------------------------------
(***************************************************************************)
(* may_queue::spsc::Queue (src/may_queue/src/spsc.rs) in both builds: the  *)
(* consumer frees the blocks it has read, or, with inner_cache, leaves     *)
(* them to the producer, which reuses those between first and last_head.   *)
(* The indices count from 0 and are not followed to the end of their 64    *)
(* bits.                                                                   *)
(***************************************************************************)
EXTENDS Integers, Sequences, FiniteSets

CONSTANTS Pushes, MaxPops,
          BLOCK_SIZE, Addr, None

VARIABLES inner_cache,         \* the feature the crate is built with
          ppc, cpc,            \* of the producer and the consumer
          mem, head, tail,     \* a position has an index and a block
          first, last_head,
          seen,                \* push_index as the consumer has loaded it
          fresh,               \* the block the producer is linking
          left, pops, out

vars == <<inner_cache, ppc, cpc, mem, head, tail, first, last_head, seen, fresh, left, pops, out>>

Freed == [live |-> FALSE]
Block == [live |-> TRUE, next |-> None, data |-> [i \in 0..BLOCK_SIZE - 1 |-> None]]
NewAddr == CHOOSE a \in Addr : ~mem[a].live /\ \A x \in Addr : ~mem[x].live => a <= x
BlockEnd(i) == i % BLOCK_SIZE = 0

Init ==
    /\ inner_cache \in BOOLEAN
    /\ ppc = "idle" /\ cpc = "idle"
    /\ mem = [x \in Addr |-> IF x = 1 THEN Block ELSE Freed]
    /\ head = [index |-> 0, block |-> 1] /\ tail = head
    /\ first = 1 /\ last_head = 1
    /\ seen = 0 /\ fresh = None
    /\ left = Pushes /\ pops = MaxPops /\ out = <<>>

-----------------------------------------------------------------------------
(* The producer                                                            *)

\* with inner_cache the first block the consumer has left behind, else a new one
alloc_node ==
    LET lh == IF first # last_head THEN last_head ELSE head.block
    IN  IF inner_cache /\ first # lh
        THEN /\ fresh' = first /\ first' = mem[first].next
             /\ last_head' = lh
             /\ UNCHANGED mem
        ELSE /\ fresh' = NewAddr /\ mem' = [mem EXCEPT ![NewAddr] = Block]
             /\ last_head' = (IF inner_cache THEN lh ELSE last_head)
             /\ UNCHANGED first

\* the value, a further block if this one is full, then the index
push ==
    /\ \/ /\ ppc = "idle" /\ left > 0
          /\ ppc' = IF BlockEnd(tail.index + 1) THEN "alloc_node" ELSE "commit"
          /\ mem' = [mem EXCEPT ![tail.block].data[tail.index % BLOCK_SIZE] = left]
          /\ left' = left - 1
          /\ UNCHANGED <<tail, first, last_head, fresh>>
       \/ /\ ppc = "alloc_node" /\ ppc' = "link"
          /\ alloc_node
          /\ UNCHANGED <<tail, left>>
       \/ /\ ppc = "link" /\ ppc' = "commit"
          /\ mem' = [mem EXCEPT ![tail.block].next = fresh]
          /\ tail' = [tail EXCEPT !.block = fresh] /\ fresh' = None
          /\ UNCHANGED <<first, last_head, left>>
       \/ /\ ppc = "commit" /\ ppc' = "idle"
          /\ tail' = [tail EXCEPT !.index = @ + 1]
          /\ UNCHANGED <<mem, first, last_head, fresh, left>>
    /\ UNCHANGED <<inner_cache, cpc, head, seen, pops, out>>

-----------------------------------------------------------------------------
(* The consumer                                                            *)

\* bulk_end: the push index, or the end of the block if that comes first
bulk_end(start, end) ==
    LET block_end == ((start + BLOCK_SIZE) \div BLOCK_SIZE) * BLOCK_SIZE
    IN  IF end < block_end THEN end ELSE block_end

\* pop takes one value, bulk_pop those of the block; at its end the head moves
\* to the next block before the index does
pop ==
    /\ \/ /\ cpc = "idle" /\ pops > 0 /\ pops' = pops - 1
          /\ seen' = tail.index
          /\ cpc' \in IF head.index = tail.index THEN {"idle"} ELSE {"pop", "bulk_pop"}
          /\ UNCHANGED <<mem, head, out>>
       \/ /\ cpc \in {"pop", "bulk_pop"}
          /\ LET end == IF cpc = "pop" THEN head.index + 1 ELSE bulk_end(head.index, seen)
             IN  /\ out' = [i \in 1..end - head.index |->
                              mem[head.block].data[(head.index + i - 1) % BLOCK_SIZE]]
                 /\ seen' = end
                 /\ cpc' = IF BlockEnd(end) THEN "next" ELSE "commit"
          /\ UNCHANGED <<mem, head, pops>>
       \/ /\ cpc = "next" /\ cpc' = "commit"
          /\ head' = [head EXCEPT !.block = mem[head.block].next]
          /\ mem' = IF inner_cache THEN mem ELSE [mem EXCEPT ![head.block] = Freed]
          /\ UNCHANGED <<seen, pops, out>>
       \/ /\ cpc = "commit" /\ cpc' = "idle"
          /\ head' = [head EXCEPT !.index = seen]
          /\ UNCHANGED <<mem, seen, pops, out>>
    /\ UNCHANGED <<inner_cache, ppc, tail, first, last_head, fresh, left>>

Quiet == ppc = "idle" /\ cpc = "idle" /\ UNCHANGED vars

Next == push \/ pop \/ Quiet
-----------------------------------------------------------------------------

Spec == Init /\ [][Next]_vars

\* a pop takes effect when it has read, a push when it has stored the index
HeadIndex == IF cpc \in {"next", "commit"} THEN seen ELSE head.index
Contents ==
    LET at[n \in 0..Pushes] == IF n > 0 THEN mem[at[n - 1]].next
                               ELSE IF cpc = "next" THEN mem[head.block].next ELSE head.block
        pos(i) == (HeadIndex % BLOCK_SIZE) + i - 1
    IN  [i \in 1..tail.index - HeadIndex |-> mem[at[pos(i) \div BLOCK_SIZE]].data[pos(i) % BLOCK_SIZE]]

A == INSTANCE AbstractQueue WITH Values <- 1..Pushes, queue <- Contents

\* The queue implements a FIFO queue: what pop and bulk_pop take is what was
\* pushed first, while the producer links further blocks or reuses old ones.
SpscImplements == A!Spec

\* The blocks in use are live and different ones: what the producer reuses the
\* consumer has left.  At rest an empty queue is one block (Drop asserts it),
\* and nothing else is live but the blocks cached before it.
SpscBlocksLive ==
    /\ mem[head.block].live /\ mem[tail.block].live
    /\ fresh # None => fresh \notin {head.block, tail.block}
    /\ inner_cache /\ first # tail.block => mem[first].live
    /\ ppc = "idle" /\ cpc = "idle" /\ head.index = tail.index =>
        /\ head.block = tail.block
        /\ ~inner_cache => {a \in Addr : mem[a].live} = {head.block}
=============================================================================
