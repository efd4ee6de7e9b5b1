------------------------------ MODULE MpscQueue ------------------------------
(***************************************************************************)
(* may_queue::mpsc::Queue (src/may_queue/src/mpsc.rs): blocks of slots in  *)
(* a linked list that is always one block ahead of the tail.  Producers    *)
(* take a slot by a CAS on the tail word (block, id, lock bit); the one    *)
(* that takes the last slot of a block holds the lock until it has linked  *)
(* a further block.  The consumer frees a block one block later.           *)
(***************************************************************************)
EXTENDS Integers, Sequences, FiniteSets, TLC

CONSTANTS Producers, Consumer, Pushes,   \* pushes each producer makes
          MaxPops,                       \* calls of pop and bulk_pop
          BLOCK_SIZE, Addr,              \* slots of a block; addresses 1, 2, ...
          None

VARIABLES pc,
          mem,       \* the blocks: freed, or start, next and the ready values
          tail,      \* block, id and lock bit
          head,      \* index and block
          old_block,
          reg,       \* each producer's copy of tail; the consumer's push_index
          left,      \* calls left
          out,       \* what the last pop returned
          done, seen \* pushes returned, and those of them when pop was called

vars == <<pc, mem, tail, head, old_block, reg, left, out, done, seen>>

Freed == [live |-> FALSE]
BLOCK_MASK == BLOCK_SIZE - 1
Slots == 0..BLOCK_MASK
new_box(index) == [live |-> TRUE, start |-> index, next |-> None, data |-> [i \in Slots |-> None]]
Word(b, id, lock) == [block |-> b, id |-> id, lock |-> lock]

\* the allocator hands out a freed address as soon as there is one
NewAddr == CHOOSE a \in Addr : ~mem[a].live /\ \A x \in Addr : ~mem[x].live => a <= x

Init ==
    /\ pc = [p \in Producers \cup {Consumer} |-> "idle"]
    /\ mem = [x \in Addr |-> CASE x = 1 -> [new_box(0) EXCEPT !.next = 2]
                               [] x = 2 -> new_box(BLOCK_SIZE)
                               [] OTHER -> Freed]
    /\ tail = Word(1, 0, FALSE)
    /\ head = [index |-> 0, block |-> 1]
    /\ old_block = None
    /\ reg = [p \in Producers |-> tail] @@ (Consumer :> 0)
    /\ left = [p \in Producers |-> Pushes] @@ (Consumer :> MaxPops)
    /\ out = <<>> /\ done = 0 /\ seen = 0

Step(a, from, to) == pc[a] = from /\ pc' = [pc EXCEPT ![a] = to]

-----------------------------------------------------------------------------
(* push                                                                    *)

push(p) ==
    /\ left[p] > 0 /\ Step(p, "idle", "cas")
    /\ reg' = [reg EXCEPT ![p] = [tail EXCEPT !.lock = FALSE]]
    /\ left' = [left EXCEPT ![p] = @ - 1]
    /\ UNCHANGED <<mem, tail, head, old_block, out, done, seen>>

\* mutant of push_cas: a load and a store
push_store(p) ==
    /\ ~tail.lock /\ Step(p, "cas", "set")
    /\ tail' = IF reg[p].id < BLOCK_MASK THEN [reg[p] EXCEPT !.id = @ + 1] ELSE [reg[p] EXCEPT !.lock = TRUE]
    /\ UNCHANGED <<mem, head, old_block, reg, left, out, done, seen>>

\* the CAS takes a slot, the last one of a block with the lock; it may fail
push_cas(p) ==
    \/ /\ tail = reg[p] /\ Step(p, "cas", "set")
       /\ tail' = IF tail.id < BLOCK_MASK THEN [tail EXCEPT !.id = @ + 1] ELSE [tail EXCEPT !.lock = TRUE]
       /\ UNCHANGED <<mem, head, old_block, reg, left, out, done, seen>>
    \/ /\ tail # reg[p] /\ pc[p] = "cas"
       /\ reg' = [reg EXCEPT ![p] = [tail EXCEPT !.lock = FALSE]]
       /\ UNCHANGED <<pc, mem, tail, head, old_block, left, out, done, seen>>

Return(p) == done' = IF pc'[p] = "idle" THEN done + 1 ELSE done

set(p) ==
    /\ Step(p, "set", IF reg[p].id = BLOCK_MASK THEN "new_box" ELSE "idle") /\ Return(p)
    /\ mem' = [mem EXCEPT ![reg[p].block].data[reg[p].id] = <<p, left[p]>>]
    /\ UNCHANGED <<tail, head, old_block, reg, left, out, seen>>

\* the block after the next one is linked before the tail moves to the next one
push_block(p) ==
    LET block == reg[p].block
        next == mem[block].next
    IN
    /\ \/ /\ Step(p, "new_box", "link")
          /\ mem' = [mem EXCEPT ![NewAddr] = new_box(mem[block].start + 2 * BLOCK_SIZE)]
          /\ reg' = [reg EXCEPT ![p].id = NewAddr]
          /\ UNCHANGED tail
       \/ /\ Step(p, "link", "unlock") /\ next # None
          /\ mem' = [mem EXCEPT ![next].next = reg[p].id]
          /\ reg' = [reg EXCEPT ![p].block = next]
          /\ UNCHANGED tail
       \/ /\ Step(p, "unlock", "idle")
          /\ tail' = Word(block, 0, FALSE)
          /\ UNCHANGED <<mem, reg>>
    /\ Return(p)
    /\ UNCHANGED <<head, old_block, left, out, seen>>

-----------------------------------------------------------------------------
(* pop and bulk_pop                                                        *)

Value(i) == mem[head.block].data[i % BLOCK_SIZE]
BlockEnd == (head.index \div BLOCK_SIZE + 1) * BLOCK_SIZE
Ready(n) == \A i \in 0..n - 1 : Value(head.index + i) # None

\* n values of the head block
Commit(n) ==
    /\ out' = [i \in 1..n |-> Value(head.index + i - 1)]
    /\ head' = [head EXCEPT !.index = @ + n]
    /\ pc' = [pc EXCEPT ![Consumer] = IF head.index + n = BlockEnd THEN "swap" ELSE "idle"]
    /\ UNCHANGED <<mem, tail, old_block, reg, left, done, seen>>

pop_call ==
    /\ left[Consumer] > 0
    /\ Step(Consumer, "idle", "pop") \/ Step(Consumer, "idle", "bulk_pop")
    /\ left' = [left EXCEPT ![Consumer] = @ - 1]
    /\ seen' = done
    /\ UNCHANGED <<mem, tail, head, old_block, reg, out, done>>

\* the index the next push will have; a locked tail still names its last slot
push_index == mem[tail.block].start + tail.id

\* what has not been marked ready needs a look at the tail: the queue may be
\* empty, or a push may be about to set its value
pop ==
    \/ pc[Consumer] = "pop" /\ Ready(1) /\ Commit(1)
    \/ /\ ~Ready(1)
       /\ \/ Step(Consumer, "pop", IF head.index >= push_index THEN "none" ELSE "get")
          \/ Step(Consumer, "bulk_pop", IF head.index >= push_index THEN "none" ELSE "bulk_get")
       /\ reg' = [reg EXCEPT ![Consumer] = push_index]
       /\ UNCHANGED <<mem, tail, head, old_block, left, out, done, seen>>
    \/ pc[Consumer] = "get" /\ Ready(1) /\ Commit(1)
    \/ Step(Consumer, "none", "idle") /\ UNCHANGED <<mem, tail, head, old_block, reg, left, out, done, seen>>

\* the ready values of the head block, or those up to push_index
bulk_pop ==
    \/ pc[Consumer] = "bulk_pop" /\ \E n \in 1..BlockEnd - head.index : Ready(n) /\ Commit(n)
    \/ /\ pc[Consumer] = "bulk_get"
       /\ LET end == IF reg[Consumer] < BlockEnd THEN reg[Consumer] ELSE BlockEnd
          IN  Ready(end - head.index) /\ Commit(end - head.index)

\* mutant of swap_and_free_old_block: the block is freed as soon as it is read
free_block_now ==
    \/ /\ Step(Consumer, "swap", "idle") /\ mem[head.block].next # None
       /\ mem' = [mem EXCEPT ![head.block] = Freed]
       /\ head' = [head EXCEPT !.block = mem[head.block].next]
       /\ UNCHANGED <<tail, old_block, reg, left, out, done, seen>>

\* the block read to its end is kept until the next one is
swap_and_free_old_block ==
    /\ \/ /\ Step(Consumer, "swap", "wait_next")
          /\ old_block' = head.block
          /\ mem' = IF old_block = None THEN mem ELSE [mem EXCEPT ![old_block] = Freed]
          /\ UNCHANGED head
       \/ /\ mem[head.block].next # None /\ Step(Consumer, "wait_next", "idle")
          /\ head' = [head EXCEPT !.block = mem[head.block].next]
          /\ UNCHANGED <<mem, old_block>>
    /\ UNCHANGED <<tail, reg, left, out, done, seen>>

Quiet == (\A a \in DOMAIN pc : pc[a] = "idle") /\ UNCHANGED vars

Next ==
    \/ \E p \in Producers : push(p) \/ push_cas(p) \/ set(p) \/ push_block(p)
    \/ pop_call \/ pop \/ bulk_pop \/ swap_and_free_old_block
    \/ Quiet

Spec == Init /\ [][Next]_vars

-----------------------------------------------------------------------------

\* the value of slot i: set, or about to be set by the push that took the slot
BlockOf(i) == CHOOSE a \in Addr : mem[a].live /\ mem[a].start = (i \div BLOCK_SIZE) * BLOCK_SIZE
ValueOf(i) ==
    LET a == BlockOf(i)
        id == i % BLOCK_SIZE
    IN  IF mem[a].data[id] # None THEN mem[a].data[id]
        ELSE LET p == CHOOSE p \in Producers : pc[p] = "set" /\ reg[p] = Word(a, id, FALSE) IN <<p, left[p]>>
TailIndex == mem[tail.block].start + tail.id + (IF tail.lock THEN 1 ELSE 0)

A == INSTANCE AbstractQueue WITH Values <- Producers \X (0..Pushes - 1),
                                 queue <- [i \in 1..TailIndex - head.index |-> ValueOf(head.index + i - 1)]

\* The queue implements a FIFO queue: a push takes effect at its CAS, and what
\* pop reads from the slots is the head of the queue.
MpscImplements == A!Spec

\* No producer or consumer touches a block that has been freed: the push that
\* moves the tail still reads the block the consumer has read to its end.
BlocksLive ==
    /\ mem[head.block].live /\ mem[tail.block].live
    /\ \A p \in Producers : pc[p] \in {"set", "new_box", "link", "unlock"} => mem[reg[p].block].live
    /\ pc[Consumer] = "wait_next" => mem[head.block].live

\* pop() reports an empty queue only if every push that had returned when it
\* was called has been popped: a value behind a slower push is not missed.
EmptyMeansEmpty == pc[Consumer] = "none" => seen <= head.index

\* What Drop asserts of a queue at rest that has been popped empty, and the
\* only blocks it then finds: the head, its next and the old block.
DropReady ==
    (\A a \in DOMAIN pc : pc[a] = "idle") /\ head.index = TailIndex =>
        /\ tail = Word(head.block, head.index % BLOCK_SIZE, FALSE)
        /\ {a \in Addr : mem[a].live} = {head.block, mem[head.block].next} \cup ({old_block} \ {None})

\* Blocks are live while they are used and freed when they are not, and pop()
\* says empty only of an empty queue.
MpscSafe == BlocksLive /\ EmptyMeansEmpty /\ DropReady
=============================================================================
