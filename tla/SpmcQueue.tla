------------------------------ MODULE SpmcQueue ------------------------------
(***************************************************************************)
(* may_queue::spmc (src/may_queue/src/spmc.rs): the run queue of a worker. *)
(* The owner pushes and pops; other workers steal a block's values at once *)
(* (bulk_pop).  The head is one word (block, id, lock bit) taken by CAS;   *)
(* a block is freed by whoever reads the last of its slots, and its        *)
(* address may come back while a thief still holds a copy of the head.     *)
(***************************************************************************)
EXTENDS Integers, FiniteSets

CONSTANTS Owner, Thieves, Pushes, Pops, Steals,   \* calls each of them makes
          BLOCK_SIZE, Addr, None

VARIABLES pc, mem, head, tail,
          reg,      \* the copies of head and tail, and the end of what is taken
          left,     \* pushes, local_pops and steals left
          taken     \* how often each value has been read

vars == <<pc, mem, head, tail, reg, left, taken>>

Actors == Thieves \cup {Owner}
BLOCK_MASK == BLOCK_SIZE - 1
Freed == [live |-> FALSE]
new(index) == [live |-> TRUE, start |-> index, used |-> BLOCK_SIZE, next |-> None,
               data |-> [i \in 0..BLOCK_MASK |-> None]]
Word(b, id, lock) == [block |-> b, id |-> id, lock |-> lock]
Unlocked(w) == [w EXCEPT !.lock = FALSE]
NewAddr == CHOOSE a \in Addr : ~mem[a].live /\ \A x \in Addr : ~mem[x].live => a <= x

Init ==
    /\ pc = [a \in Actors |-> "idle"]
    /\ mem = [x \in Addr |-> IF x = 1 THEN new(0) ELSE Freed]
    /\ head = Word(1, 0, FALSE)
    /\ tail = [index |-> 0, block |-> 1]
    /\ reg = [a \in Actors |-> [head |-> head, index |-> 0, block |-> 1, end |-> 0]]
    /\ left = [a \in Actors |-> IF a = Owner THEN Pops ELSE Steals]
    /\ taken = [v \in 1..Pushes |-> 0]

Step(a, from, to) == pc[a] = from /\ pc' = [pc EXCEPT ![a] = to]

-----------------------------------------------------------------------------
(* The owner's push: the value, a further block when this one is full, the *)
(* index.  The values are 1, 2, ... in the order of the pushes.            *)

push ==
    /\ \/ /\ tail.index < Pushes
          /\ Step(Owner, "idle", IF (tail.index + 1) % BLOCK_SIZE = 0 THEN "link" ELSE "commit")
          /\ mem' = [mem EXCEPT ![tail.block].data[tail.index % BLOCK_SIZE] = tail.index + 1]
          /\ UNCHANGED tail
       \/ /\ Step(Owner, "link", "commit")
          /\ mem' = [mem EXCEPT ![tail.block].next = NewAddr, ![NewAddr] = new(tail.index + 1)]
          /\ tail' = [tail EXCEPT !.block = NewAddr]
       \/ /\ Step(Owner, "commit", "idle")
          /\ tail' = [tail EXCEPT !.index = @ + 1]
          /\ UNCHANGED mem
    /\ UNCHANGED <<head, reg, left, taken>>

-----------------------------------------------------------------------------
(* local_pop, pop and bulk_pop                                             *)

\* the copies are loaded one after the other: head, tail.index, tail.block
load(a) ==
    /\ \/ /\ a = Owner /\ left[a] > 0 /\ Step(a, "idle", "check")
          /\ left' = [left EXCEPT ![a] = @ - 1]
          /\ reg' = [reg EXCEPT ![a] = [head |-> Unlocked(head), index |-> tail.index, block |-> tail.block, end |-> 0]]
       \/ /\ a # Owner /\ left[a] > 0 /\ Step(a, "idle", "index")
          /\ left' = [left EXCEPT ![a] = @ - 1]
          /\ reg' = [reg EXCEPT ![a].head = Unlocked(head)]
       \/ /\ Step(a, "index", "block")
          /\ reg' = [reg EXCEPT ![a].index = tail.index]
          /\ UNCHANGED left
       \/ /\ Step(a, "block", "check")
          /\ reg' = [reg EXCEPT ![a].block = tail.block]
          /\ UNCHANGED left
    /\ UNCHANGED <<mem, head, tail, taken>>

PushId(a) == reg[a].index % BLOCK_SIZE

\* the word a CAS leaves: the owner takes one slot, a thief what it saw of the
\* tail block; the end of a block is taken with the lock
NewId(a) ==
    IF a = Owner THEN (reg[a].head.id + 1) % BLOCK_SIZE
    ELSE IF reg[a].head.block = reg[a].block THEN PushId(a) ELSE 0
NewHead(a) ==
    IF NewId(a) = 0 THEN [reg[a].head EXCEPT !.lock = TRUE] ELSE [reg[a].head EXCEPT !.id = NewId(a)]

\* mutant of Drained: off by one
DrainedLate(a) == reg[a].head.block = reg[a].block /\ reg[a].head.id > PushId(a)

Drained(a) == reg[a].head.block = reg[a].block /\ reg[a].head.id >= PushId(a)

\* an empty queue, the CAS, or another round
take(a) ==
    /\ pc[a] = "check"
    /\ \/ /\ Drained(a)
          /\ Step(a, "check", "idle")
          /\ UNCHANGED <<head, reg>>
       \/ /\ ~Drained(a)
          /\ head = reg[a].head
          /\ Step(a, "check", IF NewId(a) = 0 THEN "locked" ELSE "wait")
          /\ head' = NewHead(a)
          /\ reg' = [reg EXCEPT ![a].end = NewId(a)]
       \/ /\ ~Drained(a)
          /\ head # reg[a].head
          /\ Step(a, "check", IF a = Owner THEN "check" ELSE "index")
          /\ reg' = [reg EXCEPT ![a].head = Unlocked(head)]
          /\ UNCHANGED head
    /\ UNCHANGED <<mem, tail, left, taken>>

Least(x, y) == IF x < y THEN x ELSE y

\* with the lock: as far as the tail is by now, or the head as it was
locked(a) ==
    LET h == reg[a].head
        start == mem[h.block].start
        end == IF a = Owner THEN start + BLOCK_SIZE ELSE Least(start + BLOCK_SIZE, tail.index)
    IN
    /\ pc[a] = "locked"
    /\ IF start + h.id >= tail.index
       THEN Step(a, "locked", "idle") /\ head' = h /\ UNCHANGED reg
       ELSE /\ Step(a, "locked", "read")
            /\ head' = IF end % BLOCK_SIZE = 0 THEN Word(mem[h.block].next, 0, FALSE)
                                               ELSE Word(h.block, end % BLOCK_SIZE, FALSE)
            /\ reg' = [reg EXCEPT ![a].end = end - start]
    /\ UNCHANGED <<mem, tail, left, taken>>

\* the values taken must have been pushed
wait(a) ==
    /\ pc[a] = "wait" /\ mem[reg[a].head.block].start + reg[a].end <= tail.index
    /\ Step(a, "wait", "read")
    /\ UNCHANGED <<mem, head, tail, reg, left, taken>>

Values(a) == {mem[reg[a].head.block].data[i] : i \in reg[a].head.id..reg[a].end - 1}
Count(vals) == [v \in DOMAIN taken |-> IF v \in vals THEN taken[v] + 1 ELSE taken[v]]

\* the block is freed by the one who reads the last of its slots to be read
mark_slots_read(block, n, end) == IF block.used = n THEN Freed ELSE [block EXCEPT !.used = @ - n]

read(a) ==
    LET h == reg[a].head IN
    /\ Step(a, "read", "idle")
    /\ taken' = Count(Values(a))
    /\ mem' = [mem EXCEPT ![h.block] = mark_slots_read(@, reg[a].end - h.id, reg[a].end)]
    /\ UNCHANGED <<head, tail, reg, left>>

Pop(a) == load(a) \/ take(a) \/ locked(a) \/ wait(a) \/ read(a)

AtRest == \A a \in Actors : pc[a] = "idle"
Quiet == (\A a \in Actors : pc[a] \in {"idle", "wait"}) /\ UNCHANGED vars

Next == push \/ (\E a \in Actors : Pop(a)) \/ Quiet

Spec == Init /\ [][Next]_vars

-----------------------------------------------------------------------------

\* No value is read twice, by the owner and a thief or by two thieves.
TakenOnce == \A v \in DOMAIN taken : taken[v] <= 1

\* A block is not touched after it has been freed.
SpmcBlocksLive ==
    /\ mem[head.block].live /\ mem[tail.block].live
    /\ \A a \in Actors : pc[a] \in {"locked", "wait", "read"} => mem[reg[a].head.block].live

\* What is read has been written: the slots taken lie before the tail.
ReadsWritten == \A a \in Actors : pc[a] = "read" => None \notin Values(a)

\* Nothing is lost: at rest every value pushed has been read or lies between
\* head and tail.
NothingLost ==
    AtRest => tail.index - (mem[head.block].start + head.id) = Cardinality({v \in 1..tail.index : taken[v] = 0})

\* The owner never finds the head at the tail after its CAS: the slot that
\* local_pop skips in that case is never skipped.
OwnerBehindTail == pc[Owner] = "wait" => mem[reg[Owner].head.block].start + reg[Owner].end <= tail.index

\* Every value pushed is read once, out of a live block, by the owner or by one
\* thief.
SpmcSafe == TakenOnce /\ SpmcBlocksLive /\ ReadsWritten /\ NothingLost /\ OwnerBehindTail
=============================================================================
