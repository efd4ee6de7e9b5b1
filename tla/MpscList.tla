------------------------------ MODULE MpscList ------------------------------
(***************************************************************************)
(* may_queue::mpsc_list_v1 (src/may_queue/src/mpsc_list_v1.rs): the linked *)
(* list of the timer intervals.  Producers push and hold an Entry, which   *)
(* they drop or hand to the consumer to be removed.  A node is freed with  *)
(* the last of its two references, the list's and the entry's.             *)
(* may_queue::mpsc_list is the same list without entries.                  *)
(***************************************************************************)
EXTENDS Integers, Sequences, FiniteSets

CONSTANTS Producers, Pushes,   \* pushes each producer makes
          MaxPops,             \* calls of pop and pop_if
          Addr, None

VARIABLES pc,        \* of each producer
          cpc,       \* of the consumer
          mem, head, tail,
          reg,       \* each producer's node and the one before it
          requests,  \* entries handed over for removal
          freeing,   \* the node pop is about to release
          left, pops,
          order,     \* the values in the list in the order of the swaps
          out        \* what the last pop or remove returned

vars == <<pc, cpc, mem, head, tail, reg, requests, freeing, left, pops, order, out>>

Freed == [live |-> FALSE]
new(v, refs) == [live |-> TRUE, prev |-> None, next |-> None, value |-> v, link |-> TRUE, refs |-> refs]

\* the allocator hands out a freed address as soon as there is one
NewAddr == CHOOSE a \in Addr : ~mem[a].live /\ \A x \in Addr : ~mem[x].live => a <= x

\* one reference less, and the node with the last one
Release(m, a) == [m EXCEPT ![a] = IF @.refs = 1 THEN Freed ELSE [@ EXCEPT !.refs = @ - 1]]

Init ==
    /\ pc = [p \in Producers |-> "idle"] /\ cpc = "idle"
    /\ mem = [x \in Addr |-> IF x = 1 THEN [new(None, 1) EXCEPT !.link = FALSE] ELSE Freed]
    /\ head = 1 /\ tail = 1
    /\ reg = [p \in Producers |-> [node |-> None, prev |-> None]]
    /\ requests = {} /\ freeing = None
    /\ left = [p \in Producers |-> Pushes] /\ pops = MaxPops
    /\ order = <<>> /\ out = <<>>

Step(p, from, to) == pc[p] = from /\ pc' = [pc EXCEPT ![p] = to]

\* the swap of head, and the link from the node before
push(p) ==
    \/ /\ left[p] > 0 /\ Step(p, "idle", "link")
       /\ mem' = [mem EXCEPT ![NewAddr] = new(<<p, left[p]>>, 2)]
       /\ reg' = [reg EXCEPT ![p] = [node |-> NewAddr, prev |-> head]]
       /\ head' = NewAddr /\ order' = Append(order, <<p, left[p]>>)
       /\ left' = [left EXCEPT ![p] = @ - 1]
       /\ UNCHANGED <<cpc, tail, requests, freeing, pops, out>>
    \/ /\ Step(p, "link", "held")
       /\ mem' = [mem EXCEPT ![reg[p].node].prev = reg[p].prev, ![reg[p].prev].next = reg[p].node]
       /\ UNCHANGED <<cpc, head, tail, reg, requests, freeing, left, pops, order, out>>

\* the entry is dropped
entry_drop(p) ==
    /\ Step(p, "held", "idle")
    /\ mem' = Release(mem, reg[p].node)
    /\ reg' = [reg EXCEPT ![p].node = None]
    /\ UNCHANGED <<cpc, head, tail, requests, freeing, left, pops, order, out>>

\* the entry, if it is still linked, is handed to the consumer
is_link(p) ==
    /\ Step(p, "held", "idle") /\ mem[reg[p].node].link
    /\ requests' = requests \cup {reg[p].node}
    /\ reg' = [reg EXCEPT ![p].node = None]
    /\ UNCHANGED <<cpc, mem, head, tail, freeing, left, pops, order, out>>

\* the list is not empty: its first node may still have to be linked
pop_call ==
    /\ cpc = "idle" /\ pops > 0 /\ pops' = pops - 1
    /\ IF head = tail THEN UNCHANGED <<cpc, mem>>
       ELSE \/ cpc' = "pop" /\ mem' = [mem EXCEPT ![tail].link = FALSE]
            \/ cpc' = "pop_if" /\ UNCHANGED mem
    /\ UNCHANGED <<pc, head, tail, reg, requests, freeing, left, order, out>>

\* the next node becomes the stub: its value goes out, the old stub is released;
\* pop_if looks at the value first
pop ==
    \/ /\ cpc = "pop" /\ mem[tail].next # None /\ cpc' = "release"
       /\ LET next == mem[tail].next
          IN  /\ mem' = [mem EXCEPT ![next].prev = None, ![next].value = None]
              /\ out' = <<mem[next].value>> /\ tail' = next
              /\ order' = Tail(order)
       /\ freeing' = tail
       /\ UNCHANGED <<pc, head, reg, requests, left, pops>>
    \/ /\ cpc = "pop_if" /\ mem[tail].next # None /\ cpc' \in {"idle", "pop"}
       /\ mem' = IF cpc' = "pop" THEN [mem EXCEPT ![tail].link = FALSE] ELSE mem
       /\ UNCHANGED <<pc, head, tail, reg, requests, freeing, left, pops, order, out>>
    \/ /\ cpc = "release" /\ cpc' = "idle"
       /\ mem' = Release(mem, freeing) /\ freeing' = None
       /\ UNCHANGED <<pc, head, tail, reg, requests, left, pops, order, out>>

\* linked, not the stub, and not the last node, which a push may be about to link to
Removable(a) == mem[a].link /\ mem[a].prev # None /\ mem[a].next # None

\* Entry::remove, by the consumer only; the entry goes with it
remove(a) ==
    /\ cpc = "idle" /\ a \in requests
    /\ requests' = requests \ {a}
    /\ IF Removable(a)
       THEN LET prev == mem[a].prev
                next == mem[a].next
            IN  /\ mem' = Release(Release([x \in Addr |->
                       CASE x = prev -> [mem[x] EXCEPT !.next = next]
                         [] x = next -> [mem[x] EXCEPT !.prev = prev]
                         [] x = a -> [mem[x] EXCEPT !.link = FALSE, !.value = None]
                         [] OTHER -> mem[x]], a), a)
                /\ out' = <<mem[a].value>>
                /\ order' = SelectSeq(order, LAMBDA v : v # mem[a].value)
       ELSE mem' = Release(mem, a) /\ UNCHANGED <<out, order>>
    /\ UNCHANGED <<pc, cpc, head, tail, reg, freeing, left, pops>>

AtRest == cpc = "idle" /\ requests = {} /\ \A p \in Producers : pc[p] = "idle"
Quiet == AtRest /\ UNCHANGED vars

Next ==
    \/ \E p \in Producers : push(p) \/ entry_drop(p) \/ is_link(p)
    \/ pop_call \/ pop \/ \E a \in Addr : remove(a)
    \/ Quiet

Spec == Init /\ [][Next]_vars

-----------------------------------------------------------------------------

A == INSTANCE AbstractQueue WITH Values <- Producers \X (1..Pushes), queue <- order

\* A value goes out once, by pop in the order of the pushes or by remove.
ListImplements == A!SpecRemove

\* Nobody follows a pointer to a freed node: not the push that links to the
\* node before it, not the holder of an entry, not the consumer.
NodesLive ==
    /\ mem[head].live /\ mem[tail].live
    /\ \A p \in Producers : pc[p] = "link" => mem[reg[p].prev].live
    /\ \A p \in Producers : pc[p] = "held" => mem[reg[p].node].live
    /\ \A a \in requests : mem[a].live
    /\ \A a \in Addr : mem[a].live /\ mem[a].link => (mem[a].next # None => mem[mem[a].next].live)
                                                    /\ (mem[a].prev # None => mem[mem[a].prev].live)

\* The asserts of pop: the stub has no value, the node after it has one.
StubEmpty ==
    cpc \in {"idle", "pop", "pop_if"} =>
        /\ mem[tail].value = None /\ mem[tail].refs > 0
        /\ mem[tail].next # None => mem[mem[tail].next].value # None

\* A list at rest with no entry held keeps one node for each value and the stub.
NoNodeLeaks ==
    AtRest => Cardinality({a \in Addr : mem[a].live}) = Len(order) + 1

\* Nodes are live while somebody can reach them and freed when nobody can.
ListSafe == NodesLive /\ StubEmpty /\ NoNodeLeaks
=============================================================================
