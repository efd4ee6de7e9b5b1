----------------------------- MODULE MpscProofs -----------------------------
(***************************************************************************)
(* Mpsc for any finite set of senders and any number of calls: recv        *)
(* reports Disconnected only when all is over, and the channel is dropped  *)
(* without a registered waiter.                                            *)
(***************************************************************************)
EXTENDS Mpsc, FiniteSetTheorems, TLAPS

Handles == Senders \cup {Rx}

\* what the proofs assume of the constants
Instance == IsFiniteSet(Senders) /\ FirstTx \in Senders /\ Rx \notin Senders

\* the sender handles that exist
Live == {s \in Senders : pc[s] \in {"idle", "push", "wake"}}

Types ==
  /\ pc \in [Handles -> {"unborn", "idle", "push", "wake", "drop_wake", "gone", "pop",
                         "load", "repop", "register", "park", "again", "deadline",
                         "clear", "clear_disconnected", "disconnected", "drop", "drain"}]
  /\ \A s \in Senders :
        pc[s] \in {"unborn", "idle", "push", "wake", "drop_wake", "gone"}
  /\ queue \in Seq(Senders)
  /\ stage \in 0..3

\* channels counts the handles
ChannelsCount == channels = Cardinality(Live)

\* the second look of try_recv comes after the end of the last sender, and
\* what it does not find will not come
NothingComes ==
  /\ pc[Rx] = "repop" => Live = {}
  /\ pc[Rx] \in {"clear_disconnected", "disconnected"} => Live = {} /\ queue = <<>>

\* a registration is taken back by its owner, or there is still a sender to
\* take it
WaiterTaken ==
  to_wake =>
    \/ Live # {}
    \/ \E s \in Senders : pc[s] = "drop_wake"
    \/ stage = 2 /\ pc[Rx] \in {"pop", "load", "repop", "clear"}
    \/ pc[Rx] = "clear_disconnected"

MpscInv == Types /\ ChannelsCount /\ NothingComes /\ WaiterTaken

-----------------------------------------------------------------------------

LEMMA LiveFinite ==
  ASSUME Instance
  PROVE  IsFiniteSet(Live) /\ Cardinality(Live) \in Nat /\ (Cardinality(Live) = 0 <=> Live = {})
<1>1. Live \in SUBSET Senders
  BY DEF Live
<1> QED
  BY <1>1, FS_Subset, FS_CardinalityType, FS_EmptySet DEF Instance

(* The steps of the receiver change neither the senders nor their count.   *)
LEMMA ReceiverKeeps ==
  ASSUME Instance, MpscInv,
         try_recv \/ recv \/ recv_call \/ recv_timeout \/ recv_canceled \/ drop_port
  PROVE  /\ Types' /\ Live' = Live /\ channels' = channels
         /\ \A s \in Senders : pc'[s] = pc[s]
<1> USE DEF Instance, MpscInv, Types, Handles, Live, Step, chan, rx
<1>1. CASE try_recv
  BY <1>1 DEF try_recv, Empty, Return
<1>2. CASE recv
  BY <1>2 DEF recv
<1>3. CASE recv_call
  BY <1>3 DEF recv_call
<1>4. CASE recv_timeout
  BY <1>4 DEF recv_timeout
<1>5. CASE recv_canceled
  BY <1>5 DEF recv_canceled
<1>6. CASE drop_port
  BY <1>6 DEF drop_port
<1> QED
  BY <1>1, <1>2, <1>3, <1>4, <1>5, <1>6

(* The receiver: it registers, looks again, and drops the registration if  *)
(* it does not park; and it parks only beside a sender.                    *)
LEMMA ReceiverStep ==
  ASSUME Instance, MpscInv,
         try_recv \/ recv \/ recv_call \/ recv_timeout \/ recv_canceled \/ drop_port
  PROVE  MpscInv'
<1>1. /\ Types' /\ Live' = Live /\ channels' = channels
      /\ \A s \in Senders : pc'[s] = pc[s]
  BY ReceiverKeeps
<1>2. ChannelsCount'
  BY <1>1 DEF MpscInv, ChannelsCount
<1>3. channels > 0 <=> Live # {}
  BY LiveFinite DEF MpscInv, ChannelsCount
<1>4. NothingComes' /\ WaiterTaken'
  <2> USE <1>1, <1>3
  <2> USE DEF Instance, MpscInv, Types, Handles, Step, chan, rx, NothingComes, WaiterTaken
  <2>1. CASE try_recv
    BY <2>1 DEF try_recv, Empty, Return
  <2>2. CASE recv
    BY <2>2 DEF recv
  <2>3. CASE recv_call
    BY <2>3 DEF recv_call
  <2>4. CASE recv_timeout
    BY <2>4 DEF recv_timeout
  <2>5. CASE recv_canceled
    BY <2>5 DEF recv_canceled
  <2>6. CASE drop_port
    BY <2>6 DEF drop_port
  <2> QED
    BY <2>1, <2>2, <2>3, <2>4, <2>5, <2>6
<1> QED
  BY <1>1, <1>2, <1>4 DEF MpscInv

(* The senders: the last one to go takes the waiter.                       *)
LEMMA SenderStep ==
  ASSUME Instance, MpscInv, NEW s \in Senders,
         clone_chan(s) \/ send(s) \/ drop_chan(s)
  PROVE  MpscInv'
<1> USE DEF Instance, MpscInv, Types, Handles, Step, chan, rx
<1>1. Types' /\ pc'[Rx] = pc[Rx] /\ stage' = stage
  BY DEF clone_chan, send, drop_chan, TakeWaiter
<1>2. CASE clone_chan(s)
  <2>1. Live # {} /\ s \notin Live /\ Live' = Live \cup {s}
    BY <1>2 DEF clone_chan, Live
  <2>2. ChannelsCount'
    BY <1>2, <2>1, LiveFinite, FS_AddElement DEF clone_chan, ChannelsCount
  <2>3. NothingComes' /\ WaiterTaken'
    BY <1>1, <2>1 DEF NothingComes, WaiterTaken
  <2> QED
    BY <1>1, <2>2, <2>3
<1>3. CASE send(s)
  <2>1. s \in Live /\ Live' = Live /\ channels' = channels
    BY <1>3 DEF send, Live
  <2>2. ChannelsCount' /\ NothingComes' /\ WaiterTaken'
    BY <1>1, <2>1 DEF ChannelsCount, NothingComes, WaiterTaken
  <2> QED
    BY <1>1, <2>2
<1>4. CASE Step(s, "idle", IF channels = 1 THEN "drop_wake" ELSE "gone") /\ drop_chan(s)
  <2>1. s \in Live /\ Live' = Live \ {s} /\ channels' = channels - 1 /\ queue' = queue
    BY <1>4 DEF drop_chan, Live
  <2>2. ChannelsCount'
    BY <2>1, LiveFinite, FS_RemoveElement DEF ChannelsCount
  <2>3. NothingComes'
    BY <1>1, <2>1 DEF NothingComes
  <2>4. CASE channels = 1
    <3>1. pc'[s] = "drop_wake"
      BY <1>4, <2>4
    <3> QED
      BY <1>1, <2>2, <2>3, <3>1 DEF WaiterTaken
  <2>5. CASE channels # 1
    <3>1. Cardinality(Live) \in Nat \ {1}
      BY <2>5, LiveFinite DEF ChannelsCount
    <3>2. Live # {s}
      BY <3>1, FS_Singleton
    <3>3. Live' # {}
      BY <2>1, <3>2
    <3> QED
      BY <1>1, <2>2, <2>3, <3>3 DEF WaiterTaken
  <2> QED
    BY <2>4, <2>5
<1>5. CASE Step(s, "drop_wake", "gone") /\ drop_chan(s)
  <2>1. Live' = Live /\ channels' = channels /\ queue' = queue /\ ~to_wake'
    BY <1>5 DEF drop_chan, TakeWaiter, Live
  <2>2. ChannelsCount' /\ NothingComes' /\ WaiterTaken'
    BY <1>1, <2>1 DEF ChannelsCount, NothingComes, WaiterTaken
  <2> QED
    BY <1>1, <2>2
<1> QED
  BY <1>2, <1>3, <1>4, <1>5 DEF drop_chan

(* Disconnected is the last word of recv and try_recv, and the debug_assert*)
(* of the drop of the InnerQueue holds, whichever handle goes last and     *)
(* wherever recv was canceled.                                             *)
THEOREM DisconnectSafe ==
  ASSUME Instance
  PROVE  Spec => [](DisconnectedLast /\ NoWaiterLeft)
<1>1. Init => MpscInv
  <2> SUFFICES ASSUME Init PROVE MpscInv
    OBVIOUS
  <2>1. Live = {FirstTx} /\ pc[Rx] = "idle"
    BY DEF Init, Instance, Live
  <2>2. Types
    BY DEF Init, Instance, Types, Handles
  <2>3. NothingComes /\ WaiterTaken
    BY <2>1 DEF NothingComes, WaiterTaken
  <2>4. ChannelsCount
    BY <2>1, FS_Singleton DEF Init, ChannelsCount
  <2> QED
    BY <2>1, <2>2, <2>3, <2>4 DEF MpscInv
<1>2. MpscInv /\ [Next]_vars => MpscInv'
  <2> SUFFICES ASSUME MpscInv, [Next]_vars PROVE MpscInv'
    OBVIOUS
  <2>1. CASE UNCHANGED vars
    BY <2>1 DEF vars, chan, rx, MpscInv, Types, ChannelsCount, NothingComes,
                WaiterTaken, Live
  <2> QED
    BY <2>1, ReceiverStep, SenderStep DEF Next, RunRx, Quiet
<1>3. MpscInv => DisconnectedLast /\ NoWaiterLeft
  <2> SUFFICES ASSUME MpscInv PROVE DisconnectedLast /\ NoWaiterLeft
    OBVIOUS
  <2>1. DisconnectedLast
    BY DEF MpscInv, Types, NothingComes, Live, DisconnectedLast
  <2>2. ASSUME pc[Rx] = "gone", \A s \in Senders : pc[s] \in {"unborn", "gone"}
        PROVE  ~to_wake /\ channels = 0
    <3>1. Live = {}
      BY <2>2 DEF Live
    <3> QED
      BY <2>2, <3>1, LiveFinite DEF MpscInv, WaiterTaken, ChannelsCount
  <2> QED
    BY <2>1, <2>2 DEF NoWaiterLeft
<1> QED
  BY <1>1, <1>2, <1>3, PTL DEF Spec
=============================================================================
