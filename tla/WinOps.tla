------------------------------- MODULE WinOps -------------------------------
(* The io operations on Windows: whether `subscribe` arms a timer, and     *)
(* whether it registers with the cancel data, under a DelayDrop guard.     *)
Operation(timed, cancelable) == [timed |-> timed, cancelable |-> cancelable]

SocketRead(timed) == Operation(timed, TRUE)
SocketPeek(timed) == Operation(timed, TRUE)
SocketWrite(timed) == Operation(timed, FALSE)
TcpListenerAccept == Operation(FALSE, TRUE)
TcpStreamConnect(timed) == Operation(timed, TRUE)
UdpRecvFrom(timed) == Operation(timed, TRUE)
UdpSendTo(timed) == Operation(timed, FALSE)
PipeRead(timed) == Operation(timed, TRUE)
PipeWrite(timed) == Operation(timed, FALSE)

\* a CoIo reads and writes a pipe or file handle
CoIo(timed) == {PipeRead(timed), PipeWrite(timed)}

AllCalls ==
  UNION {CoIo(t) \cup {SocketRead(t), SocketPeek(t), SocketWrite(t), TcpStreamConnect(t),
                       UdpRecvFrom(t), UdpSendTo(t)} : t \in BOOLEAN}
    \cup {TcpListenerAccept}
=============================================================================
