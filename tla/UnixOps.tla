------------------------------ MODULE UnixOps -------------------------------
(* The io operations.  They differ in whether `subscribe` arms an io timer *)
(* and registers with the cancel data, in whether the system call uses up  *)
(* what made it succeed, and in whether `done` loops until it succeeds.    *)
Operation(timed, cancelable, takes) ==
  [timed |-> timed, cancelable |-> cancelable, takes |-> takes, loops |-> TRUE]

SocketRead(timed) == Operation(timed, TRUE, TRUE)
SocketPeek(timed) == Operation(timed, TRUE, FALSE)
SocketWrite(timed) == Operation(timed, FALSE, TRUE)
SocketWriteVectored(timed) == Operation(timed, FALSE, TRUE)
UdpRecvFrom(timed) == Operation(timed, TRUE, TRUE)
UdpSendTo(timed) == Operation(timed, FALSE, TRUE)
UnixRecvFrom(timed) == Operation(timed, TRUE, TRUE)
UnixSendTo(timed) == Operation(timed, FALSE, TRUE)
TcpListenerAccept == Operation(FALSE, TRUE, TRUE)
UnixListenerAccept == Operation(FALSE, TRUE, TRUE)
TcpStreamConnect(timed) == Operation(timed, TRUE, FALSE)
UnixStreamConnect == Operation(TRUE, TRUE, FALSE)
RawIoBlock == [timed |-> FALSE, cancelable |-> TRUE, takes |-> FALSE, loops |-> FALSE]

(* The calls of the socket types: each one resets the io flag (a connect   *)
(* has a new one), tries the system call once and suspends in the          *)
(* operation named here.                                                   *)
TcpStream(t) == {SocketPeek(t), SocketRead(t), SocketWrite(t), SocketWriteVectored(t)}
connect == {TcpStreamConnect(FALSE), TcpStreamConnect(TRUE)}
TcpListener == {TcpListenerAccept}
UdpSocket(t) == {UdpSendTo(t), UdpRecvFrom(t), SocketWrite(t), SocketRead(t)}
CoIo(t) == {SocketPeek(t), SocketRead(t), SocketWrite(t)}
UnixStream(t) == CoIo(t) \cup {UnixStreamConnect}
UnixListener == {UnixListenerAccept}
UnixDatagram(t) == {UnixRecvFrom(t), SocketRead(t), UnixSendTo(t), SocketWrite(t)}
AllCalls ==
  UNION {TcpStream(t) \cup UdpSocket(t) \cup UnixStream(t) \cup UnixDatagram(t)
           : t \in BOOLEAN}
    \cup connect \cup TcpListener \cup UnixListener
=============================================================================
