----------------------------- MODULE MCSockets -----------------------------
(* Two clients and two listeners, fewer descriptors than a busy process     *)
(* needs, and addresses that overlap.                                       *)
EXTENDS Sockets, TLC

MCFd == 0..1
MCQuad == {AnyAddress, LocalHost}
MCPort == {5555}

Interchangeable == Permutations(TcpClient) \cup Permutations(TcpListener)
=============================================================================
