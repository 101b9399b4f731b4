---------------------------- MODULE Descriptors ----------------------------
(***************************************************************************)
(* The file descriptors a process can get from socket() and accept(): what *)
(* the server's epoll, its SessionManager and the sockets key their state  *)
(* by.                                                                     *)
(***************************************************************************)
CONSTANT Fd
=============================================================================
