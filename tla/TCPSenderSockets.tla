-------------------------- MODULE TCPSenderSockets --------------------------
(***************************************************************************)
(* The descriptors of TCPSender (src/src/senders/tcp_sender.cpp): the      *)
(* listening socket of create_server(), the client socket of get_client()  *)
(* and their closes in initialize() and end_sender(), next to a file the  *)
(* application opens for a file packet (DATA_PTR_FILE_DESCRIPTOR).  All of *)
(* them are opened and closed by the caller thread, and the kernel hands  *)
(* out the lowest-numbered free descriptor for socket(), accept() and     *)
(* open().  The worker thread only uses descriptors, so it is left out,   *)
(* and each method is one step.  The application may hold several files. *)
(***************************************************************************)
EXTENDS Integers, FiniteSetsExt

CONSTANTS
  Fds,       \* the descriptor numbers the process may get
  NumAddrs   \* the results getaddrinfo() returns for the port

ASSUME /\ Fds \subseteq Nat /\ Fds # {}
       /\ NumAddrs \in Nat \ {0}

\* What an open descriptor is; "free" is a closed one.
Kinds == {"free", "server", "client", "file"}

\* The outcome of one iteration of create_server()'s loop (lines 163-178).
AddrOutcomes == {"socket_fails", "sockopt_fails", "bind_fails", "bound"}

VARIABLES
  fdOwner,         \* the process's descriptor table: what each number is
  server_sock_fd_, \* TCPSender members, -1 for none
  client_sock_fd_,
  appFiles,        \* the descriptors of the application's open files
  lastInit         \* history: result of the last initialize() since end_sender()

vars == <<fdOwner, server_sock_fd_, client_sock_fd_, appFiles, lastInit>>

\* socket(), accept() and open() return the lowest free descriptor, or -1
\* (EMFILE) when none is free.
NextFd(own) ==
  IF \E f \in Fds : own[f] = "free"
    THEN Min({f \in Fds : own[f] = "free"})
    ELSE -1

\* close(fd): the descriptor is free afterwards, whatever it was.
CloseFd(own, fd) == IF fd = -1 THEN own ELSE [own EXCEPT ![fd] = "free"]

-----------------------------------------------------------------------------
(* create_server(): loop over the addrinfo results, keeping in             *)
(* server_sock_fd_ whatever the last socket() returned.  The result is    *)
(* the table, server_sock_fd_, and whether a socket is bound.             *)

RECURSIVE CreateServerNoClose(_, _, _, _)
RECURSIVE CreateServer(_, _, _, _)

\* Mutant of CreateServer: a socket that fails to bind is not closed
\* before the next iteration overwrites server_sock_fd_.
CreateServerNoClose(own, srv, outs, i) ==
  IF i > NumAddrs
    THEN [own |-> own, srv |-> srv, bound |-> FALSE]
    ELSE LET fd == NextFd(own)
         IN  IF fd = -1 \/ outs[i] = "socket_fails"
               THEN CreateServerNoClose(own, -1, outs, i + 1)
               ELSE LET open == [own EXCEPT ![fd] = "server"]
                    IN  CASE outs[i] = "sockopt_fails" ->
                               [own |-> open, srv |-> fd, bound |-> FALSE]
                          [] outs[i] = "bind_fails" ->
                               CreateServerNoClose(open, fd, outs, i + 1)
                          [] OTHER -> [own |-> open, srv |-> fd, bound |-> TRUE]

\* socket() failing sets server_sock_fd_ to -1 and continues; setsockopt
\* failing returns false with the socket open; bind failing closes the
\* socket and continues, and server_sock_fd_ keeps the closed number; past
\* the last result (p == NULL) the loop has found nothing to bind.
CreateServer(own, srv, outs, i) ==
  IF i > NumAddrs
    THEN [own |-> own, srv |-> srv, bound |-> FALSE]
    ELSE LET fd == NextFd(own)
         IN  IF fd = -1 \/ outs[i] = "socket_fails"
               THEN CreateServer(own, -1, outs, i + 1)
               ELSE LET open == [own EXCEPT ![fd] = "server"]
                    IN  CASE outs[i] = "sockopt_fails" ->
                               [own |-> open, srv |-> fd, bound |-> FALSE]
                          [] outs[i] = "bind_fails" ->
                               CreateServer(CloseFd(open, fd), fd, outs, i + 1)
                          [] OTHER -> [own |-> open, srv |-> fd, bound |-> TRUE]

-----------------------------------------------------------------------------
(* end_sender(): after the worker has terminated, close server_sock_fd_   *)
(* and client_sock_fd_ when they are not -1, and set them to -1.           *)

EndSenderTable(own, srv, cli) == CloseFd(CloseFd(own, srv), cli)

\* Mutant of EndSender: the members are reset to 0 instead of -1.
EndSenderResetZero ==
  /\ fdOwner' = EndSenderTable(fdOwner, server_sock_fd_, client_sock_fd_)
  /\ server_sock_fd_' = 0
  /\ client_sock_fd_' = 0
  /\ lastInit' = "none"
  /\ UNCHANGED appFiles

EndSender ==
  /\ fdOwner' = EndSenderTable(fdOwner, server_sock_fd_, client_sock_fd_)
  /\ server_sock_fd_' = -1
  /\ client_sock_fd_' = -1
  /\ lastInit' = "none"
  /\ UNCHANGED appFiles

-----------------------------------------------------------------------------
(* initialize(): end_sender(), then create_server() (getaddrinfo, the loop, *)
(* listen), get_client() (accept), the close of the listening socket, and *)
(* the worker's creation, with the outcome of each call given.  A failing *)
(* accept() covers sin_size being passed uninitialized (line 202): the    *)
(* kernel may refuse it as a negative length.                              *)

\* get_client(): client_sock_fd_ = accept(), -1 when it fails.
GetClient(own, acc) == IF acc THEN NextFd(own) ELSE -1

InitializeWith(gai, outs, lis, acc, thr) ==
  LET own0 == EndSenderTable(fdOwner, server_sock_fd_, client_sock_fd_)
      cs   == IF gai THEN CreateServer(own0, -1, outs, 1)
                     ELSE [own |-> own0, srv |-> -1, bound |-> FALSE]
      cfd  == GetClient(cs.own, acc)
      conn == cs.bound /\ lis /\ cfd # -1
      acc1 == IF conn THEN [cs.own EXCEPT ![cfd] = "client"] ELSE cs.own
  IN  /\ fdOwner' = IF conn THEN CloseFd(acc1, cs.srv) ELSE acc1
      /\ server_sock_fd_' = IF conn THEN -1 ELSE cs.srv
      /\ client_sock_fd_' = IF conn THEN cfd ELSE -1
      /\ lastInit' = IF conn /\ thr THEN "ok" ELSE "failed"
      /\ UNCHANGED appFiles

Initialize ==
  \E gai \in BOOLEAN, outs \in [1..NumAddrs -> AddrOutcomes],
     lis \in BOOLEAN, acc \in BOOLEAN, thr \in BOOLEAN :
       InitializeWith(gai, outs, lis, acc, thr)

-----------------------------------------------------------------------------
(* The application: opens a file for a file packet and closes it again.   *)

AppOpen ==
  /\ NextFd(fdOwner) # -1
  /\ appFiles' = appFiles \cup {NextFd(fdOwner)}
  /\ fdOwner' = [fdOwner EXCEPT ![NextFd(fdOwner)] = "file"]
  /\ UNCHANGED <<server_sock_fd_, client_sock_fd_, lastInit>>

AppClose ==
  \E f \in appFiles :
    /\ fdOwner' = CloseFd(fdOwner, f)
    /\ appFiles' = appFiles \ {f}
    /\ UNCHANGED <<server_sock_fd_, client_sock_fd_, lastInit>>

\* The constructor: no descriptors, the process's own ones below Fds.
Init ==
  /\ fdOwner = [f \in Fds |-> "free"]
  /\ server_sock_fd_ = -1
  /\ client_sock_fd_ = -1
  /\ appFiles = {}
  /\ lastInit = "none"

\* initialize(), end_sender() (also what the destructor does), and the
\* application's file, in any order.
Next == Initialize \/ EndSender \/ AppOpen \/ AppClose

Spec == Init /\ [][Next]_vars

-----------------------------------------------------------------------------
(* Properties                                                              *)

SocketsTypeOK ==
  /\ fdOwner \in [Fds -> Kinds]
  /\ {server_sock_fd_, client_sock_fd_} \subseteq Fds \cup {-1}
  /\ appFiles \subseteq Fds
  /\ lastInit \in {"none", "ok", "failed"}

\* The sockets the sender has open.
SenderFds == {f \in Fds : fdOwner[f] \in {"server", "client"}}

\* No socket leaks (create_server's loop, lines 163-178, and get_client):
\* every socket the sender opened and has not closed is still held in
\* server_sock_fd_ or client_sock_fd_, so the next end_sender() closes it.
NoSocketLeak == SenderFds \subseteq {server_sock_fd_, client_sock_fd_}

\* The sender only closes its own descriptors (end_sender(), lines
\* 393-402): each of the application's files stays the application's file
\* until the application closes it.
AppFileStable ==
  [][\A f \in appFiles \cap appFiles' : fdOwner'[f] = "file"]_vars

====
