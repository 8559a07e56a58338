------------------------------ MODULE TCPSender ------------------------------
(***************************************************************************)
(* The TCP sender of src/src/senders/tcp_sender.cpp and the handoff record *)
(* SenderWorkerData of src/includes/data_packets.h.                        *)
(*                                                                         *)
(* Two threads share the record: the caller ("main") runs initialize(),    *)
(* send(), end_sender() and get_error(); the worker runs                   *)
(* tcp_worker_function.  Each worker step below is one access to the       *)
(* record: a critical section under packets_mutex is one step, because     *)
(* the only other access that can fall inside it is a single read or       *)
(* write of an atomic flag by the other thread, which commutes with it.    *)
(* pthread_cond_wait is the worker state "waiting", left only by a         *)
(* pthread_cond_signal of the caller (spurious wake-ups are left out: the  *)
(* code re-checks its predicate, so they can only hide a lost wake-up).    *)
(*                                                                         *)
(* The caller's procedures are operators parameterised by program-counter *)
(* labels, so that RealTimeSystem can call them from its own loop.        *)
(***************************************************************************)
EXTENDS Naturals, Sequences, SequencesExt

CONSTANTS
  Buffers,        \* caller-owned DataPacketsList objects a send() may point to
  Payloads,       \* the packet lists a caller can build (sequences of Packet)
  PacketIds,      \* identities of payload regions, to tell bytes apart
  MaxSize,        \* largest data_size of a packet in the model
  SetupFailures,  \* setup error codes the worker's socket setup can hit
  SendCanFail,    \* whether send()/sendfile() may return a negative result
  InitCanFail,    \* whether bind/listen/accept/pthread_create may fail
  NULL            \* the null packets_list pointer

\* Packet kinds: DATA_PTR_MEMORY_LOCATION, DATA_PTR_FILE_DESCRIPTOR, and an
\* unsupported kind (an element of a malloc'ed DataPacketsList never written).
Kinds == {"mem", "file", "bad"}

\* A DataPacket.  avail is how many of its size bytes the source really
\* holds: for a file region that ends early, sendfile returns 0 at EOF.
Packet == [id: PacketIds, kind: Kinds, size: 0..MaxSize, avail: 0..MaxSize]

ASSUME PayloadsOK ==
  /\ Payloads \subseteq Seq(Packet)
  /\ \A p \in Payloads : \A i \in DOMAIN p :
       /\ p[i].avail <= p[i].size
       /\ p[i].kind = "mem" => p[i].avail = p[i].size
  /\ NULL \notin Buffers

\* enum TCP_SENDER_ERROR_CODES, tcp_sender.cpp lines 12-14.
CANT_CPU_AFFINITY       == 0
CANT_SOCKET_TIMEOUT     == 1
SENDING_ERROR           == 2
NOT_SUPPORTED_DATA_TYPE == 3
NO_ERROR                == 4
CANT_SOCKET_BUFFERS     == 5
ErrorCodes == 0..5

ASSUME SetupFailures \subseteq {CANT_CPU_AFFINITY, CANT_SOCKET_TIMEOUT, CANT_SOCKET_BUFFERS}

\* The messages TCPSender puts in its Error object, by cause.
SenderErrors == {"none", "not_initialized", "no_thread", "worker_error",
                 "in_progress", "connect_failed", "thread_failed"}

VARIABLES
  \* SenderWorkerData shared_data_
  packets_list, is_done, is_error, terminate_thread, thread_initialized,
  is_terminated_thread, error_code,
  \* TCPSender members
  initialized, sockOpen, serr,
  \* the contents of the caller's DataPacketsList objects
  mem,
  \* worker thread: program counter, data_to_be_sent, packet index i,
  \* remaining_data of the current packet
  wpc, data, pkt, remaining,
  \* caller thread program counter and the result of its last sender call
  mpc, sres,
  \* history: lists accepted by send() this connection, bytes on the socket,
  \* and how far the current worker got through its socket setup
  posted, wire, setupState

recordVars == <<packets_list, is_done, is_error, terminate_thread,
                thread_initialized, is_terminated_thread, error_code>>
senderVars == <<recordVars, initialized, sockOpen, serr, mem>>
workerVars == <<wpc, data, pkt, remaining>>
historyVars == <<posted, wire, setupState>>
\* Everything but the caller's program counter.
senderState == <<senderVars, workerVars, sres, historyVars>>
vars == <<senderState, mpc>>

-----------------------------------------------------------------------------
(* Helpers                                                                 *)

\* The bytes a packet list puts on the socket, in order.
Bytes(list) ==
  FlattenSeq([i \in DOMAIN list |-> [k \in 1..list[i].size |-> <<list[i].id, k>>]])

\* All bytes of a sequence of lists, in order.
AllBytes(lists) == FlattenSeq([i \in DOMAIN lists |-> Bytes(lists[i])])

SizeAt(d, i) == IF i \in DOMAIN d THEN d[i].size ELSE 0

\* pthread_cond_signal(&packets_cond): wakes the worker if it waits.
Signal == IF wpc = "waiting" THEN wpc' = "check" ELSE UNCHANGED wpc

\* END_THREAD_ERROR(flag, code): set is_error and error_code, unlock, and
\* let the AtomicValRAII set is_terminated_thread before pthread_exit.
Exit(flag, code) ==
  /\ is_error' = flag
  /\ error_code' = code
  /\ is_terminated_thread' = TRUE
  /\ wpc' = "dead"

-----------------------------------------------------------------------------
(* Worker thread: tcp_worker_function                                      *)

\* "I'm alive!": is_terminated_thread := false, thread_initialized := true.
WorkerStart ==
  /\ wpc = "start"
  /\ wpc' = "setup"
  /\ is_terminated_thread' = FALSE
  /\ thread_initialized' = TRUE
  /\ UNCHANGED <<packets_list, is_done, is_error, terminate_thread, error_code,
                 initialized, sockOpen, serr, mem, data, pkt, remaining,
                 mpc, sres, posted, wire, setupState>>

\* CPU affinity, SO_SNDTIMEO, SO_SNDBUF, SO_RCVBUF all succeed.
WorkerSetup ==
  /\ wpc = "setup"
  /\ wpc' = "loop"
  /\ setupState' = "ok"
  /\ UNCHANGED <<recordVars, initialized, sockOpen, serr, mem, data, pkt,
                 remaining, mpc, sres, posted, wire>>

\* The first of those calls that fails ends the thread with its code.
WorkerSetupFail ==
  /\ wpc = "setup"
  /\ \E c \in SetupFailures : Exit(TRUE, c)
  /\ setupState' = "failed"
  /\ UNCHANGED <<packets_list, is_done, terminate_thread, thread_initialized,
                 initialized, sockOpen, serr, mem, data, pkt, remaining,
                 mpc, sres, posted, wire>>

\* while(!shared_data->terminate_thread)
WorkerLoop ==
  /\ wpc = "loop"
  /\ IF terminate_thread
       THEN Exit(FALSE, NO_ERROR)
       ELSE /\ wpc' = "check"
            /\ UNCHANGED <<is_error, error_code, is_terminated_thread>>
  /\ UNCHANGED <<packets_list, is_done, terminate_thread, thread_initialized,
                 initialized, sockOpen, serr, mem, data, pkt, remaining,
                 mpc, sres, historyVars>>

\* Mutant of WorkerCheck: the list is copied but packets_list is not reset
\* to NULL (line 75 dropped).
WorkerCheckKeepsList ==
  /\ wpc = "check"
  /\ packets_list # NULL
  /\ data' = mem[packets_list]
  /\ pkt' = 1
  /\ remaining' = SizeAt(mem[packets_list], 1)
  /\ wpc' = "send"
  /\ UNCHANGED <<recordVars, initialized, sockOpen, serr, mem, mpc, sres,
                 historyVars>>

\* Mutant of WorkerCheck: is_done is raised as soon as the list is copied,
\* before it is sent.
WorkerCheckDoneEarly ==
  /\ wpc = "check"
  /\ packets_list # NULL
  /\ data' = mem[packets_list]
  /\ packets_list' = NULL
  /\ is_done' = TRUE
  /\ pkt' = 1
  /\ remaining' = SizeAt(mem[packets_list], 1)
  /\ wpc' = "send"
  /\ UNCHANGED <<is_error, terminate_thread, thread_initialized,
                 is_terminated_thread, error_code, initialized, sockOpen, serr,
                 mem, mpc, sres, historyVars>>

\* Under the lock: exit on terminate with no list, wait on the condition
\* while there is no list, else copy the list and clear the pointer.
WorkerCheck ==
  /\ wpc = "check"
  /\ \/ /\ packets_list = NULL
        /\ terminate_thread
        /\ Exit(FALSE, NO_ERROR)
        /\ UNCHANGED <<packets_list, data, pkt, remaining>>
     \/ /\ packets_list = NULL
        /\ ~terminate_thread
        /\ wpc' = "waiting"
        /\ UNCHANGED <<packets_list, is_error, error_code, is_terminated_thread,
                       data, pkt, remaining>>
     \/ /\ packets_list # NULL
        /\ data' = mem[packets_list]
        /\ packets_list' = NULL
        /\ pkt' = 1
        /\ remaining' = SizeAt(mem[packets_list], 1)
        /\ wpc' = "send"
        /\ UNCHANGED <<is_error, error_code, is_terminated_thread>>
  /\ UNCHANGED <<is_done, terminate_thread, thread_initialized, initialized,
                 sockOpen, serr, mem, mpc, sres, historyVars>>

\* Mutant of WorkerWrite: the byte count of a call is taken one too large,
\* so remaining_data can step past zero.
WorkerWriteOffByOne ==
  /\ wpc = "send"
  /\ pkt \in DOMAIN data
  /\ data[pkt].kind \in {"mem", "file"}
  /\ remaining > 0
  /\ \E n \in 1..(remaining + 1) :
       /\ wire' = wire \o [k \in 1..n |-> <<data[pkt].id, k>>]
       /\ remaining' = remaining - n
  /\ UNCHANGED <<recordVars, initialized, sockOpen, serr, mem, wpc, data, pkt,
                 mpc, sres, posted, setupState>>

\* One send()/sendfile() call on the current packet that returns n >= 0,
\* then the terminate check.  A call that can make no progress (sendfile
\* at the end of a file shorter than data_size returns 0) changes nothing
\* unless the terminate flag is set: the worker then spins in the loop.
WorkerWrite ==
  LET p    == data[pkt]
      done == p.size - remaining
      can  == p.avail - done
  IN
  /\ wpc = "send"
  /\ pkt \in DOMAIN data
  /\ p.kind \in {"mem", "file"}
  /\ remaining > 0
  /\ \E n \in (IF can = 0 THEN {0} ELSE 1..can) :
       /\ wire' = wire \o [k \in 1..n |-> <<p.id, done + k>>]
       /\ IF terminate_thread
            THEN /\ Exit(FALSE, NO_ERROR)
                 /\ UNCHANGED remaining
            ELSE /\ n > 0
                 /\ remaining' = remaining - n
                 /\ UNCHANGED <<wpc, is_error, error_code, is_terminated_thread>>
  /\ UNCHANGED <<packets_list, is_done, terminate_thread, thread_initialized,
                 initialized, sockOpen, serr, mem, data, pkt,
                 mpc, sres, posted, setupState>>

\* The call returns a negative result (peer gone, 1 s send timeout).
WorkerWriteFail ==
  /\ wpc = "send"
  /\ pkt \in DOMAIN data
  /\ data[pkt].kind \in {"mem", "file"}
  /\ remaining > 0
  /\ SendCanFail
  /\ Exit(TRUE, SENDING_ERROR)
  /\ UNCHANGED <<packets_list, is_done, terminate_thread, thread_initialized,
                 initialized, sockOpen, serr, mem, data, pkt, remaining,
                 mpc, sres, historyVars>>

\* Mutant of WorkerNextPacket: the end of the list goes back to the loop
\* without raising is_done (line 127 dropped).
WorkerNextPacketNoDone ==
  /\ wpc = "send"
  /\ pkt \notin DOMAIN data
  /\ wpc' = "loop"
  /\ UNCHANGED <<recordVars, initialized, sockOpen, serr, mem, data, pkt,
                 remaining, mpc, sres, historyVars>>

\* The for loop: a finished packet moves on to the next one, an
\* unsupported kind ends the thread, and after the last packet the list
\* is marked done.
WorkerNextPacket ==
  /\ wpc = "send"
  /\ \/ /\ pkt \notin DOMAIN data
        /\ is_done' = TRUE
        /\ wpc' = "loop"
        /\ UNCHANGED <<pkt, remaining, is_error, error_code, is_terminated_thread>>
     \/ /\ pkt \in DOMAIN data
        /\ data[pkt].kind = "bad"
        /\ Exit(TRUE, NOT_SUPPORTED_DATA_TYPE)
        /\ UNCHANGED <<is_done, pkt, remaining>>
     \/ /\ pkt \in DOMAIN data
        /\ data[pkt].kind # "bad"
        /\ remaining = 0
        /\ pkt' = pkt + 1
        /\ remaining' = SizeAt(data, pkt + 1)
        /\ UNCHANGED <<wpc, is_done, is_error, error_code, is_terminated_thread>>
  /\ UNCHANGED <<packets_list, terminate_thread, thread_initialized,
                 initialized, sockOpen, serr, mem, data, mpc, sres, historyVars>>

\* The worker's steps other than the failure outcomes of its system calls.
WorkerProgress == WorkerStart \/ WorkerSetup \/ WorkerLoop \/ WorkerCheck
                  \/ WorkerWrite \/ WorkerNextPacket

Worker == WorkerProgress \/ WorkerSetupFail \/ WorkerWriteFail

-----------------------------------------------------------------------------
(* Caller thread: TCPSender methods.  Each takes the label it runs from   *)
(* and the labels it continues at.                                         *)

\* end_sender(), first part: mark uninitialized; if a worker runs, raise
\* terminate_thread; otherwise close the sockets and return.
EndBegin(from, lockPc, donePc) ==
  /\ mpc = from
  /\ initialized' = FALSE
  /\ IF ~is_terminated_thread
       THEN /\ terminate_thread' = TRUE
            /\ mpc' = lockPc
            /\ UNCHANGED sockOpen
       ELSE /\ sockOpen' = FALSE
            /\ mpc' = donePc
            /\ UNCHANGED terminate_thread
  /\ UNCHANGED <<packets_list, is_done, is_error, thread_initialized,
                 is_terminated_thread, error_code, serr, mem, workerVars,
                 sres, historyVars>>

\* Mutant of EndLock: the condition is not signalled, so a worker waiting
\* on it never sees terminate_thread.
EndLockNoSignal(lockPc, waitPc) ==
  /\ mpc = lockPc
  /\ packets_list' = NULL
  /\ is_done' = FALSE
  /\ mpc' = waitPc
  /\ UNCHANGED <<is_error, terminate_thread, thread_initialized,
                 is_terminated_thread, error_code, initialized, sockOpen, serr,
                 mem, workerVars, sres, historyVars>>

\* end_sender(), under the lock: clear the list, is_done := false, signal.
EndLock(lockPc, waitPc) ==
  /\ mpc = lockPc
  /\ packets_list' = NULL
  /\ is_done' = FALSE
  /\ Signal
  /\ mpc' = waitPc
  /\ UNCHANGED <<is_error, terminate_thread, thread_initialized,
                 is_terminated_thread, error_code, initialized, sockOpen, serr,
                 mem, data, pkt, remaining, sres, historyVars>>

\* Mutant of EndWait: the sockets are closed without waiting for the
\* worker to report its termination.
EndWaitNoWait(waitPc, donePc) ==
  /\ mpc = waitPc
  /\ sockOpen' = FALSE
  /\ mpc' = donePc
  /\ UNCHANGED <<recordVars, initialized, serr, mem, workerVars, sres,
                 historyVars>>

\* end_sender(): the 50 ms polling loop until the worker reports
\* termination, then shutdown/close of the sockets.
EndWait(waitPc, donePc) ==
  /\ mpc = waitPc
  /\ is_terminated_thread
  /\ sockOpen' = FALSE
  /\ mpc' = donePc
  /\ UNCHANGED <<recordVars, initialized, serr, mem, workerVars, sres,
                 historyVars>>

\* initialize() after its end_sender(): reset the record, open the server,
\* accept one client, close the server and create the worker.  A failure of
\* bind/listen/accept leaves no client socket; a failure of the pthread_attr
\* calls or of pthread_create leaves the accepted client socket open.
InitReset(from, waitPc, failPc) ==
  /\ mpc = from
  /\ packets_list' = NULL
  /\ is_done' = TRUE
  /\ is_error' = FALSE
  /\ terminate_thread' = FALSE
  /\ thread_initialized' = FALSE
  /\ error_code' = 0
  /\ posted' = <<>>
  /\ wire' = <<>>
  /\ \/ /\ wpc' = "start"
        /\ setupState' = "pending"
        /\ sockOpen' = TRUE
        /\ mpc' = waitPc
        /\ UNCHANGED <<serr, sres>>
     \/ /\ InitCanFail
        /\ \E cause \in {"connect_failed", "thread_failed"} :
             /\ serr' = cause
             /\ sockOpen' = (cause = "thread_failed")
        /\ sres' = FALSE
        /\ mpc' = failPc
        /\ UNCHANGED <<wpc, setupState>>
  /\ UNCHANGED <<is_terminated_thread, initialized, mem, data, pkt, remaining>>

\* initialize(): the 5 ms polling loop until thread_initialized.
InitWait(waitPc, donePc) ==
  /\ mpc = waitPc
  /\ thread_initialized
  /\ initialized' = TRUE
  /\ sres' = TRUE
  /\ mpc' = donePc
  /\ UNCHANGED <<recordVars, sockOpen, serr, mem, workerVars, historyVars>>

\* Mutant of SendCheck: the is_done check of line 347 is dropped, so a
\* list can be posted while the previous one is still being sent.
SendCheckNoBusy(from, postPc, failPc) ==
  /\ mpc = from
  /\ LET cause == CASE ~initialized                 -> "not_initialized"
                    [] is_terminated_thread /\ ~is_error -> "no_thread"
                    [] is_terminated_thread         -> "worker_error"
                    [] OTHER                        -> "none"
     IN IF cause = "none"
          THEN /\ mpc' = postPc
               /\ UNCHANGED <<serr, sres>>
          ELSE /\ serr' = cause
               /\ sres' = FALSE
               /\ mpc' = failPc
  /\ UNCHANGED <<recordVars, initialized, sockOpen, mem, workerVars, historyVars>>

\* send(), the checks before the lock: not initialized, worker terminated
\* (reporting its error code), or a send still in progress.
SendCheck(from, postPc, failPc) ==
  /\ mpc = from
  /\ LET cause == CASE ~initialized                 -> "not_initialized"
                    [] is_terminated_thread /\ ~is_error -> "no_thread"
                    [] is_terminated_thread         -> "worker_error"
                    [] ~is_done                     -> "in_progress"
                    [] OTHER                        -> "none"
     IN IF cause = "none"
          THEN /\ mpc' = postPc
               /\ UNCHANGED <<serr, sres>>
          ELSE /\ serr' = cause
               /\ sres' = FALSE
               /\ mpc' = failPc
  /\ UNCHANGED <<recordVars, initialized, sockOpen, mem, workerVars, historyVars>>

\* send(), under the lock: publish the pointer to buffer b, is_done := false,
\* signal.  posted records the list the caller handed over.
SendPost(b, postPc, donePc) ==
  /\ mpc = postPc
  /\ packets_list' = b
  /\ is_done' = FALSE
  /\ Signal
  /\ posted' = Append(posted, mem[b])
  /\ sres' = TRUE
  /\ mpc' = donePc
  /\ UNCHANGED <<is_error, terminate_thread, thread_initialized,
                 is_terminated_thread, error_code, initialized, sockOpen, serr,
                 mem, data, pkt, remaining, wire, setupState>>

\* get_error(): drain the sticky error.
GetError(from) ==
  /\ mpc = from
  /\ serr # "none"
  /\ serr' = "none"
  /\ UNCHANGED <<recordVars, initialized, sockOpen, mem, workerVars, mpc, sres,
                 historyVars>>

\* The worker and the caller's blocking steps, for any caller.
SenderInit ==
  /\ packets_list = NULL
  /\ is_done = TRUE
  /\ is_error = FALSE
  /\ terminate_thread = FALSE
  /\ thread_initialized = FALSE
  /\ is_terminated_thread = TRUE
  /\ error_code = 0
  /\ initialized = FALSE
  /\ sockOpen = FALSE
  /\ serr = "none"
  /\ mem = [b \in Buffers |-> <<>>]
  /\ wpc = "none"
  /\ data = <<>>
  /\ pkt = 1
  /\ remaining = 0
  /\ sres = FALSE
  /\ posted = <<>>
  /\ wire = <<>>
  /\ setupState = "none"

-----------------------------------------------------------------------------
(* A caller driving the sender directly, as src/src/tests/tcp_sender_test  *)
(* does: it builds a list in one of its buffers once the previous send is *)
(* done, calls send() (which may be refused), initialize(), end_sender()  *)
(* and get_error() in any order.  MaxPosts bounds the sends accepted on   *)
(* one connection; initialize() starts a new connection and history.      *)

CONSTANT MaxPosts

\* The caller refills a buffer only when no send can still be reading it.
ClientFill ==
  /\ mpc = "client"
  /\ is_done \/ ~initialized
  /\ \E b \in Buffers, p \in Payloads : mem' = [mem EXCEPT ![b] = p]
  /\ UNCHANGED <<recordVars, initialized, sockOpen, serr, workerVars, mpc, sres,
                 historyVars>>

ClientSend ==
  \/ /\ Len(posted) < MaxPosts
     /\ SendCheck("client", "c_post", "client")
  \/ \E b \in Buffers : SendPost(b, "c_post", "client")

ClientInitialize ==
  \/ EndBegin("client", "i_lock", "i_reset")
  \/ EndLock("i_lock", "i_endwait")
  \/ EndWait("i_endwait", "i_reset")
  \/ InitReset("i_reset", "i_wait", "client")
  \/ InitWait("i_wait", "client")

ClientEnd ==
  \/ EndBegin("client", "e_lock", "client")
  \/ EndLock("e_lock", "e_wait")
  \/ EndWait("e_wait", "client")

HarnessInit == SenderInit /\ mpc = "client"

HarnessNext ==
  \/ Worker
  \/ ClientFill
  \/ ClientSend
  \/ ClientInitialize
  \/ ClientEnd
  \/ GetError("client")

\* The caller's steps inside a sender method: once it has called one, its
\* thread runs it to the end (the 5 ms and 50 ms polls are bounded sleeps).
ClientInMethod ==
  /\ mpc # "client"
  /\ ClientSend \/ ClientInitialize \/ ClientEnd

\* The worker is a runnable thread: whenever it can take a step it
\* eventually does (its blocking calls return within the 1 s send timeout).
\* So is the caller inside a method.  Whether a system call fails is up to
\* the environment, so fairness does not force the failure outcomes, and
\* the caller is never forced to call a method.
HarnessSpec == HarnessInit /\ [][HarnessNext]_vars
               /\ WF_vars(WorkerProgress) /\ WF_vars(ClientInMethod)

-----------------------------------------------------------------------------
(* Properties                                                              *)

TypeOK ==
  /\ packets_list \in Buffers \cup {NULL}
  /\ {is_done, is_error, terminate_thread, thread_initialized,
      is_terminated_thread, initialized, sockOpen, sres} \subseteq BOOLEAN
  /\ error_code \in ErrorCodes
  /\ serr \in SenderErrors
  /\ mem \in [Buffers -> Payloads \cup {<<>>}]
  /\ wpc \in {"none", "start", "setup", "loop", "check", "waiting", "send", "dead"}
  /\ data \in Payloads \cup {<<>>}
  /\ pkt \in 1..(Len(data) + 1)
  /\ remaining \in 0..MaxSize
  /\ posted \in Seq(Payloads \cup {<<>>})
  /\ setupState \in {"none", "pending", "ok", "failed"}

\* Ordering, no loss, no duplication (worker send loop, lines 57-128, with
\* send()'s is_done check, line 347): the bytes on the socket are always a
\* prefix of the lists accepted by send(), in order, and every accepted
\* list but the last is already on the socket in full.
WireFollowsPosts ==
  /\ IsPrefix(wire, AllBytes(posted))
  /\ posted # <<>> => IsPrefix(AllBytes(Front(posted)), wire)

\* Completion (line 127 against the sending loop): while the sender is
\* initialized, is_done means every accepted list has reached the socket.
DoneMeansDelivered ==
  initialized /\ is_done => wire = AllBytes(posted)

\* Shutdown handshake (end_sender, lines 375-402): the sockets are closed
\* only after the worker has terminated, so a live worker never writes to a
\* closed (or reused) descriptor.
WorkerOnlyWithOpenSocket ==
  wpc \in {"start", "setup", "loop", "check", "waiting", "send"} => sockOpen

\* A send accepted while the worker runs is eventually completed, or the
\* worker terminates, or the caller ends the sender.
PostEventuallyCompletes ==
  (initialized /\ ~is_done) ~> (is_done \/ is_terminated_thread \/ ~initialized)

\* The spec's startup handshake (section 4.2): initialize() returns success
\* only once the worker has finished its socket setup successfully.
InitMeansWorkerReady ==
  initialized => setupState = "ok"



\* Clean shutdown (spec section 8; end_sender lines 375-388 against the
\* worker's wait, lines 64-71): a worker idle on the condition variable
\* when termination is requested eventually exits, and without an error.
IdleWorkerTerminates ==
  (terminate_thread /\ wpc = "waiting")
    ~> (is_terminated_thread /\ ~is_error)

\* Cancellation (spec section 5): a termination request is honored only
\* between packets; an in-flight packet write finishes (or fails) before
\* the worker acts on terminate_thread.  So a worker that leaves its send
\* loop without an error has put the packet it was writing on the wire in
\* full: the bytes of its last call are all that remained of it.
TerminateOnlyBetweenPackets ==
  [][(wpc = "send" /\ wpc' = "dead" /\ ~is_error')
       => Len(wire') - Len(wire) = remaining]_vars

-----------------------------------------------------------------------------
(* TCPSender implements the Handoff promise.  The connection is the client *)
(* socket, the worker lives from its "I'm alive!" store to the store of    *)
(* is_terminated_thread by its exit, the accepted lists are those send()   *)
(* published, and the bytes out are the bytes its send/sendfile calls      *)
(* returned.                                                               *)

Promise == INSTANCE Handoff
             WITH open     <- sockOpen,
                  alive    <- ~is_terminated_thread,
                  accepted <- posted,
                  out      <- wire,
                  Lists    <- Payloads \cup {<<>>},
                  Content  <- AllBytes

\* The caller and the worker together (send() with its is_done check and
\* post, the worker's take-and-write loop, end_sender()'s terminate, wait
\* and close, initialize()'s reset) behave as Handoff allows, and under
\* the worker's fairness a live worker finishes what was accepted.
HandoffRefined == Promise!Spec

=============================================================================
