# TLA+ models of Real-Time-Data-Transfer

This directory holds TLA+ models of the C++ library under `src/`. Each model
is checked with TLC. `PROJECT.json` lists the components, the runs, the
mutants, the source lines every definition models (`map`), the findings and
the hazards.

## The system

The library has three parts:

* **TCPSender** (`src/src/senders/tcp_sender.cpp`). It is a TCP server with
  one client and a worker thread (`tcp_worker_function`).
  * The caller hands it a `DataPacketsList*` through `send()`.
  * The two threads share a `SenderWorkerData` record: a mutex, a condition
    variable and atomic flags (`is_done`, `is_error`, `terminate_thread`,
    `thread_initialized`, `is_terminated_thread`, `error_code`).
  * `send()` checks `is_done` without the lock, then stores the pointer,
    clears `is_done` and signals the worker.
  * The worker copies the list under the lock and writes every packet to
    the socket: memory packets with `send`, file regions with `sendfile`.
    Then it sets `is_done`.
  * `end_sender()` sets `terminate_thread`, clears the list under the lock,
    signals the worker, polls until `is_terminated_thread` is set, and then
    closes the sockets.
  * `initialize()` calls `end_sender()`, resets the record, accepts a client
    and starts a worker. It returns once `thread_initialized` is set.
* **RealTimeSystem** (`src/src/systems/real_time_system.cpp`). It drives a
  `Timer`, a `Sender` and a user function.
  * `initialize()` checks the configuration, makes the thread real-time and
    configures the timer. It initializes the sender and clamps the
    tolerance.
  * `send_before_run()` sends one handshake list and polls until it is done
    or the time limit runs out.
  * `run()` loops once per tick:
    1. the disconnect check;
    2. the tolerance poll on `is_send_done()`;
    3. either the fatal path, or the skip path (call the user function and
       discard its list), or the normal path (call the user function, then
       `send()`);
    4. `sleep_to_next_tick()`.

    Every exit path calls `end_sender()`.
* **Timers** (`src/src/timers/*.cpp`). `BusyWaitTimer`, `FreeWaitTimer` and
  `WorstCaseTimer` share one deadline scheme.
  * `start_time_ + PS_TO_NS(original_sleep_time_ps_ * sleep_counter_) + 1`.
  * Every 2^23 ticks the start time is moved forward and the counter is
    reset (the "rebase").
  * They differ in how they wait:
    * the busy timer spins;
    * the free timer calls `nanoseconds_sleep`;
    * the worst-case timer sleeps until `worst_timer_delay` before the
      deadline and spins for the rest.

## Modules

| Module | Models | State | Actions |
|---|---|---|---|
| `TCPSender` | TCPSender, its worker, and the caller of `tcp_sender_test.cpp` | The `SenderWorkerData` fields, `initialized_`, whether the socket is open, the sender's error, the caller's buffers `mem`, the worker's pc/copy/packet index/remaining bytes, the caller's pc, and the history (`posted`, `wire`, `setupState`) | Worker steps `WorkerStart` … `WorkerNextPacket`. Caller procedures `EndBegin/EndLock/EndWait`, `InitReset/InitWait`, `SendCheck/SendPost`, `GetError`, each taking the labels it runs between. The harness `HarnessSpec`. |
| `RealTimeSystem` | RealTimeSystem composed with `TCPSender` (EXTENDS) and with `Timer` (the instance `Tm`) | The members of RealTimeSystem, the timer object's state (`timerVars`: module Timer's variables, its `frequency`/`started` renamed `tfrequency`/`timerStarted`), the locals of `run()` (`seq`, `skipped`, `used`, `info`), the `send_before_run()` limit and its result | One action per step of each method. The sender's procedures are reused through `Sender(A) == A /\ UNCHANGED rtsVars`, the timer's through `OnTimer(A)` and `Tm!...`. |
| `TCPSenderSockets` | the descriptors of TCPSender and of the application's files | `fdOwner` (the descriptor table), `server_sock_fd_`, `client_sock_fd_`, `appFiles`, and the history `lastInit` | `Initialize` (the whole `initialize()`, through `InitializeWith` and the RECURSIVE `CreateServer`), `EndSender` (`end_sender()` and the destructor), `AppOpen`, `AppClose`. |
| `Handoff` | the contract of `Sender` (`sender.h`, spec section 4.2) | `open` (a client connection), `alive` (a worker serves it), `accepted` (the lists `send()` took), `out` (the bytes on the connection) | `Connect` (`initialize()`), `Accept(l)` (`send()`), `Emit` (some accepted bytes go out), `Start`/`Stop` (the worker begins or ends), `Close` (`end_sender()` closes the connection once no worker can write). |
| `Timer` | the three timers and `nanoseconds_sleep` | Strategy, frequency, period `osp`, start offset `off`, `counter`, `sleep_ns`, the clock `el`, and the history (`ticks`, `rebases`, `late`) | `TInitialize`, `TSetFrequency`, `TStartTimer`, `TStopTimer`, `TSleepToNextTick`, `TGetError`, and `TWork` (the caller's work between ticks). |

### Granularity

* A critical section under `packets_mutex` is one step.
* An atomic load or store is its own step wherever another thread can run
  between two of them. This applies to `send()`'s check and post, and to
  `end_sender()`'s flag store, locked section and poll.
* A worker blocked in `pthread_cond_wait` is `wpc = "waiting"`. Only
  `Signal` (a `pthread_cond_signal` inside a locked section) wakes it, so a
  lost wakeup shows up as a deadlock or a liveness violation.
* A write step sends one byte of the current packet. Partial writes and
  their interleavings are therefore present.

### Abstractions

* A packet is a record: `id`, `kind` (mem, file or an unwritten "bad"
  element), `size`, and `avail`, the bytes the source really has.
* The socket is the sequence `wire` of `<<id, byte index>>`.
* The deep copy of `DataPacketsList` is TLA+ value semantics. The worker's
  `data` is a snapshot of `mem[packets_list]` taken when it takes the list.
* Failing system calls are nondeterministic alternatives, enabled by
  constants:
  * `socket`/`bind`/`listen`/`accept`/`pthread_create`: `InitCanFail`;
  * the setup `setsockopt`/affinity: `SetupFailures`;
  * `send`/`sendfile`: `SendCanFail`;
  * `sched_setscheduler`: `RtCanFail`.
* The timer is not a choice: `initialize()` runs `Tm!TInitialize` and
  `Tm!SetFrequencyTo(frequency)`, `run()` runs `Tm!TStartTimer` and
  `Tm!TSleepToNextTick`. The time the loop's body takes before it sleeps
  is `Tm!TWork`, taken or not when the user function returns; a tick is
  missed when the clock passed the deadline (`Tm!TickMissed`). The system
  holds one timer object: a second `set_timer()` sets the same pointer
  again.
* The `uint32` `sequence_number = -1` is `seq = -1`.
* The 64-bit wrap of line 105 is computed by `ClampTolerance`.

## Runs

| Run | Expect | What it shows |
|---|---|---|
| `sender_harness` | pass | `WireFollowsPosts`: the socket carries exactly the accepted lists, in order. `DoneMeansDelivered`: `is_done` means delivered. `WorkerOnlyWithOpenSocket`: no live worker outlives its socket. `PostEventuallyCompletes`: an accepted send finishes. `IdleWorkerTerminates`: a worker waiting for work when `end_sender()` runs exits without error (no lost wakeup). `HandoffRefined`: the sender implements the abstract `Handoff` contract (see below). This holds with setup, send and initialize failures and with re-initialization. |
| `sender_init` | violation | `initialize()` succeeds before the worker has configured its socket. |
| `sender_short_file` | violation | A file shorter than its packet makes the worker spin forever. |
| `rts_noskip` | pass | With the full system and skip mode off, `WireFollowsPosts` holds (`DoneMeansDelivered` is checked in `sender_harness`, whose client does everything this caller does) and every call of `initialize()`, `send_before_run()` and `run()` returns (`EveryCallReturns`), including the waits of the sender's `initialize()` and `end_sender()`. `TimerMatchesSystem`: whenever the system is initialized the timer is stopped and set to `frequency_`, and while `run()` loops it is started at `frequency_`. `run()` never stops the timer, so only `timer_->initialize()` in the next `initialize()` makes a second `run()` possible; the `timer_start` error path of `run()` is thus never taken. |
| `rts_skip` | pass | With skip mode on, `run()` never calls `send()` while a send is in progress. Every return from `run()` has ended the worker and closed the sockets: by the user's stop, a missed tick (the body took longer than the period) and the disconnect after three skipped ticks. It also covers a frequency the timer refuses. |
| `rts_alias` | violation | The skip path's new list is sent in place of the one posted. |
| `rts_handshake` | violation | `send_before_run()` returns true with nothing sent. |
| `rts_tolerance` | violation | Above 200 Hz the tolerance is not clamped. |
| `sender_midpacket` | violation | `end_sender()` during a packet's partial writes makes the worker leave with the packet half on the wire; the spec says a termination is honored only between packets. |
| `timer` | pass | The deadline drifts by at most 1 ns per rebase. Each strategy wakes within its bound. |
| `sockets` | pass | `NoSocketLeak`: every socket the sender has open is held in `server_sock_fd_` or `client_sock_fd_`, over every outcome of `getaddrinfo`, `socket`, `setsockopt`, `bind`, `listen`, `accept` and `pthread_create`, so the next `end_sender()` closes it. |
| `sockets_stale` | violation | A bind failure on the last address leaves `server_sock_fd_` at a closed number; the application's next `open()` gets that number, and the next `initialize()` closes the application's file. |

`PROJECT.json` "findings" explains each violation, with the source line.
Each property of a passing run has a mutant: a plausible bug in the action it
guards, which TLC then finds.

## Refinement

`Handoff` is the promise of `sender.h` with no threads, locks or flags.
`TCPSender` defines

    Promise == INSTANCE Handoff WITH open <- sockOpen,
        alive <- ~is_terminated_thread, accepted <- posted, out <- wire,
        Lists <- Payloads \cup {<<>>}, Content <- AllBytes

and `sender_harness` checks `HandoffRefined == Promise!Spec` as a PROPERTY.
Every step of the sender's caller and worker is a `Handoff` step or a
stutter: a worker write is `Emit` (and the worker may end in the same step
on a send error), `SendPost` is `Accept`, the worker's first step is
`Start`, its exit is `Stop`, and the close in `end_sender()` is `Close`.
The refinement fails if `send()` posts while the worker still writes
(`out = Pending` is the abstract guard), if the sockets close before the
worker ends, or if a live worker stops writing accepted bytes
(`WF(Emit)`).

## Bounds and why they suffice

* **Sender.**
  * Two packet ids.
  * Packets of at most 2 bytes. Partial writes, and a packet finishing
    between two steps of the caller, are then possible.
  * `MaxPosts = 2` accepted lists per connection. Ordering needs two lists.
  * One buffer in the harness.
  * Every failure kind is enabled.
* **RealTimeSystem.**
  * One-byte payloads; `MaxPosts = 1` handshake.
  * Frequency 1, so the disconnect threshold is `3·frequency = 3` skipped
    ticks. `rts_skip` adds 201, above `TimerMaxFrequency`, so the timer
    refuses it in `initialize()`.
  * `MaxTicks` is the number of ticks of one run: the user function calls
    `stop_system()` at the latest when one more sleep would reach it. In
    `rts_noskip` it is 3 (two user calls, one send and sleep between them);
    in `rts_skip` it is 6, the least with which the disconnect is reached
    (one send, then three skipped ticks while it is pending).
  * The timer uses the constants of the `timer` run. The loop's body takes
    12 ns of the scaled clock (`WorkSteps`) in `rts_skip` and the
    violation runs, more than one period (`SecPs / frequency = 60` ps, about
    8 ns), so a missed tick is reachable; `rts_noskip` has no such step (`WorkSteps = {}`),
    which keeps its liveness check small.
  * `rts_noskip` has tolerance 1, so the poll loop runs twice, and every
    failure enabled. `rts_skip` has tolerance 0 and no failures of the
    sender or of `convert_rt_thread`; its exits are the user's stop, the
    missed tick and the disconnect.
  * `rts_tolerance` uses frequency 250 with `TimerMaxFrequency = 1000`. The
    real `TIMER_MAX_FREQUENCY` is in `flags.h`, which is not in the
    repository.
* **Timer.**
  * The units are scaled: `SecPs = 60`, `PsPerNs = 7`. The rebase happens at
    counter 3 instead of 2^23. The word is 9 bits wide instead of 64.
  * These keep the ratios the code depends on. The product just fits below
    2^WordBits at the rebase point, and rounding in `PS_TO_NS` loses up to
    one unit per rebase.
  * 9 ticks give two rebases. `TTypeOK` bounds the counter by the rebase
    point, which is what keeps the product below 2^WordBits.
  * The frequencies include one above `TimerMaxFrequency`, so the refusal
    path is covered.

## Fairness

* The worker gets weak fairness on its progress steps. It is a running
  thread, and its blocking calls return (the socket has a 1 s send
  timeout).
* The caller gets weak fairness on its steps inside a RealTimeSystem
  method. Its sleeps and polls are bounded loops.
* Failure outcomes get no fairness: setup failure, send failure, the
  loop's body overrunning the period (`TWork`) and a failed initialize.
  Time passing is not a step anyone is owed. Whether a system call fails is the
  environment's choice.
* The application is never forced to call a method.
* In `sender_harness` the client gets weak fairness on its steps inside a
  sender method (`ClientInMethod`), for the same reason: the polls in
  `initialize()` and `end_sender()` are loops the thread keeps running.
* The timer model has no liveness property and no fairness.

## Timer details

* `WakeAt` dispatches on the strategy: `BusyWake` (spins to the deadline),
  `FreeWake` (one `nanoseconds_sleep` of the remaining time) and `WorstWake`
  (sleeps until `worst_timer_delay` before the deadline, then spins).
* `sleep_to_next_tick()` does not check `timer_started_`. A strict caller
  only sleeps on a started timer; a non-strict one may also sleep after
  `stop_timer()`. The `timer` run uses a strict caller. RealTimeSystem is
  instantiated as a non-strict caller: that it calls the timer in a legal
  order is what `TimerMatchesSystem` checks.
* `set_frequency()` does not check `timer_started_` either, although
  `timer.h` says it fails once the timer is started: a non-strict caller
  can change the period under the running counter, and the next deadline
  jumps. No run states this; RealTimeSystem never does it.

## Descriptors

`TCPSenderSockets` models what `TCPSender` does with file descriptors,
which `TCPSender` itself abstracts to `sockOpen` and a failure choice.
* `fdOwner` is the process's descriptor table over the numbers `Fds`.
  `socket()`, `accept()` and `open()` take the lowest free number, or fail
  with EMFILE (`NextFd`), and `close()` frees a number whatever it holds
  (`CloseFd`).
* `CreateServer` is the `addrinfo` loop of `create_server()`, a RECURSIVE
  operator over the results. One outcome per result: socket fails, setsockopt
  fails, bind fails, or bound. `InitializeWith` is the whole `initialize()`:
  its `end_sender()`, `create_server()`, `listen()`, `get_client()`
  (`GetClient`), the close of the listening socket and thread creation. It
  is one step with the outcome of each call chosen by `Initialize`.
* The application opens and closes files for file packets (`AppOpen`,
  `AppClose`). It is the only other opener, and the same thread.
* The worker thread only uses descriptors and is left out; the waits for it
  are modelled in `TCPSender`.
* Bounds: three numbers, enough for a listening socket, a client and a
  file at once, and for the table to fill up. Two addrinfo results, as for
  `AF_UNSPEC` with IPv4 and IPv6, so the loop continues after a failure and
  can also fail on its last result.

## Not modelled

* `Error`, `MutexRAII` and `AtomicValRAII` are folded into the actions that
  use them.
* `convert_rt_thread` is reduced to success or failure.
* The receiver (`others/receiver_example.c`) is a `recv()` loop that prints
  throughput. It is the peer of the socket, abstracted to `wire`.
* A `run()` after a failed re-initialize is reachable in `rts_noskip`;
  `EveryCallReturns` and `TimerMatchesSystem` show it still returns and
  runs on a timer that is started at `frequency_`.
* `TCPSenderZC`, `flags.h`, `senders.h`, `systems.h` and `timers.h` are
  referenced by the code but absent from the repository.
* `RealTimeInfo`'s `delayed_ms` is `used_tolerated_time` on the normal
  path (line 226), a count of 500 µs polls, and half of it on the skip path
  (line 205). The model computes both as the code does; no run states the
  unit, since the property would only restate line 226.
* `set_frequency(0)` dividing by zero in a timer is not modelled. So is a
  start before any frequency was set, which reads an uninitialized period: the
  model starts a timer only once a frequency was set.
  The hazards list gives the reasons.

## Planned extensions

* The free and worst-case strategies in the composed system (only the busy
  one is composed, for the size of the state space).
