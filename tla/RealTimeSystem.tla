--------------------------- MODULE RealTimeSystem ---------------------------
(***************************************************************************)
(* RealTimeSystem of src/src/systems/real_time_system.cpp driving the      *)
(* TCPSender and its worker thread.  The caller thread runs the            *)
(* application (setters, initialize, send_before_run, run, get_error) and *)
(* inside them the sender's methods; the worker runs concurrently.        *)
(*                                                                         *)
(* The system's Timer is module Timer, composed through the instance Tm  *)
(* whose state is part of this module's: initialize() calls its          *)
(* initialize and set_frequency, run() its start_timer and                *)
(* sleep_to_next_tick, and a deadline is missed when the loop's body      *)
(* took longer than the period.  Sleeps are steps of the caller during    *)
(* which the worker may run.                                               *)
(***************************************************************************)
EXTENDS Integers, TCPSender

CONSTANTS
  Frequencies,        \* values the application passes to set_frequency
  Tolerances,         \* values passed to set_ms_tolerance
  SkipModes,          \* values passed to skip_mode
  TimeLimits,         \* time_limit_ms values passed to send_before_run
  TimerMaxFrequency,  \* TIMER_MAX_FREQUENCY (flags.h)
  RtCanFail,          \* whether mlockall/sched_setscheduler/affinity may fail
  MaxTicks,           \* ticks of one run; the user function stops it before
  \* the Timer's constants (module Timer); WorkSteps is how long the body of
  \* run()'s loop takes between two sleeps
  Strategies, SecPs, PsPerNs, RebaseAt, WordBits, WorstDelay, OsDelay, Gap,
  WorkSteps

ASSUME /\ Frequencies \subseteq 1..65535
       /\ Tolerances \subseteq 0..65535
       /\ SkipModes \subseteq BOOLEAN
       /\ TimeLimits \subseteq Nat /\ TimeLimits # {}
       /\ {"user", "handshake"} \subseteq Buffers

\* Error causes of RealTimeSystem's own Error object; a sender error is
\* copied in under the sender's cause.
RtsErrors == {"none", "null_fn", "null_timer", "null_sender", "no_frequency",
              "rt_failed", "timer_frequency", "not_initialized", "timer_start",
              "sbr_timeout", "disconnected", "send_timeout", "deadline_miss"}
              \cup SenderErrors

VARIABLES
  \* RealTimeSystem members (timer_, sender_, user_app_func_ as "set")
  timerSet, senderSet, fnSet, frequency, ms_tolerance, allow_skip,
  rts_init, rerr,
  \* the timer object: frequency_, original_sleep_time_ps_, timer_started_
  \* and the rest of module Timer's state
  strategy, tfrequency, osp, timerStarted, off, counter, sleep_ns, el, terr,
  worked, ticks, rebases, late,
  \* run() locals: sequence_number, skipped_count, used_tolerated_time and
  \* the RealTimeInfo last handed to the user function
  seq, skipped, used, info,
  \* send_before_run's time_limit_ms
  tlimit,
  \* history: state of the last send_before_run()
  hsState

cfgVars == <<timerSet, senderSet, fnSet, frequency, ms_tolerance, allow_skip>>
runLocals == <<seq, skipped, used, info>>
timerVars == <<strategy, tfrequency, osp, timerStarted, off, counter,
               sleep_ns, el, terr, worked, ticks, rebases, late>>
rtsVars == <<cfgVars, rts_init, rerr, timerVars, runLocals, tlimit, hsState>>

\* The system's timer.  RealTimeSystem is not a strict caller: what order
\* it calls the timer in is what the properties check.
Tm == INSTANCE Timer WITH frequency <- tfrequency, started <- timerStarted,
                          StrictCaller <- FALSE
allVars == <<vars, rtsVars>>

\* The sender state but for the caller's buffers, and but for its error.
senderNoMem == <<recordVars, initialized, sockOpen, serr, workerVars, sres,
                 historyVars>>
senderNoErr == <<recordVars, initialized, sockOpen, mem, workerVars, sres,
                 historyVars>>

\* run()'s RealTimeInfo before the first tick and after run() returns.
NoInfo == [skip |-> FALSE, delayed |-> 0]

\* ms_tolerance_ = min(ms_tolerance_, (1000/frequency_) - 5) on uint_fast16_t,
\* which is 64 bits wide on glibc/x86-64: when 1000/frequency_ < 5 the
\* difference wraps to 2^64 - (5 - 1000/frequency_), larger than any
\* tolerance, and the min keeps the tolerance as it was.
ClampTolerance(t, f) ==
  LET lim == 1000 \div f - 5
  IN IF lim < 0 THEN t ELSE IF t < lim THEN t ELSE lim

\* A sender or worker step, leaving RealTimeSystem alone.
Sender(A) == A /\ UNCHANGED rtsVars

\* Leave run() on a fatal path or a stop: record the error, then
\* end_sender().
Leave(err) ==
  /\ rerr' = err
  /\ mpc' = "r_end"

-----------------------------------------------------------------------------
(* Setters: each invalidates initialized_.                                 *)

\* set_timer / set_sender / set_user_data_fn with a pointer or NULL.
SetComponent ==
  /\ mpc = "app"
  /\ rts_init' = FALSE
  /\ \/ timerSet' = TRUE  /\ UNCHANGED <<senderSet, fnSet, rerr>>
     \/ senderSet' = TRUE /\ UNCHANGED <<timerSet, fnSet, rerr>>
     \/ fnSet' = TRUE     /\ UNCHANGED <<timerSet, senderSet, rerr>>
     \/ \E e \in {"null_timer", "null_sender", "null_fn"} :
          rerr' = e /\ UNCHANGED <<timerSet, senderSet, fnSet>>
  /\ UNCHANGED <<vars, frequency, ms_tolerance, allow_skip, timerVars,
                 runLocals, tlimit, hsState>>

\* set_frequency, set_ms_tolerance, skip_mode.
SetConfig ==
  /\ mpc = "app"
  /\ rts_init' = FALSE
  /\ \/ \E f \in Frequencies : frequency' = f /\ UNCHANGED <<ms_tolerance, allow_skip>>
     \/ \E t \in Tolerances : ms_tolerance' = t /\ UNCHANGED <<frequency, allow_skip>>
     \/ \E b \in SkipModes : allow_skip' = b /\ UNCHANGED <<frequency, ms_tolerance>>
  /\ UNCHANGED <<vars, timerSet, senderSet, fnSet, rerr, timerVars,
                 runLocals, tlimit, hsState>>

\* get_error(): drain the sticky error.
RtsGetError ==
  /\ mpc = "app"
  /\ rerr # "none"
  /\ rerr' = "none"
  /\ UNCHANGED <<vars, cfgVars, rts_init, timerVars, runLocals, tlimit,
                 hsState>>

-----------------------------------------------------------------------------
(* initialize()                                                            *)

\* Mutant of RtsInitBegin: the timer is not re-initialized before its
\* frequency is set.
RtsInitBeginNoTimerInit ==
  LET check == CASE ~fnSet          -> "null_fn"
                 [] ~timerSet       -> "null_timer"
                 [] ~senderSet      -> "null_sender"
                 [] frequency = 0   -> "no_frequency"
                 [] OTHER           -> "none"
  IN
  /\ mpc = "app"
  /\ \/ /\ check # "none"
        /\ rerr' = check
        /\ UNCHANGED mpc
     \/ /\ check = "none"
        /\ RtCanFail
        /\ rerr' = "rt_failed"
        /\ UNCHANGED mpc
     \/ /\ check = "none"
        /\ mpc' = "ri_freq"
        /\ UNCHANGED rerr
  /\ UNCHANGED <<senderState, cfgVars, rts_init, timerVars, runLocals, tlimit,
                 hsState>>

\* The null/zero checks, convert_rt_thread() and timer_->initialize(),
\* which stops the timer and returns true; a failure returns false and
\* leaves initialized_ as it was.
RtsInitBegin ==
  LET check == CASE ~fnSet          -> "null_fn"
                 [] ~timerSet       -> "null_timer"
                 [] ~senderSet      -> "null_sender"
                 [] frequency = 0   -> "no_frequency"
                 [] OTHER           -> "none"
  IN
  /\ mpc = "app"
  /\ \/ /\ check # "none"
        /\ rerr' = check
        /\ UNCHANGED <<timerVars, mpc>>
     \/ /\ check = "none"
        /\ RtCanFail
        /\ rerr' = "rt_failed"
        /\ UNCHANGED <<timerVars, mpc>>
     \/ /\ check = "none"
        /\ Tm!TInitialize
        /\ mpc' = "ri_freq"
        /\ UNCHANGED rerr
  /\ UNCHANGED <<senderState, cfgVars, rts_init, runLocals, tlimit, hsState>>

\* A step of the caller on the timer, leaving the rest alone.
OnTimer(A) == A /\ UNCHANGED <<senderState, cfgVars, rts_init, runLocals, tlimit,
                              hsState>>

\* timer_->set_frequency(frequency_): on refusal, copy the timer's error
\* (its get_error() drains it) and return false.
RiFreq ==
  /\ mpc = "ri_freq"
  /\ OnTimer(Tm!SetFrequencyTo(frequency))
  /\ mpc' = IF Tm!FrequencyAccepted(frequency) THEN "ri_sender" ELSE "ri_terr"
  /\ UNCHANGED rerr

RiTimerError ==
  /\ mpc = "ri_terr"
  /\ OnTimer(Tm!TGetError)
  /\ rerr' = "timer_frequency"
  /\ mpc' = "app"

\* The sender steps of initialize(): sender_->initialize(), which first
\* runs end_sender() and then resets the record and starts a worker.
RtsInitSender ==
  \/ EndBegin("ri_sender", "ri_lock", "ri_reset")
  \/ EndLock("ri_lock", "ri_endwait")
  \/ EndWait("ri_endwait", "ri_reset")
  \/ InitReset("ri_reset", "ri_wait", "ri_fail")
  \/ InitWait("ri_wait", "ri_done")

\* sender_->initialize() failed: copy its error (get_error drains it).
RiFail ==
  /\ mpc = "ri_fail"
  /\ rerr' = serr
  /\ serr' = "none"
  /\ mpc' = "app"
  /\ UNCHANGED <<senderNoErr, cfgVars, rts_init, timerVars, runLocals,
                 tlimit, hsState>>

\* Clamp the tolerance and set initialized_.
RiDone ==
  /\ mpc = "ri_done"
  /\ ms_tolerance' = ClampTolerance(ms_tolerance, frequency)
  /\ rts_init' = TRUE
  /\ mpc' = "app"
  /\ UNCHANGED <<senderState, timerSet, senderSet, fnSet, frequency,
                 allow_skip, rerr, timerVars, runLocals, tlimit, hsState>>

-----------------------------------------------------------------------------
(* send_before_run(list_of_data, time_limit_ms).  MaxPosts bounds the     *)
(* handshakes the application sends on one connection.                    *)

\* Refused when not initialized; otherwise the by-value list is the
\* "handshake" buffer and the sender is asked to send it.
SbBegin ==
  /\ mpc = "app"
  /\ \/ /\ ~rts_init
        /\ rerr' = "not_initialized"
        /\ UNCHANGED <<mem, mpc, tlimit, hsState>>
     \/ /\ rts_init
        /\ Len(posted) < MaxPosts
        /\ \E p \in Payloads, l \in TimeLimits :
             /\ mem' = [mem EXCEPT !["handshake"] = p]
             /\ tlimit' = l
        /\ hsState' = "pending"
        /\ mpc' = "sb_send"
        /\ UNCHANGED rerr
  /\ UNCHANGED <<senderNoMem, cfgVars, rts_init, timerVars, runLocals>>

\* sender_->send(&list_of_data); its result is not looked at.
SbSend ==
  \/ SendCheck("sb_send", "sb_post", "sb_poll")
  \/ SendPost("handshake", "sb_post", "sb_poll")

\* One round of the halving loop: sleep time_limit_ms/2 + 1, then leave
\* the loop if the send is done.
SbPoll ==
  /\ mpc = "sb_poll"
  /\ \/ /\ tlimit > 0
        /\ tlimit' = tlimit - (tlimit \div 2 + 1)
        /\ mpc' = IF is_done THEN "sb_final" ELSE "sb_poll"
     \/ /\ tlimit = 0
        /\ mpc' = "sb_final"
        /\ UNCHANGED tlimit
  /\ UNCHANGED <<senderState, cfgVars, rts_init, rerr, timerVars,
                 runLocals, hsState>>

\* The final is_send_done(): success, or end_sender() on timeout.  On
\* return the by-value list is destroyed.
SbFinal ==
  \/ /\ mpc = "sb_final"
     /\ is_done
     /\ hsState' = "true"
     /\ mem' = [mem EXCEPT !["handshake"] = <<>>]
     /\ tlimit' = 0
     /\ mpc' = "app"
     /\ UNCHANGED <<senderNoMem, cfgVars, rts_init, rerr, timerVars,
                    runLocals>>
  \/ /\ ~is_done
     /\ Sender(EndBegin("sb_final", "sb_lock", "sb_ended"))

SbEndSender ==
  \/ EndLock("sb_lock", "sb_wait")
  \/ EndWait("sb_wait", "sb_ended")

\* Report the timeout and clear initialized_.
SbEnded ==
  /\ mpc = "sb_ended"
  /\ rerr' = "sbr_timeout"
  /\ rts_init' = FALSE
  /\ hsState' = "false"
  /\ mem' = [mem EXCEPT !["handshake"] = <<>>]
  /\ tlimit' = 0
  /\ mpc' = "app"
  /\ UNCHANGED <<senderNoMem, cfgVars, timerVars, runLocals>>

-----------------------------------------------------------------------------
(* run()                                                                   *)

\* Check and clear initialized_, start the timer, set up the locals.
\* sequence_number is a uint_fast32_t set to -1, i.e. 2^32 - 1, which the
\* first increment wraps to 0; seq = -1 stands for that value.  A refused
\* start_timer() sets the timer's error, which run() copies (draining it).
RunBegin ==
  /\ mpc = "app"
  /\ \/ /\ ~rts_init
        /\ rerr' = "not_initialized"
        /\ UNCHANGED <<rts_init, timerVars, mpc>>
     \/ /\ rts_init
        /\ rts_init' = FALSE
        /\ IF timerStarted
             THEN /\ rerr' = "timer_start"
                  /\ terr' = FALSE
                  /\ UNCHANGED <<strategy, tfrequency, osp, timerStarted, off,
                                 counter, sleep_ns, el, worked, ticks, rebases,
                                 late, mpc>>
             ELSE Tm!TStartTimer /\ mpc' = "r_top" /\ UNCHANGED rerr
  /\ UNCHANGED <<senderState, cfgVars, runLocals, tlimit, hsState>>

\* Top of the loop: next sequence number, then the disconnect check.
RTop ==
  /\ mpc = "r_top"
  /\ seq' = seq + 1
  /\ IF skipped = 3 * frequency
       THEN Leave("disconnected") /\ UNCHANGED used
       ELSE used' = 0 /\ mpc' = "r_poll" /\ UNCHANGED rerr
  /\ UNCHANGED <<senderState, cfgVars, rts_init, timerVars, skipped, info,
                 tlimit, hsState>>

\* One iteration of the tolerance loop: while used < 2 * ms_tolerance_
\* and the send is not done, sleep 500 us.
RPoll ==
  /\ mpc = "r_poll"
  /\ \/ /\ used < 2 * ms_tolerance
        /\ ~is_done
        /\ used' = used + 1
        /\ UNCHANGED mpc
     \/ /\ used >= 2 * ms_tolerance \/ is_done
        /\ mpc' = "r_decide"
        /\ UNCHANGED used
  /\ UNCHANGED <<senderState, cfgVars, rts_init, rerr, timerVars, seq,
                 skipped, info, tlimit, hsState>>

\* The user function: it returns one of the lists, and calls stop_system()
\* at the latest when one more sleep would reach the timer's MaxTicks.
\* The time the loop's body takes before it sleeps (the tolerance polls,
\* the user function, send()) passes here, or none does.  Its list is assigned to
\* user_packets_list, the buffer a previous send() may still point to.
CallUser(skip, delayed, next) ==
  \E p \in Payloads, stop \in IF ticks + 1 >= MaxTicks THEN {TRUE} ELSE BOOLEAN :
    /\ info' = [skip |-> skip, delayed |-> delayed]
    /\ mem' = [mem EXCEPT !["user"] = p]
    /\ IF stop
         THEN Leave(rerr) /\ UNCHANGED timerVars
         ELSE /\ mpc' = next
              /\ UNCHANGED rerr
              /\ Tm!TWork \/ UNCHANGED timerVars

\* The variables RDecide leaves alone.
decideUnchanged == <<senderNoMem, cfgVars, rts_init, seq, used,
                     tlimit, hsState>>

\* Mutant of RDecide: the normal path is taken without looking at
\* is_send_done(), so the user buffer is refilled while it may still be
\* posted.
RDecideIgnoresDone ==
  /\ mpc = "r_decide"
  /\ skipped' = 0
  /\ CallUser(FALSE, used, "r_send")
  /\ UNCHANGED decideUnchanged

\* Mutant of RDecide: the skip path has no continue and falls through to
\* the send.
RDecideNoContinue ==
  /\ mpc = "r_decide"
  /\ \/ /\ ~is_done
        /\ ~allow_skip
        /\ Leave("send_timeout")
        /\ UNCHANGED <<mem, info, skipped, timerVars>>
     \/ /\ ~is_done
        /\ allow_skip
        /\ skipped' = skipped + 1
        /\ CallUser(TRUE, used \div 2, "r_send")
     \/ /\ is_done
        /\ skipped' = 0
        /\ CallUser(FALSE, used, "r_send")
  /\ UNCHANGED decideUnchanged

\* After the tolerance loop: fatal without skip mode; in skip mode the
\* user function is called with the skip flag (delayed = used / 2) and
\* the loop goes on to the next tick; otherwise the skip streak is reset
\* and the user function is called with delayed = used.
RDecide ==
  /\ mpc = "r_decide"
  /\ \/ /\ ~is_done
        /\ ~allow_skip
        /\ Leave("send_timeout")
        /\ UNCHANGED <<mem, info, skipped, timerVars>>
     \/ /\ ~is_done
        /\ allow_skip
        /\ skipped' = skipped + 1
        /\ CallUser(TRUE, used \div 2, "r_sleep")
     \/ /\ is_done
        /\ skipped' = 0
        /\ CallUser(FALSE, used, "r_send")
  /\ UNCHANGED decideUnchanged

\* sender_->send(&user_packets_list).
RSend ==
  \/ SendCheck("r_send", "r_post", "r_sendfail")
  \/ SendPost("user", "r_post", "r_sleep")

\* A refused send is fatal: copy the sender's error, then end_sender().
RSendFail ==
  /\ mpc = "r_sendfail"
  /\ Leave(serr)
  /\ serr' = "none"
  /\ UNCHANGED <<senderNoErr, cfgVars, rts_init, timerVars, runLocals,
                 tlimit, hsState>>

\* Mutant of RSleep: a missed tick returns without end_sender().
RSleepNoTeardown ==
  /\ mpc = "r_sleep"
  /\ OnTimer(Tm!TSleepToNextTick)
  /\ IF Tm!TickMissed
       THEN rerr' = "deadline_miss" /\ mpc' = "r_ret"
       ELSE mpc' = "r_top" /\ UNCHANGED rerr

\* timer_->sleep_to_next_tick(): back to the top at the next tick, or,
\* when the deadline had already passed, fatal.
RSleep ==
  /\ mpc = "r_sleep"
  /\ OnTimer(Tm!TSleepToNextTick)
  /\ IF Tm!TickMissed
       THEN Leave("deadline_miss")
       ELSE mpc' = "r_top" /\ UNCHANGED rerr

\* end_sender() on the way out of run().
REnd ==
  \/ EndBegin("r_end", "r_elock", "r_ret")
  \/ EndLock("r_elock", "r_ewait")
  \/ EndWait("r_ewait", "r_ret")

\* The return: run()'s locals, user_packets_list included, go away.
RReturn ==
  /\ mpc = "r_ret"
  /\ mpc' = "app"
  /\ mem' = [mem EXCEPT !["user"] = <<>>]
  /\ seq' = -1
  /\ skipped' = 0
  /\ used' = 0
  /\ info' = NoInfo
  /\ UNCHANGED <<senderNoMem, cfgVars, rts_init, rerr, timerVars, tlimit,
                 hsState>>

-----------------------------------------------------------------------------
(* The application: constructs the system and calls its methods in any    *)
(* order, as the tests under src/src/tests do.                            *)

RtsInit ==
  /\ SenderInit
  /\ mpc = "app"
  /\ timerSet = FALSE /\ senderSet = FALSE /\ fnSet = FALSE
  /\ frequency = 0
  /\ ms_tolerance = 0
  /\ allow_skip = FALSE
  /\ rts_init = FALSE
  /\ rerr = "none"
  /\ Tm!TInit
  /\ seq = -1 /\ skipped = 0 /\ used = 0 /\ info = NoInfo
  /\ tlimit = 0
  /\ hsState = "none"

\* Steps of the caller inside a RealTimeSystem method, but for the
\* failure outcomes the environment decides.
CallerProgress ==
  \/ RiFreq \/ RiTimerError
  \/ Sender(RtsInitSender) \/ RiFail \/ RiDone
  \/ Sender(SbSend) \/ SbPoll \/ SbFinal \/ Sender(SbEndSender) \/ SbEnded
  \/ RTop \/ RPoll \/ RDecide \/ Sender(RSend) \/ RSendFail \/ RSleep
  \/ Sender(REnd) \/ RReturn

RtsNext ==
  \/ Sender(Worker)
  \/ SetComponent \/ SetConfig \/ RtsGetError
  \/ RtsInitBegin \/ SbBegin \/ RunBegin
  \/ CallerProgress

\* Both threads are runnable whenever they can step: the caller's sleeps
\* and polls are bounded, and the worker's calls return within the socket
\* timeout.  The application itself is never forced to call anything.
RtsSpec == RtsInit /\ [][RtsNext]_allVars
           /\ WF_allVars(CallerProgress) /\ WF_allVars(Sender(WorkerProgress))

-----------------------------------------------------------------------------
(* Properties                                                              *)

RunLabels == {"r_top", "r_poll", "r_decide", "r_send", "r_post",
              "r_sendfail", "r_sleep", "r_end", "r_elock", "r_ewait", "r_ret"}

RtsTypeOK ==
  /\ TypeOK
  /\ Tm!TTypeOK
  /\ {timerSet, senderSet, fnSet, allow_skip, rts_init} \subseteq BOOLEAN
  /\ frequency \in Frequencies \cup {0}
  /\ ms_tolerance \in Tolerances \cup {0}
  /\ rerr \in RtsErrors
  /\ seq \in -1..MaxTicks
  /\ skipped \in 0..(3 * frequency)
  /\ used \in 0..(2 * ms_tolerance)
  /\ tlimit \in 0..Max(TimeLimits)
  /\ hsState \in {"none", "pending", "true", "false"}

\* Teardown on every exit (run(), lines 179-245, each return after the
\* loop starts): when run() returns to the application the worker thread
\* has terminated, the sockets are closed and the sender is uninitialized.
RunReturnTearsDown ==
  [][(mpc \in RunLabels /\ mpc' = "app")
        => (is_terminated_thread' /\ ~sockOpen' /\ ~initialized')]_allVars

\* The system and its timer agree (initialize(), lines 88-97, and run(),
\* lines 160-164, against the contract of timer.h): whenever the
\* application holds an initialized system, its timer is stopped and set
\* to frequency_, and while run() is in its loop, the timer it sleeps on is
\* started at frequency_.  run() never stops the timer, so this needs
\* initialize() to stop it through timer_->initialize(); and since the
\* timers check neither timer_started_ nor a set frequency themselves,
\* it is what keeps set_frequency() off a running timer, start_timer()
\* off a timer without a period, and sleep_to_next_tick() off a stopped
\* one.
TimerMatchesSystem ==
  /\ mpc = "app" /\ rts_init => ~timerStarted /\ tfrequency = frequency
  /\ mpc \in RunLabels => timerStarted /\ tfrequency = frequency

\* Every call of initialize(), send_before_run() and run() returns: the
\* worker's "I'm alive!" ends initialize()'s wait on thread_initialized
\* (tcp_sender.cpp lines 301-306), end_sender()'s terminate flag plus
\* condition signal end its wait on is_terminated_thread (lines 375-388),
\* the halving loop of send_before_run() runs out, and run() leaves its
\* loop by the user's stop, a fatal error or the disconnect check.
EveryCallReturns == mpc # "app" ~> mpc = "app"

\* The loop only posts a list after is_send_done() (lines 196-235), so
\* send() never refuses a list of run() as still in progress.
RunNeverRefusedInProgress == mpc = "r_sendfail" => serr # "in_progress"

\* send_before_run() returns true only when the handshake list was
\* accepted by the sender and has fully reached the socket.
HandshakeMeansDelivered ==
  [][(hsState # "true" /\ hsState' = "true")
        => (posted' # <<>> /\ wire' = AllBytes(posted'))]_allVars

\* initialize() clamps the tolerance so that it leaves at least 5 ms of
\* each period (line 105): a nonzero tolerance plus 5 ms fits in one
\* period of 1000 / frequency ms.
ToleranceWithinPeriod ==
  rts_init => ms_tolerance = 0 \/ ms_tolerance + 5 <= 1000 \div frequency

====
