-------------------------------- MODULE Timer --------------------------------
(***************************************************************************)
(* The three timers of src/src/timers: BusyWaitTimer, FreeWaitTimer and   *)
(* WorstCaseTimer.  They share set_frequency(), start_timer() and the     *)
(* deadline arithmetic of sleep_to_next_tick() (the tick-counter product, *)
(* its rebase every RebaseAt ticks, the +1 ns round-off) and differ only  *)
(* in how they wait for a deadline; strategy picks which one runs.        *)
(*                                                                         *)
(* The monotonic clock is kept relative to the first start_time_: el is   *)
(* the time now and off the timer's start_time_, both in ns.  Time units   *)
(* are scaled down: SecPs picoseconds make a second and PsPerNs make a    *)
(* nanosecond (10^12 and 10^3 in the code), RebaseAt stands for 2^23 and  *)
(* WordBits for the 64 bits of uint_fast64_t, so that 2^WordBits against  *)
(* SecPs * RebaseAt keeps the code's margin of 2^64 against 10^12 * 2^23.  *)
(***************************************************************************)
EXTENDS Integers

CONSTANTS
  Strategies,         \* subset of {"busy", "free", "worst"}
  Frequencies,        \* values passed to set_frequency
  TimerMaxFrequency,  \* TIMER_MAX_FREQUENCY
  SecPs,              \* SEC_TO_PS(1), scaled
  PsPerNs,            \* PS_TO_NS divisor, scaled
  RebaseAt,           \* the counter value 1 << 23 at which start_time_ moves
  WordBits,           \* width of uint_fast64_t, scaled
  WorstDelay,         \* worst_timer_delay_ns_ of a WorstCaseTimer
  OsDelay,            \* how late the OS may wake a nanosleep
  Gap,                \* clock advance between sleep_to_next_tick's clock
                      \* read and nanoseconds_sleep's own
  WorkSteps,          \* how long the caller works between two ticks
  MaxTicks,           \* ticks of one started timer
  StrictCaller        \* the caller sets the frequency only on a stopped
                      \* timer, starts it only with a frequency set and
                      \* sleeps only on a started one, as
                      \* RealTimeSystem::initialize()/run() do

ASSUME /\ Strategies \subseteq {"busy", "free", "worst"}
       /\ Frequencies \subseteq 1..65535
       /\ {SecPs, PsPerNs, RebaseAt, WordBits} \subseteq Nat \ {0}
       /\ {WorstDelay, OsDelay, Gap} \subseteq Nat
       /\ WorkSteps \subseteq Nat

\* TIMER_FREQUNCY_ERROR, timer.h line 9.
TIMER_FREQUNCY_ERROR == 65535

VARIABLES
  strategy,   \* which timer class this is
  frequency,  \* frequency_
  osp,        \* original_sleep_time_ps_ (-1 until set_frequency succeeds)
  started,    \* timer_started_
  off,        \* start_time_, relative to the first start
  counter,    \* sleep_counter_
  sleep_ns,   \* sleep_time_ns_, relative to start_time_
  el,         \* the clock
  terr,       \* the Error object holds an error
  worked,     \* the caller has done its work since the last tick
  \* history: ticks since start_timer(), rebases of start_time_ since then,
  \* and how late the last successful sleep_to_next_tick() returned
  ticks, rebases, late

tvars == <<strategy, frequency, osp, started, off, counter, sleep_ns, el,
           terr, worked, ticks, rebases, late>>

\* sleep_time_ns_ = PS_TO_NS(original_sleep_time_ps_ * sleep_counter_) + 1
SleepNs(ps, c) == (ps * c) \div PsPerNs + 1

MaxOf2(a, b) == IF a >= b THEN a ELSE b

\* nanoseconds_sleep(req) called at from: it returns at once for 0
\* (timers_utils.cpp lines 16-27), else the OS wakes it d after req.
NanoSleepEnd(from, req, d) == IF req = 0 THEN from ELSE from + req + d

\* The time since start_time_ at which each timer's wait returns, when
\* it starts at diff <= sleep_time_ns_, nanoseconds_sleep starts gap
\* later and the OS wakes it d late.

\* BusyWaitTimer: spin on the clock until the deadline.
BusyWake(diff, gap, d) == sleep_ns

\* FreeWaitTimer: one nanoseconds_sleep of what is left.
FreeWake(diff, gap, d) == NanoSleepEnd(diff + gap, sleep_ns - diff, d)

\* Mutant of WorstWake: it sleeps the whole remaining time before
\* spinning, leaving no margin for the OS delay.
WorstWakeNoMargin(diff, gap, d) ==
  IF sleep_ns - diff < WorstDelay
    THEN sleep_ns
    ELSE MaxOf2(sleep_ns, NanoSleepEnd(diff + gap, sleep_ns - diff, d))

\* WorstCaseTimer: spin if less than worst_timer_delay_ns_ is left, else
\* sleep all but worst_timer_delay_ns_ and spin for the rest.
WorstWake(diff, gap, d) ==
  IF sleep_ns - diff < WorstDelay
    THEN sleep_ns
    ELSE MaxOf2(sleep_ns,
                NanoSleepEnd(diff + gap, sleep_ns - diff - WorstDelay, d))

\* The virtual call: the wait of the timer class that runs.
WakeAt(s, diff, gap, d) ==
  CASE s = "busy"  -> BusyWake(diff, gap, d)
    [] s = "free"  -> FreeWake(diff, gap, d)
    [] s = "worst" -> WorstWake(diff, gap, d)

\* sleep_to_next_tick() is called after its deadline: the check of line 63.
TickMissed == el - off > sleep_ns

-----------------------------------------------------------------------------

\* initialize(): frequency_ := TIMER_FREQUNCY_ERROR, timer_started_ := false.
TInitialize ==
  /\ frequency' = TIMER_FREQUNCY_ERROR
  /\ started' = FALSE
  /\ UNCHANGED <<strategy, osp, off, counter, sleep_ns, el, terr, worked,
                 ticks, rebases, late>>

\* set_frequency(f): refused above TIMER_MAX_FREQUENCY; it does not look
\* at timer_started_.
FrequencyAccepted(f) == f <= TimerMaxFrequency

SetFrequencyTo(f) ==
  /\ IF ~FrequencyAccepted(f)
       THEN terr' = TRUE /\ UNCHANGED <<frequency, osp>>
       ELSE frequency' = f /\ osp' = SecPs \div f /\ UNCHANGED terr
  /\ UNCHANGED <<strategy, started, off, counter, sleep_ns, el, worked,
                 ticks, rebases, late>>

\* The caller's set_frequency() with one of the frequencies.
TSetFrequency ==
  /\ StrictCaller => ~started
  /\ \E f \in Frequencies : SetFrequencyTo(f)

\* start_timer(): refused while started; else start_time_ := now and the
\* first deadline is one period away.  A start before any successful
\* set_frequency() reads the uninitialized original_sleep_time_ps_ and is
\* left out; a start after initialize() uses the last one.
TStartTimer ==
  /\ osp >= 0
  /\ StrictCaller => frequency # TIMER_FREQUNCY_ERROR
  /\ IF started
       THEN terr' = TRUE
            /\ UNCHANGED <<started, off, counter, sleep_ns, el, worked, ticks,
                           rebases, late>>
       ELSE /\ started' = TRUE
            /\ el' = 0
            /\ off' = 0
            /\ counter' = 1
            /\ sleep_ns' = SleepNs(osp, 1)
            /\ ticks' = 1
            /\ rebases' = 0
            /\ late' = 0
            /\ worked' = FALSE
            /\ UNCHANGED terr
  /\ UNCHANGED <<strategy, frequency, osp>>

\* stop_timer().
TStopTimer ==
  /\ started' = FALSE
  /\ UNCHANGED <<strategy, frequency, osp, off, counter, sleep_ns, el, terr,
                 worked, ticks, rebases, late>>

\* The caller's work between two ticks: the clock advances.
TWork ==
  /\ started
  /\ ~worked
  /\ \E w \in WorkSteps : el' = el + w
  /\ worked' = TRUE
  /\ UNCHANGED <<strategy, frequency, osp, started, off, counter, sleep_ns,
                 terr, ticks, rebases, late>>

\* Mutant of TSleepToNextTick: the rebase is checked one tick late, after
\* the counter has already passed 2^23.
TSleepRebaseLate ==
  LET diff == el - off
      rebase == counter = RebaseAt + 1
      c == IF rebase THEN 1 ELSE counter + 1
  IN
  /\ ticks >= 1 /\ (StrictCaller => started)
  /\ ticks < MaxTicks
  /\ diff <= sleep_ns
  /\ \E gap \in 0..Gap, d \in 0..OsDelay :
       LET wake == WakeAt(strategy, diff, gap, d) IN
       /\ el' = off + wake
       /\ late' = wake - sleep_ns
  /\ off' = IF rebase THEN off + sleep_ns ELSE off
  /\ counter' = c
  /\ sleep_ns' = SleepNs(osp, c)
  /\ ticks' = ticks + 1
  /\ rebases' = IF rebase THEN rebases + 1 ELSE rebases
  /\ worked' = FALSE
  /\ UNCHANGED <<strategy, frequency, osp, started, terr>>

\* Mutant of TSleepToNextTick: the rebase resets the counter to 1, so the
\* counter's increment skips a period.
TSleepRebaseOne ==
  LET diff == el - off
      rebase == counter = RebaseAt
      c == IF rebase THEN 2 ELSE counter + 1
  IN
  /\ ticks >= 1 /\ (StrictCaller => started)
  /\ ticks < MaxTicks
  /\ diff <= sleep_ns
  /\ \E gap \in 0..Gap, d \in 0..OsDelay :
       LET wake == WakeAt(strategy, diff, gap, d) IN
       /\ el' = off + wake
       /\ late' = wake - sleep_ns
  /\ off' = IF rebase THEN off + sleep_ns ELSE off
  /\ counter' = c
  /\ sleep_ns' = SleepNs(osp, c)
  /\ ticks' = ticks + 1
  /\ rebases' = IF rebase THEN rebases + 1 ELSE rebases
  /\ worked' = FALSE
  /\ UNCHANGED <<strategy, frequency, osp, started, terr>>

\* sleep_to_next_tick(): it does not look at timer_started_, so it runs
\* on a stopped timer too, from the last start_time_ (a call before any
\* start reads an uninitialized start_time_ and is left out).  It fails
\* if the deadline has already passed;
\* otherwise waits for it, moves start_time_ forward by the current
\* deadline when the counter reaches 2^23 (resetting it), and sets the
\* next deadline.  MaxTicks bounds the ticks of one start.
TSleepToNextTick ==
  LET diff == el - off
      rebase == counter = RebaseAt
      c == IF rebase THEN 1 ELSE counter + 1
  IN
  /\ ticks >= 1 /\ (StrictCaller => started)
  /\ ticks < MaxTicks
  /\ \/ /\ TickMissed
        /\ terr' = TRUE
        /\ UNCHANGED <<el, late, off, counter, sleep_ns, ticks, rebases,
                       worked>>
     \/ /\ diff <= sleep_ns
        /\ \E gap \in 0..Gap, d \in 0..OsDelay :
             LET wake == WakeAt(strategy, diff, gap, d) IN
             /\ el' = off + wake
             /\ late' = wake - sleep_ns
        /\ off' = IF rebase THEN off + sleep_ns ELSE off
        /\ counter' = c
        /\ sleep_ns' = SleepNs(osp, c)
        /\ ticks' = ticks + 1
        /\ rebases' = IF rebase THEN rebases + 1 ELSE rebases
        /\ worked' = FALSE
        /\ UNCHANGED terr
  /\ UNCHANGED <<strategy, frequency, osp, started>>

\* get_error(): drain the error.
TGetError ==
  /\ terr
  /\ terr' = FALSE
  /\ UNCHANGED <<strategy, frequency, osp, started, off, counter, sleep_ns,
                 el, worked, ticks, rebases, late>>

TInit ==
  /\ strategy \in Strategies
  /\ frequency = TIMER_FREQUNCY_ERROR
  /\ osp = -1
  /\ started = FALSE
  /\ off = 0 /\ counter = 0 /\ sleep_ns = 0 /\ el = 0
  /\ terr = FALSE
  /\ worked = FALSE
  /\ ticks = 0 /\ rebases = 0 /\ late = 0

TNext ==
  \/ TInitialize \/ TSetFrequency \/ TStartTimer \/ TStopTimer
  \/ TWork \/ TSleepToNextTick \/ TGetError

TSpec == TInit /\ [][TNext]_tvars

-----------------------------------------------------------------------------
(* Properties                                                              *)

TTypeOK ==
  /\ strategy \in Strategies
  /\ frequency \in Frequencies \cup {TIMER_FREQUNCY_ERROR}
  /\ {started, terr, worked} \subseteq BOOLEAN
  /\ counter \in 0..RebaseAt
  /\ ticks \in 0..MaxTicks
  /\ late \in Nat

\* The ideal n-th deadline since start_timer(): n periods, rounded up.
IdealDeadline(n) == SleepNs(osp, n)

\* Drift of the rebase (comment at lines 73-80 of busy_wait_timer.cpp):
\* moving start_time_ to the current deadline every 2^23 ticks makes the
\* pending deadline late against n exact periods since start_timer() by
\* at most one nanosecond per rebase, and never early.
DriftBoundedByRebases ==
  started =>
    LET drift == (off + sleep_ns) - IdealDeadline(ticks)
    IN 0 <= drift /\ drift <= rebases

\* The waiting strategies (spec section on timers; lines 69-71, 69 and
\* 70-83 of the three files): sleep_to_next_tick() never returns before
\* the deadline, and returns at most LateBound after it: never late for
\* the busy-wait timer, up to the gap plus the OS delay for the free-wait
\* timer, and late only by what the OS delay exceeds the declared worst
\* case for the worst-case timer.
LateBound(s) ==
  CASE s = "busy"  -> 0
    [] s = "free"  -> Gap + OsDelay
    [] s = "worst" -> MaxOf2(0, Gap + OsDelay - WorstDelay)

WakeWithinBound == 0 <= late /\ late <= LateBound(strategy)

====
