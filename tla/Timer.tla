------------------------------- MODULE Timer -------------------------------
(***************************************************************************)
(* The timers of supertel/lib/timer.c, as values.  A timer owns a timerfd  *)
(* and, through the IO service, a job slot for reading it.  Arming a timer *)
(* always resets the timerfd and the function to call, but a slot that is  *)
(* taken keeps the job it has, and with it that job's one-shot flag: this  *)
(* is what io_service_post_job does (see IoService).                       *)
(*                                                                         *)
(* A cancelled timer is only taken off its slot.  Its timerfd counts on,   *)
(* but nothing listens and every arming sets it anew, so the timerfd of a  *)
(* timer without a slot is not kept.                                       *)
(***************************************************************************)
EXTENDS Naturals

\* slot: the timer's job with the IO service, none, one-shot or staying.
\* runs: its timerfd, stopped, running towards one expiry or at an interval.
\* left, period: time to the next expiry, and between expiries.
\* job:  the function to call.
Timers(Job) == [slot : {"none", "once", "many"}, runs : {"no", "single", "periodic"},
                left : Nat, period : Nat, job : Job \cup {"none"}]

timer_init == [slot |-> "none", runs |-> "no", left |-> 0, period |-> 0, job |-> "none"]

\* timer_set_deadline: a one-shot job after d.
timer_set_deadline(t, d, job) ==
    [slot |-> IF t.slot = "none" THEN "once" ELSE t.slot,
     runs |-> "single", left |-> d, period |-> 0, job |-> job]

\* timer_set_periodic: a job every d.
timer_set_periodic(t, d, job) ==
    [slot |-> IF t.slot = "none" THEN "many" ELSE t.slot,
     runs |-> "periodic", left |-> d, period |-> d, job |-> job]

timer_cancel(t) == timer_init

\* The timer will go off.
Armed(t) == t.slot # "none" /\ t.runs # "no"

\* The timer as its job finds it, tmr_job_tpl having read the timerfd: a
\* one-shot job has left its slot, a timerfd with an interval runs on.
Fired(t) ==
    CASE t.slot = "once"                           -> timer_init
      [] t.slot # "once" /\ t.runs = "periodic"    -> [t EXCEPT !.left = t.period]
      [] t.slot # "once" /\ t.runs # "periodic"    -> [t EXCEPT !.runs = "no"]

\* A unit of time passes.
Ticked(t) == IF Armed(t) /\ t.left > 0 THEN [t EXCEPT !.left = @ - 1] ELSE t
=============================================================================
