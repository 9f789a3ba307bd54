------------------------------- MODULE Slave -------------------------------
(***************************************************************************)
(* A slave of supertel/task1 (src/slave.c) with the master replicated in   *)
(* it (src/master-private.c): what one node does with a packet or with a   *)
(* timer that goes off.  A handler maps the node to a result, the node     *)
(* afterwards and the packets it broadcast; the modules that extend this   *)
(* one put the slaves on a network.                                        *)
(*                                                                         *)
(* What a slave measures and memorises is left out here (see Averages); of *)
(* the master's averages only whether they changed matters, since a change *)
(* makes it send a message that slaves react to.                           *)
(***************************************************************************)
EXTENDS Timer

CONSTANTS
    Slaves,         \* the slaves
    MasterGone,     \* MASTER_GONE_TIMEOUT_MSEC
    MasterRequest,  \* MASTER_REQUEST_TIMEOUT_MSEC
    SlavePolling,   \* SLAVE_POLLING_TIMEOUT_MSEC
    Mastering       \* MASTERING_TIMEOUT_MSEC

ASSUME TimeoutAssumption ==
    MasterGone \in Nat /\ MasterRequest \in Nat /\ SlavePolling \in Nat /\ Mastering \in Nat

VARIABLE
    node            \* slave -> the state of the slave

States == {"OFF", "IDLE", "POLLING", "MASTER", "WAITING"}

Jobs == {"gone", "poll", "mastering", "request"}

Nodes == [state : States, vote_sent : Nat, max_vote : Nat,
          gone : Timers(Jobs), poll : Timers(Jobs), req : Timers(Jobs)]

\* Packets; only votes carry a value.
Packets == [type : {"REQUEST", "RESPONSE", "MSG", "VOTE", "RESET"}, vote : Nat]

Packet(type) == [type |-> type, vote |-> 0]
Vote(v) == [type |-> "VOTE", vote |-> v]

Result(r, out) == [node |-> r, out |-> out]

Off == [state |-> "OFF", vote_sent |-> 0, max_vote |-> 0,
        gone |-> timer_init, poll |-> timer_init, req |-> timer_init]

-----------------------------------------------------------------------------
(* Timers of a slave.  The mastering timer is armed on poll_tmr; the timer *)
(* called mastering_tmr is never armed, and left out.                      *)

slave_arm_master_gone_timer(r) ==
    [r EXCEPT !.gone = timer_set_deadline(@, MasterGone, "gone")]

slave_arm_poll_timer(r) ==
    [r EXCEPT !.poll = timer_set_deadline(@, SlavePolling, "poll")]

slave_arm_mastering_timer(r) ==
    [r EXCEPT !.poll = timer_set_periodic(@, Mastering, "mastering")]

slave_disarm_master_gone_timer(r) == [r EXCEPT !.gone = timer_cancel(@)]
slave_disarm_poll_timer(r)        == [r EXCEPT !.poll = timer_cancel(@)]
slave_disarm_mastering_timer(r)   == [r EXCEPT !.poll = timer_cancel(@)]

-----------------------------------------------------------------------------
(* The master replicated in a slave.                                       *)

master_start(r)   == [r EXCEPT !.req = timer_set_periodic(timer_init, MasterRequest, "request")]
master_deinit_(r) == [r EXCEPT !.req = timer_init]

\* master_act on a response, its own included: the averages are brought up to
\* date and announced when they changed.
master_act_response(r, changed) ==
    Result(r, IF changed THEN {Packet("MSG")} ELSE {})

-----------------------------------------------------------------------------
(* State changes of slave.c.                                               *)

slave_idle(r) ==
    slave_arm_master_gone_timer(
        [r EXCEPT !.state = "IDLE", !.max_vote = 0, !.vote_sent = 0])

slave_prepare_to_poll(r, max) ==
    slave_disarm_master_gone_timer(
        [r EXCEPT !.state = "POLLING", !.max_vote = max, !.vote_sent = 0])

\* Faulty variant: a slave that quits the poll does not wait for the master.
finish_master_polling_unarmed(r, new) ==
    LET s == IF r.state = "POLLING" THEN slave_disarm_poll_timer(r) ELSE r IN
    [s EXCEPT !.state = new]

slave_finish_master_polling(r, new) ==
    LET s == IF r.state = "POLLING" THEN slave_disarm_poll_timer(r) ELSE r IN
    IF new = "WAITING"
    THEN slave_arm_master_gone_timer([s EXCEPT !.state = new])
    ELSE [s EXCEPT !.state = new, !.vote_sent = 0, !.max_vote = 0]

\* Faulty variant: a vote equal to the greatest one heard is sent.
poll_with_equal_vote(r, v) ==
    LET s == [r EXCEPT !.vote_sent = v] IN
    IF v >= r.max_vote
    THEN Result(slave_arm_poll_timer(s), {Vote(v)})
    ELSE Result(slave_finish_master_polling(s, "WAITING"), {})

\* v is the random vote drawn.
slave_poll(r, v) ==
    LET s == [r EXCEPT !.vote_sent = v] IN
    IF v > r.max_vote
    THEN Result(slave_arm_poll_timer(s), {Vote(v)})
    ELSE Result(slave_finish_master_polling(s, "WAITING"), {})

-----------------------------------------------------------------------------
(* Packets, by state (ACTORS).                                             *)

\* Faulty variant: a request is answered, but not taken as a sign of life.
act_idle_without_rearming(r, p, v) ==
    CASE p.type = "REQUEST" -> Result(r, {Packet("RESPONSE")})
      [] p.type = "VOTE"    -> slave_poll(slave_prepare_to_poll(r, p.vote), v)
      [] OTHER              -> Result(r, {})

slave_act_idle(r, p, v) ==
    CASE p.type = "REQUEST" -> Result(slave_arm_master_gone_timer(r), {Packet("RESPONSE")})
      [] p.type = "MSG"     -> Result(slave_arm_master_gone_timer(r), {})
      [] p.type = "VOTE"    -> slave_poll(slave_prepare_to_poll(r, p.vote), v)
      [] OTHER              -> Result(r, {})

\* A reset, a request or a message ends the poll.  The state is already IDLE
\* when slave_finish_master_polling runs, so the poll timer stays armed.
EndPoll(r) == slave_finish_master_polling(slave_idle(r), "IDLE")

Heard(r, vote) == IF r.max_vote < vote THEN [r EXCEPT !.max_vote = vote] ELSE r

\* Faulty variant: the first lower vote is taken for the end of the poll.
act_poll_hastily(r, p, v) ==
    IF p.type = "VOTE" /\ p.vote < r.vote_sent
    THEN Result(slave_finish_master_polling(r, "MASTER"), {})
    ELSE Result(r, {})

slave_act_poll(r, p, v) ==
    CASE p.type = "VOTE" /\ p.vote > r.vote_sent ->
            Result(slave_finish_master_polling(Heard(r, p.vote), "WAITING"), {})
      [] p.type = "VOTE" /\ p.vote < r.vote_sent ->
            Result(Heard(r, p.vote), {})
      [] p.type = "VOTE" /\ p.vote = r.vote_sent ->
            slave_poll(slave_prepare_to_poll(Heard(r, p.vote), 0), v)
      [] p.type = "RESET"             -> Result(EndPoll(r), {})
      [] p.type \in {"REQUEST", "MSG"} -> slave_act_idle(EndPoll(r), p, v)
      [] OTHER                        -> Result(r, {})

\* Faulty variant: the mastering timer is not disarmed.
StepDown_keeps_timer(r) == slave_idle(master_deinit_(r))

StepDown(r) == slave_idle(slave_disarm_mastering_timer(master_deinit_(r)))

\* Faulty variant: the reset of the regular master is not handled.
act_master_without_reset(r, p, v, changed) ==
    IF p.type \in {"REQUEST", "MSG", "VOTE"}
    THEN Result(StepDown(r), {})
    ELSE master_act_response(r, changed)

slave_act_master(r, p, v, changed) ==
    CASE p.type = "VOTE" /\ r.vote_sent # 0 -> Result(r, {})
      [] p.type = "VOTE" /\ r.vote_sent = 0 ->
            slave_poll(slave_prepare_to_poll(StepDown(r), p.vote), v)
      [] p.type = "REQUEST"          -> Result(StepDown(r), {Packet("RESPONSE")})
      [] p.type \in {"MSG", "RESET"} -> Result(StepDown(r), {})
      [] OTHER                       -> master_act_response(r, changed)

slave_act_waiting_master(r, p, v) ==
    IF p.type \in {"RESET", "REQUEST", "MSG"}
    THEN slave_act_idle(slave_idle(r), p, v)
    ELSE Result(r, {})

slave_act(r, p, v, changed) ==
    CASE r.state = "IDLE"    -> slave_act_idle(r, p, v)
      [] r.state = "POLLING" -> slave_act_poll(r, p, v)
      [] r.state = "MASTER"  -> slave_act_master(r, p, v, changed)
      [] r.state = "WAITING" -> slave_act_waiting_master(r, p, v)

-----------------------------------------------------------------------------
(* Timers going off.  The function called is the one the timer was last    *)
(* armed with.                                                             *)

slave_master_timed_out(r, v) == slave_poll(slave_prepare_to_poll(r, 0), v)

slave_poll_timeout(r) ==
    IF r.state = "POLLING"
    THEN Result(slave_arm_mastering_timer(master_start(
                    slave_finish_master_polling(slave_disarm_poll_timer(r), "MASTER"))),
                {})
    ELSE Result(r, {})

slave_mastering_timeout(r, changed) ==
    IF r.state = "MASTER" THEN master_act_response(r, changed) ELSE Result(r, {})

gone_fires(r, v) == slave_master_timed_out([r EXCEPT !.gone = Fired(@)], v)

poll_fires(r, changed) ==
    LET s == [r EXCEPT !.poll = Fired(@)] IN
    IF r.poll.job = "poll" THEN slave_poll_timeout(s) ELSE slave_mastering_timeout(s, changed)

\* timeout of master-private.c.
request_fires(r) == Result([r EXCEPT !.req = Fired(@)], {Packet("REQUEST")})

slave_run == slave_idle(Off)

-----------------------------------------------------------------------------
(* What a slave is like between two handlers.                              *)

\* A timer that will call job once, or again and again.
Once(t, job) == t.slot = "once" /\ t.runs = "single" /\ t.job = job
Many(t, job) == t.slot = "many" /\ t.runs = "periodic" /\ t.job = job

\* The timers of a slave fit its state.
Fit(r) ==
    /\ r.state \in {"IDLE", "WAITING"} => Once(r.gone, "gone")
    /\ r.state \notin {"IDLE", "WAITING"} => r.gone.slot = "none"
    /\ r.state = "POLLING" => Once(r.poll, "poll")
    /\ r.state = "MASTER" => Many(r.poll, "mastering") /\ Many(r.req, "request")
    /\ r.state # "MASTER" => /\ r.req.slot = "none"
                             /\ r.poll.slot = "none" \/ Once(r.poll, "poll")

\* The votes of a slave fit its state.
Ahead(r) ==
    /\ r.state = "POLLING" => r.vote_sent > r.max_vote
    /\ r.state \in {"IDLE", "MASTER"} => r.vote_sent = 0 /\ r.max_vote = 0
=============================================================================
