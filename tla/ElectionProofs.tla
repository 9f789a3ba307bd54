--------------------------- MODULE ElectionProofs ---------------------------
(***************************************************************************)
(* The slaves of supertel/task1 on both networks, for any number of them,  *)
(* any votes and any timeouts that keep the assumptions.                   *)
(*                                                                         *)
(* A handler composes several state changes, some of which pass through    *)
(* nodes that are not in order.  There is a lemma for each state change    *)
(* that several handlers share, and two for each handler: it takes a node  *)
(* in order to a node in order, and its outcome is one of a few as far as  *)
(* clocks and votes are concerned.  The handlers are those of Slave, which *)
(* both elections extend.                                                  *)
(*                                                                         *)
(* On the network that makes no promise (LossyElection) the timers and the *)
(* votes of every slave fit its state.  On the network the protocol is     *)
(* made for (TimedElection) the gone timers of all slaves stay far enough  *)
(* behind the timers of whoever polls or acts as the master.               *)
(***************************************************************************)
EXTENDS LossyElection, TimedElection, TLAPS

\* Zenon is asked first; a leaf with arithmetic or records cites SMT.
USE Zenon

\* A node in order.
Good(r) == r \in Nodes /\ Fit(r) /\ Ahead(r)

\* The result of a handler of slave r: the node is in order and, when it polls,
\* has either sent its vote now or polls on with the vote it had sent before.
GoodResult(r, res) ==
    /\ Good(res.node)
    /\ res.out \subseteq Packets
    /\ res.node.state = "POLLING" =>
          \/ Vote(res.node.vote_sent) \in res.out
          \/ r.state = "POLLING" /\ res.node.vote_sent = r.vote_sent

-----------------------------------------------------------------------------
(* State changes.                                                          *)

\* Arming, cancelling and firing a timer yield timers.
LEMMA TimerTypes ==
    ASSUME NEW t \in Timers(Jobs), NEW d \in Nat, NEW job \in Jobs
    PROVE  /\ timer_init \in Timers(Jobs)
           /\ timer_cancel(t) \in Timers(Jobs)
           /\ timer_set_deadline(t, d, job) \in Timers(Jobs)
           /\ timer_set_periodic(t, d, job) \in Timers(Jobs)
           /\ Fired(t) \in Timers(Jobs)
  BY DEF Timers, timer_init, timer_cancel, timer_set_deadline, timer_set_periodic, Fired

\* slave_idle puts a node in order whose gone and poll timers are one-shot ones
\* and which does not query slaves.
LEMMA IdleGood ==
    ASSUME NEW r \in Nodes,
           r.gone.slot = "none" \/ Once(r.gone, "gone"),
           r.poll.slot = "none" \/ Once(r.poll, "poll"),
           r.req.slot = "none"
    PROVE  Good(slave_idle(r)) /\ slave_idle(r).state = "IDLE"
<1>1. timer_set_deadline(r.gone, MasterGone, "gone") \in Timers(Jobs)
  BY TimeoutAssumption, TimerTypes DEF Nodes, Jobs
<1>2. slave_idle(r) \in Nodes
  BY <1>1 DEF slave_idle, slave_arm_master_gone_timer, Nodes, States
<1>3. Once(timer_set_deadline(r.gone, MasterGone, "gone"), "gone")
  BY DEF timer_set_deadline, Once
<1>4. slave_idle(r).gone = timer_set_deadline(r.gone, MasterGone, "gone")
  BY DEF slave_idle, slave_arm_master_gone_timer, Nodes
<1> QED
  BY <1>2, <1>3, <1>4 DEF Good, Fit, Ahead, slave_idle, slave_arm_master_gone_timer, Nodes

\* A node that slave_prepare_to_poll left.
Prepared(r) ==
    /\ r \in Nodes
    /\ r.state = "POLLING"
    /\ r.gone.slot = "none"
    /\ r.req.slot = "none"
    /\ r.poll.slot = "none" \/ Once(r.poll, "poll")

\* slave_prepare_to_poll prepares a slave.
LEMMA PrepareGood ==
    ASSUME NEW r \in Nodes, NEW max \in Nat,
           r.req.slot = "none",
           r.poll.slot = "none" \/ Once(r.poll, "poll")
    PROVE  Prepared(slave_prepare_to_poll(r, max))
<1>1. timer_init \in Timers(Jobs)
  BY DEF Timers, timer_init
<1> QED
  BY <1>1 DEF Prepared, slave_prepare_to_poll, slave_disarm_master_gone_timer, timer_cancel,
     timer_init, Nodes, States

\* slave_poll ends in order: polling ahead of all votes, or waiting.
LEMMA PollGood ==
    ASSUME NEW r, Prepared(r), NEW v \in Nat, NEW q
    PROVE  GoodResult(q, slave_poll(r, v)) /\ slave_poll(r, v).node.state # "MASTER"
<1> DEFINE s == [r EXCEPT !.vote_sent = v]
<1>1. s \in Nodes /\ r \in Nodes
  BY DEF Prepared, Nodes
<1>2. CASE v > r.max_vote
  <2> DEFINE pt == timer_set_deadline(r.poll, SlavePolling, "poll")
             u == slave_arm_poll_timer(s)
  <2>1. pt \in Timers(Jobs) /\ Once(pt, "poll")
    BY <1>1, TimeoutAssumption, TimerTypes
    DEF Nodes, Jobs, timer_set_deadline, Once, Prepared
  <2>2. slave_poll(r, v) = [node |-> u, out |-> {Vote(v)}]
    BY <1>2 DEF slave_poll, Result
  <2>3. u = [s EXCEPT !.poll = pt]
    BY <1>1 DEF slave_arm_poll_timer, Nodes
  <2> HIDE DEF pt, u
  <2>4. u \in Nodes /\ u.state = "POLLING" /\ u.poll = pt /\ u.vote_sent = v
        /\ u.max_vote = r.max_vote /\ u.gone = r.gone /\ u.req = r.req
    BY <1>1, <2>1, <2>3 DEF Nodes, Prepared
  <2>5. Good(u)
    BY <2>1, <2>4, <1>2 DEF Good, Fit, Ahead, Prepared
  <2>6. {Vote(v)} \subseteq Packets
    BY SMT DEF Vote, Packets
  <2> QED
    BY <2>2, <2>4, <2>5, <2>6, SMT DEF GoodResult
<1>3. CASE ~ (v > r.max_vote)
  <2> DEFINE gt == timer_set_deadline(r.gone, MasterGone, "gone")
             u == slave_finish_master_polling(s, "WAITING")
  <2>1. gt \in Timers(Jobs) /\ Once(gt, "gone") /\ timer_init \in Timers(Jobs)
    BY <1>1, TimeoutAssumption, TimerTypes
    DEF Nodes, Jobs, timer_set_deadline, Once, Prepared
  <2>2. slave_poll(r, v) = [node |-> u, out |-> {}]
    BY <1>3 DEF slave_poll, Result
  <2>3. u = [s EXCEPT !.poll = timer_init, !.state = "WAITING", !.gone = gt]
    BY <1>1 DEF slave_finish_master_polling, slave_arm_master_gone_timer,
       slave_disarm_poll_timer, timer_cancel, Nodes, Prepared
  <2> HIDE DEF gt, u
  <2>4. u \in Nodes /\ u.state = "WAITING" /\ u.poll = timer_init /\ u.gone = gt /\ u.req = r.req
    BY <1>1, <2>1, <2>3 DEF Nodes, States, Prepared
  <2>5. Good(u)
    BY <2>1, <2>4, SMT DEF Good, Fit, Ahead, Prepared, timer_init
  <2> QED
    BY <2>2, <2>4, <2>5, SMT DEF GoodResult
<1> QED
  BY <1>2, <1>3
-----------------------------------------------------------------------------
(* Packets.                                                                *)

\* A node that does nothing stays in order.
LEMMA SameGood ==
    ASSUME NEW r, Good(r)
    PROVE  GoodResult(r, Result(r, {})) /\ Result(r, {}).node = r
  BY DEF GoodResult, Result

\* Re-arming the gone timer of an idle slave.
LEMMA RearmGood ==
    ASSUME NEW r, Good(r), r.state = "IDLE"
    PROVE  /\ Good(slave_arm_master_gone_timer(r))
           /\ slave_arm_master_gone_timer(r).state = "IDLE"
<1> DEFINE gt == timer_set_deadline(r.gone, MasterGone, "gone")
<1>1. gt \in Timers(Jobs) /\ Once(gt, "gone")
  BY TimeoutAssumption, TimerTypes DEF Good, Fit, Nodes, Jobs, timer_set_deadline, Once
<1>2. slave_arm_master_gone_timer(r) = [r EXCEPT !.gone = gt]
  BY DEF slave_arm_master_gone_timer, Good, Nodes
<1> HIDE DEF gt
<1>3. [r EXCEPT !.gone = gt] \in Nodes
  BY <1>1 DEF Good, Nodes
<1> QED
  BY <1>1, <1>2, <1>3 DEF Good, Fit, Ahead, Nodes

\* The packets without a vote are packets.
LEMMA PacketTypes == \A type \in {"REQUEST", "RESPONSE", "MSG", "RESET"} : Packet(type) \in Packets
  BY DEF Packet, Packets

\* slave_act_idle keeps a slave in order.
LEMMA ActIdleGood ==
    ASSUME NEW r, Good(r), r.state = "IDLE", NEW p \in Packets, NEW v \in Nat, NEW q
    PROVE  /\ GoodResult(q, slave_act_idle(r, p, v))
           /\ slave_act_idle(r, p, v).node.state # "MASTER"
<1>1. CASE p.type = "REQUEST"
  BY <1>1, RearmGood, PacketTypes DEF slave_act_idle, GoodResult, Result
<1>2. CASE p.type = "MSG"
  BY <1>2, RearmGood DEF slave_act_idle, GoodResult, Result
<1>3. CASE p.type = "VOTE"
  <2>1. slave_act_idle(r, p, v) = slave_poll(slave_prepare_to_poll(r, p.vote), v)
    BY <1>3 DEF slave_act_idle
  <2>2. Prepared(slave_prepare_to_poll(r, p.vote))
    BY PrepareGood DEF Good, Fit, Packets
  <2> QED
    BY <2>1, <2>2, PollGood
<1>4. CASE p.type \notin {"REQUEST", "MSG", "VOTE"}
  BY <1>4 DEF slave_act_idle, GoodResult, Result
<1> QED
  BY <1>1, <1>2, <1>3, <1>4

\* Ending a poll leaves an idle slave in order, with a poll timer to be ignored.
LEMMA EndPollGood ==
    ASSUME NEW r, Good(r), r.state = "POLLING"
    PROVE  Good(EndPoll(r)) /\ EndPoll(r).state = "IDLE"
<1> DEFINE w == slave_idle(r)
           u == EndPoll(r)
<1>1. Good(w) /\ w.state = "IDLE"
  BY IdleGood DEF Good, Fit
<1>2. u = [[w EXCEPT !.state = "IDLE"] EXCEPT !.vote_sent = 0, !.max_vote = 0]
  BY <1>1 DEF EndPoll, slave_finish_master_polling
<1> HIDE DEF w, u
<1>3. w \in Nodes
  BY <1>1 DEF Good
<1>4. u \in Nodes
  BY <1>2, <1>3 DEF Nodes, States
<1>5. /\ u.state = "IDLE" /\ u.vote_sent = 0 /\ u.max_vote = 0
      /\ u.gone = w.gone /\ u.poll = w.poll /\ u.req = w.req
  BY <1>2, <1>3 DEF Nodes
<1>6. Good(u)
  BY <1>1, <1>4, <1>5 DEF Good, Fit, Ahead
<1> QED
  BY <1>5, <1>6 DEF u

\* Noting the greatest vote heard.
LEMMA HeardType ==
    ASSUME NEW r \in Nodes, NEW x \in Nat
    PROVE  /\ Heard(r, x) \in Nodes
           /\ Heard(r, x).state = r.state /\ Heard(r, x).vote_sent = r.vote_sent
           /\ Heard(r, x).gone = r.gone /\ Heard(r, x).poll = r.poll /\ Heard(r, x).req = r.req
           /\ Heard(r, x).max_vote \in {r.max_vote, x}
  BY DEF Heard, Nodes

\* slave_act_poll keeps a slave in order.
LEMMA ActPollGood ==
    ASSUME NEW r, Good(r), r.state = "POLLING", NEW p \in Packets, NEW v \in Nat
    PROVE  /\ GoodResult(r, slave_act_poll(r, p, v))
           /\ slave_act_poll(r, p, v).node.state # "MASTER"
<1> DEFINE h == Heard(r, p.vote)
<1>0. /\ r \in Nodes /\ p.vote \in Nat /\ r.vote_sent \in Nat
      /\ h \in Nodes /\ h.state = "POLLING" /\ h.vote_sent = r.vote_sent
      /\ h.gone = r.gone /\ h.poll = r.poll /\ h.req = r.req /\ h.max_vote \in {r.max_vote, p.vote}
  BY HeardType DEF Good, Packets, Nodes
<1> HIDE DEF h
<1>1. CASE p.type = "VOTE" /\ p.vote > r.vote_sent
  <2> DEFINE gt == timer_set_deadline(r.gone, MasterGone, "gone")
             u == slave_finish_master_polling(h, "WAITING")
  <2>1. gt \in Timers(Jobs) /\ Once(gt, "gone") /\ timer_init \in Timers(Jobs)
    BY <1>0, TimeoutAssumption, TimerTypes
    DEF Nodes, Jobs, timer_set_deadline, Once, Good, Fit
  <2>2. slave_act_poll(r, p, v) = [node |-> u, out |-> {}]
    BY <1>0, <1>1, SMT DEF slave_act_poll, Result, h
  <2>3. u = [h EXCEPT !.poll = timer_init, !.state = "WAITING", !.gone = gt]
    BY <1>0 DEF slave_finish_master_polling, slave_arm_master_gone_timer,
       slave_disarm_poll_timer, timer_cancel, Nodes
  <2> HIDE DEF gt, u
  <2>4. u \in Nodes /\ u.state = "WAITING" /\ u.poll = timer_init /\ u.gone = gt /\ u.req = r.req
    BY <1>0, <2>1, <2>3 DEF Nodes, States
  <2>5. Good(u)
    BY <2>1, <2>4, SMT DEF Good, Fit, Ahead, timer_init
  <2> QED
    BY <2>2, <2>4, <2>5, SMT DEF GoodResult
<1>2. CASE p.type = "VOTE" /\ p.vote < r.vote_sent
  <2>1. slave_act_poll(r, p, v) = [node |-> h, out |-> {}]
    BY <1>0, <1>2, SMT DEF slave_act_poll, Result, h
  <2>2. Good(h)
    BY <1>0, <1>2 DEF Good, Fit, Ahead
  <2> QED
    BY <1>0, <2>1, <2>2, SMT DEF GoodResult
<1>3. CASE p.type = "VOTE" /\ p.vote = r.vote_sent
  <2>1. slave_act_poll(r, p, v) = slave_poll(slave_prepare_to_poll(h, 0), v)
    BY <1>0, <1>3, SMT DEF slave_act_poll, h
  <2>2. Prepared(slave_prepare_to_poll(h, 0))
    BY <1>0, PrepareGood DEF Good, Fit
  <2> QED
    BY <2>1, <2>2, PollGood
<1>4. CASE p.type = "RESET"
  BY <1>4, EndPollGood DEF slave_act_poll, GoodResult, Result
<1>5. CASE p.type \in {"REQUEST", "MSG"}
  <2>1. slave_act_poll(r, p, v) = slave_act_idle(EndPoll(r), p, v)
    BY <1>5 DEF slave_act_poll
  <2> QED
    BY <2>1, EndPollGood, ActIdleGood
<1>6. CASE p.type = "RESPONSE"
  <2>1. slave_act_poll(r, p, v) = Result(r, {})
    BY <1>6 DEF slave_act_poll
  <2> QED
    BY <2>1, SameGood
<1> QED
  BY <1>0, <1>1, <1>2, <1>3, <1>4, <1>5, <1>6, SMT DEF Packets
\* Stepping down leaves an idle slave in order.
LEMMA StepDownGood ==
    ASSUME NEW r, Good(r), r.state = "MASTER"
    PROVE  Good(StepDown(r)) /\ StepDown(r).state = "IDLE"
<1> DEFINE s == [r EXCEPT !.req = timer_init, !.poll = timer_init]
<1>1. StepDown(r) = slave_idle(s)
  BY DEF StepDown, slave_disarm_mastering_timer, master_deinit_, timer_cancel, Good, Nodes
<1>2. s \in Nodes /\ s.gone = r.gone /\ s.poll = timer_init /\ s.req = timer_init
  BY DEF Good, Nodes, Timers, timer_init
<1> HIDE DEF s
<1> QED
  BY <1>1, <1>2, IdleGood, SMT DEF Good, Fit, timer_init

\* slave_act_master keeps a slave in order.
LEMMA ActMasterGood ==
    ASSUME NEW r, Good(r), r.state = "MASTER", NEW p \in Packets, NEW v \in Nat,
           NEW changed \in BOOLEAN
    PROVE  GoodResult(r, slave_act_master(r, p, v, changed))
<1>0. r.vote_sent = 0
  BY DEF Good, Ahead
<1>1. CASE p.type = "VOTE"
  <2>1. slave_act_master(r, p, v, changed)
        = slave_poll(slave_prepare_to_poll(StepDown(r), p.vote), v)
    BY <1>0, <1>1 DEF slave_act_master
  <2>2. Prepared(slave_prepare_to_poll(StepDown(r), p.vote))
    BY PrepareGood, StepDownGood DEF Good, Fit, Packets
  <2> QED
    BY <2>1, <2>2, PollGood
<1>2. CASE p.type = "REQUEST"
  BY <1>2, StepDownGood, PacketTypes DEF slave_act_master, GoodResult, Result
<1>3. CASE p.type \in {"MSG", "RESET"}
  BY <1>3, StepDownGood DEF slave_act_master, GoodResult, Result
<1>4. CASE p.type = "RESPONSE"
  <2>1. slave_act_master(r, p, v, changed) = master_act_response(r, changed)
    BY <1>4 DEF slave_act_master
  <2> QED
    BY <2>1, PacketTypes, SMT DEF master_act_response, GoodResult, Result
<1> QED
  BY <1>1, <1>2, <1>3, <1>4 DEF Packets

\* slave_act_waiting_master keeps a slave in order.
LEMMA ActWaitingGood ==
    ASSUME NEW r, Good(r), r.state = "WAITING", NEW p \in Packets, NEW v \in Nat
    PROVE  /\ GoodResult(r, slave_act_waiting_master(r, p, v))
           /\ slave_act_waiting_master(r, p, v).node.state # "MASTER"
<1>1. Good(slave_idle(r)) /\ slave_idle(r).state = "IDLE"
  BY IdleGood DEF Good, Fit
<1>2. CASE p.type \in {"RESET", "REQUEST", "MSG"}
  <2>1. slave_act_waiting_master(r, p, v) = slave_act_idle(slave_idle(r), p, v)
    BY <1>2 DEF slave_act_waiting_master
  <2> QED
    BY <1>1, <2>1, ActIdleGood
<1>3. CASE p.type \notin {"RESET", "REQUEST", "MSG"}
  BY <1>3, SameGood DEF slave_act_waiting_master
<1> QED
  BY <1>2, <1>3

\* A slave in order handles any packet to end in order.
LEMMA ActGood ==
    ASSUME NEW r, Good(r), r.state # "OFF", NEW p \in Packets, NEW v \in Nat,
           NEW changed \in BOOLEAN
    PROVE  /\ GoodResult(r, slave_act(r, p, v, changed))
           /\ slave_act(r, p, v, changed).node.state = "MASTER" => r.state = "MASTER"
<1>1. CASE r.state = "IDLE"
  BY <1>1, ActIdleGood DEF slave_act
<1>2. CASE r.state = "POLLING"
  BY <1>2, ActPollGood DEF slave_act
<1>3. CASE r.state = "MASTER"
  BY <1>3, ActMasterGood DEF slave_act
<1>4. CASE r.state = "WAITING"
  BY <1>4, ActWaitingGood DEF slave_act
<1> QED
  BY <1>1, <1>2, <1>3, <1>4 DEF Good, Nodes, States

-----------------------------------------------------------------------------
(* Timers going off.                                                       *)

\* The gone timer starts a poll.
LEMMA GoneGood ==
    ASSUME NEW r, Good(r), Armed(r.gone), NEW v \in Nat
    PROVE  GoodResult(r, gone_fires(r, v)) /\ gone_fires(r, v).node.state # "MASTER"
<1> DEFINE s == [r EXCEPT !.gone = Fired(@)]
<1>1. r.state \in {"IDLE", "WAITING"}
  BY DEF Good, Fit, Armed
<1>2. Fired(r.gone) \in Timers(Jobs)
  BY TimerTypes, TimeoutAssumption DEF Good, Nodes, Jobs
<1>3. s \in Nodes /\ s.poll = r.poll /\ s.req = r.req
  BY <1>2 DEF Good, Nodes
<1> HIDE DEF s
<1>4. Prepared(slave_prepare_to_poll(s, 0))
  BY <1>1, <1>3, PrepareGood DEF Good, Fit
<1>5. gone_fires(r, v) = slave_poll(slave_prepare_to_poll(s, 0), v)
  BY DEF gone_fires, slave_master_timed_out, s
<1> QED
  BY <1>4, <1>5, PollGood
\* The poll timer makes a polling slave the master, with both its timers; left
\* behind in another state it does nothing; for a master it is the timer of its
\* own sensors.
LEMMA PollTimerGood ==
    ASSUME NEW r, Good(r), Armed(r.poll), NEW changed \in BOOLEAN
    PROVE  /\ GoodResult(r, poll_fires(r, changed))
           /\ r.state # "MASTER" /\ poll_fires(r, changed).node.state = "MASTER" =>
                 r.state = "POLLING" /\ poll_fires(r, changed).out = {}
<1> DEFINE s == [r EXCEPT !.poll = Fired(@)]
<1>1. Fired(r.poll) \in Timers(Jobs)
  BY TimerTypes, TimeoutAssumption DEF Good, Nodes, Jobs
<1>2. /\ s \in Nodes /\ s.state = r.state /\ s.vote_sent = r.vote_sent /\ s.max_vote = r.max_vote
      /\ s.gone = r.gone /\ s.req = r.req /\ s.poll = Fired(r.poll)
  BY <1>1 DEF Good, Nodes
<1>3. CASE r.state = "MASTER"
  <2>1. Many(r.poll, "mastering")
    BY <1>3 DEF Good, Fit
  <2>2. Many(Fired(r.poll), "mastering")
    BY <1>2, <2>1 DEF Many, Fired, Good, Nodes, Timers
  <2>3. poll_fires(r, changed) = master_act_response(s, changed)
    BY <1>2, <1>3, <2>1 DEF poll_fires, slave_mastering_timeout, Many
  <2> HIDE DEF s
  <2>4. Good(s)
    BY <1>2, <1>3, <2>2 DEF Good, Fit, Ahead
  <2> QED
    BY <1>2, <1>3, <2>3, <2>4, PacketTypes, SMT DEF master_act_response, GoodResult, Result
<1>4. CASE r.state # "MASTER"
  <2>1. Once(r.poll, "poll")
    BY <1>4 DEF Good, Fit, Armed
  <2>2. Fired(r.poll) = timer_init
    BY <2>1 DEF Once, Fired
  <2>3. poll_fires(r, changed) = slave_poll_timeout(s)
    BY <2>1 DEF poll_fires, Once
  <2> HIDE DEF s
  <2>4. CASE r.state = "POLLING"
    <3> DEFINE mt == timer_set_periodic(timer_init, Mastering, "mastering")
               rt == timer_set_periodic(timer_init, MasterRequest, "request")
               u == slave_poll_timeout(s).node
    <3>1. /\ mt \in Timers(Jobs) /\ Many(mt, "mastering")
          /\ rt \in Timers(Jobs) /\ Many(rt, "request")
      BY TimerTypes, TimeoutAssumption, SMT
      DEF Jobs, timer_set_periodic, timer_init, Many, Timers
    <3>2. slave_disarm_poll_timer(s) = s
      BY <1>2, <2>2 DEF slave_disarm_poll_timer, timer_cancel, Nodes
    <3> DEFINE f == slave_finish_master_polling(s, "MASTER")
    <3>3. f = [s EXCEPT !.poll = timer_init, !.state = "MASTER", !.vote_sent = 0, !.max_vote = 0]
      BY <1>2, <2>4 DEF slave_finish_master_polling, slave_disarm_poll_timer, timer_cancel, Nodes
    <3>4a. u = slave_arm_mastering_timer(master_start(f)) /\ slave_poll_timeout(s).out = {}
      BY <1>2, <2>4, <3>2 DEF slave_poll_timeout, Result
    <3> HIDE DEF f, u
    <3>4b. slave_arm_mastering_timer(master_start(f)) = [[f EXCEPT !.req = rt] EXCEPT !.poll = mt]
      BY <1>2, <3>3 DEF slave_arm_mastering_timer, master_start, Nodes
    <3>4. u = [[f EXCEPT !.req = rt] EXCEPT !.poll = mt]
      BY <3>4a, <3>4b
    <3> HIDE DEF mt, rt
    <3>5. /\ u \in Nodes /\ u.state = "MASTER" /\ u.vote_sent = 0 /\ u.max_vote = 0
          /\ u.req = rt /\ u.poll = mt /\ u.gone = r.gone
      BY <1>2, <3>1, <3>3, <3>4 DEF Nodes, States
    <3>6. Good(u)
      BY <2>4, <3>1, <3>5 DEF Good, Fit, Ahead
    <3> QED
      BY <2>3, <2>4, <3>4a, <3>5, <3>6 DEF GoodResult, u
  <2>5. CASE r.state # "POLLING"
    <3>1. poll_fires(r, changed) = [node |-> s, out |-> {}]
      BY <1>2, <2>3, <2>5 DEF slave_poll_timeout, Result
    <3>2. Good(s)
      BY <1>2, <1>4, <2>2, <2>5, SMT DEF Good, Fit, Ahead, timer_init
    <3> QED
      BY <1>2, <1>4, <2>5, <3>1, <3>2, SMT DEF GoodResult
  <2> QED
    BY <2>4, <2>5
<1> QED
  BY <1>3, <1>4

\* The request timer of a master runs on.
LEMMA RequestGood ==
    ASSUME NEW r, Good(r), Armed(r.req)
    PROVE  /\ GoodResult(r, request_fires(r))
           /\ r.state = "MASTER"
<1> DEFINE s == [r EXCEPT !.req = Fired(@)]
<1>1. r.state = "MASTER"
  BY DEF Good, Fit, Armed
<1>2. Fired(r.req) \in Timers(Jobs)
  BY TimerTypes, TimeoutAssumption DEF Good, Nodes, Jobs
<1>3. /\ s \in Nodes /\ s.state = r.state /\ s.vote_sent = r.vote_sent /\ s.max_vote = r.max_vote
      /\ s.gone = r.gone /\ s.poll = r.poll /\ s.req = Fired(r.req)
  BY <1>2 DEF Good, Nodes
<1>4. Many(Fired(r.req), "request")
  BY <1>1 DEF Many, Fired, Good, Fit, Nodes, Timers
<1>5. request_fires(r) = [node |-> s, out |-> {Packet("REQUEST")}]
  BY DEF request_fires, Result
<1> HIDE DEF s
<1>6. Good(s)
  BY <1>1, <1>3, <1>4 DEF Good, Fit, Ahead
<1> QED
  BY <1>1, <1>3, <1>5, <1>6, PacketTypes, SMT DEF GoodResult

\* A slave that is off, and one that starts, are in order.
LEMMA OffGood == Good(Off) /\ Good(slave_run) /\ slave_run.state = "IDLE" /\ Off.state = "OFF"
<1>1. Off \in Nodes
  BY DEF Off, Nodes, States, Timers, timer_init
<1>2. Good(Off)
  BY <1>1 DEF Good, Fit, Ahead, Off, timer_init
<1> QED
  BY <1>1, <1>2, IdleGood DEF slave_run, Off, timer_init

-----------------------------------------------------------------------------
(* What a handler does to the timers of its slave, and what it sends.      *)

\* The timers of a slave count down from the timeouts.
Bounded(r) ==
    /\ r.gone.left <= MasterGone
    /\ r.state = "POLLING" => r.poll.left <= SlavePolling
    /\ r.state = "MASTER" => r.req.left <= MasterRequest /\ r.req.period = MasterRequest

NoVotes(out) == \A p \in out : p.type # "VOTE"

\* The slave goes on as before.
Stays(r, res) ==
    LET q == res.node IN
    /\ q.state = r.state /\ q.gone = r.gone
    /\ r.state = "POLLING" => q.poll = r.poll
    /\ r.state = "MASTER" => q.req = r.req
    /\ NoVotes(res.out)

\* It has heard of a master, and gives it the whole time again.
Listens(res) ==
    res.node.state = "IDLE" /\ res.node.gone.left = MasterGone /\ NoVotes(res.out)

\* It has drawn a vote and quits the poll, or sends the vote.
Quits(res) == res.node.state = "WAITING" /\ res.node.gone.left = MasterGone /\ res.out = {}
Polls(res) ==
    /\ res.node.state = "POLLING" /\ res.node.poll.left = SlavePolling
    /\ res.node.gone = timer_init
    /\ \E x \in Nat : res.out = {Vote(x)}

\* It has won the poll, or queries the slaves.
Wins(r, res) ==
    /\ r.state = "POLLING" /\ Due(r.poll) /\ res.node.state = "MASTER"
    /\ res.node.gone = r.gone /\ res.node.req.left = MasterRequest
    /\ res.node.req.period = MasterRequest /\ res.out = {}
Queries(r, res) ==
    /\ r.state = "MASTER" /\ res.node.state = "MASTER" /\ res.node.gone = r.gone
    /\ res.node.req.left = MasterRequest /\ res.node.req.period = MasterRequest
    /\ res.out = {Packet("REQUEST")}

\* What slave r makes of a packet of type c, or of its timers when c is "none".
\* A slave goes on as before only when c is no request, no vote that it hears
\* while idle, and no reset that it hears while it polls or acts as the master.
Outcome(r, c, res) ==
    \/ /\ Stays(r, res)
       /\ c # "REQUEST"
       /\ r.state = "IDLE" => c # "VOTE"
       /\ r.state \in {"POLLING", "MASTER"} => c # "RESET"
    \/ Listens(res)
    \/ c = "VOTE" /\ Quits(res)
    \/ (c = "VOTE" \/ Due(r.gone)) /\ Polls(res)
    \/ c = "none" /\ (Wins(r, res) \/ Queries(r, res))

\* A vote that exceeds those heard is sent; with any other the slave quits.
LEMMA PollOutcome ==
    ASSUME NEW r, Prepared(r), r.gone = timer_init, NEW v \in Nat
    PROVE  /\ Polls(slave_poll(r, v)) \/ Quits(slave_poll(r, v))
           /\ v > r.max_vote => Polls(slave_poll(r, v))
<1> DEFINE s == [r EXCEPT !.vote_sent = v]
<1>1. r \in Nodes /\ s \in Nodes /\ s.state = "POLLING" /\ s.gone = r.gone
  BY DEF Prepared, Nodes
<1>2. CASE v > r.max_vote
  <2>1. slave_poll(r, v) = [node |-> slave_arm_poll_timer(s), out |-> {Vote(v)}]
    BY <1>2 DEF slave_poll, Result
  <2> HIDE DEF s
  <2>2. /\ slave_arm_poll_timer(s).state = "POLLING" /\ slave_arm_poll_timer(s).gone = r.gone
        /\ slave_arm_poll_timer(s).poll.left = SlavePolling
    BY <1>1 DEF slave_arm_poll_timer, timer_set_deadline, Nodes
  <2> QED
    BY <1>2, <2>1, <2>2, SMT DEF Polls
<1>3. CASE ~ (v > r.max_vote)
  <2> DEFINE q == slave_finish_master_polling(s, "WAITING")
  <2>1. slave_poll(r, v) = [node |-> q, out |-> {}]
    BY <1>3 DEF slave_poll, Result
  <2> HIDE DEF s
  <2>2. q.state = "WAITING" /\ q.gone.left = MasterGone
    BY <1>1 DEF slave_finish_master_polling, slave_disarm_poll_timer,
       slave_arm_master_gone_timer, timer_cancel, timer_set_deadline, Nodes
  <2> HIDE DEF q
  <2> QED
    BY <1>3, <2>1, <2>2, SMT DEF Quits
<1> QED
  BY <1>2, <1>3

\* slave_prepare_to_poll forgets the votes heard, and disarms the gone timer.
LEMMA PrepareOutcome ==
    ASSUME NEW r \in Nodes, NEW max \in Nat
    PROVE  /\ slave_prepare_to_poll(r, max).gone = timer_init
           /\ slave_prepare_to_poll(r, max).max_vote = max
  BY DEF slave_prepare_to_poll, slave_disarm_master_gone_timer, timer_cancel, Nodes

\* An idle slave gives the master the whole time.
LEMMA IdleOutcome ==
    ASSUME NEW r \in Nodes
    PROVE  /\ slave_idle(r).gone.left = MasterGone
           /\ slave_arm_master_gone_timer(r).gone.left = MasterGone
           /\ slave_arm_master_gone_timer(r).state = r.state
<1>1. [r EXCEPT !.state = "IDLE", !.max_vote = 0, !.vote_sent = 0] \in Nodes
  BY DEF Nodes, States
<1>2. ASSUME NEW q \in Nodes
      PROVE  /\ slave_arm_master_gone_timer(q).gone.left = MasterGone
             /\ slave_arm_master_gone_timer(q).state = q.state
  BY DEF slave_arm_master_gone_timer, timer_set_deadline, Nodes
<1> QED
  BY <1>1, <1>2 DEF slave_idle

\* What comes of a packet that an idle slave gets.
LEMMA ActIdleOutcome ==
    ASSUME NEW r, Good(r), r.state = "IDLE", NEW p \in Packets, NEW v \in Nat
    PROVE  /\ Outcome(r, p.type, slave_act_idle(r, p, v))
           /\ r.gone.left = MasterGone /\ p.type # "VOTE" => Listens(slave_act_idle(r, p, v))
<1> DEFINE res == slave_act_idle(r, p, v)
<1>0. r \in Nodes
  BY DEF Good
<1>1. CASE p.type \in {"REQUEST", "MSG"}
  <2>1. /\ res.node = slave_arm_master_gone_timer(r)
        /\ res.out \subseteq {Packet("RESPONSE")}
    BY <1>1 DEF slave_act_idle, Result
  <2> QED
    BY <1>0, <2>1, IdleOutcome, SMT DEF Listens, NoVotes, Packet, Outcome
<1>2. CASE p.type = "VOTE"
  <2> DEFINE q == slave_prepare_to_poll(r, p.vote)
  <2>1. res = slave_poll(q, v)
    BY <1>2 DEF slave_act_idle
  <2>2. Prepared(q) /\ q.gone = timer_init
    BY <1>0, PrepareGood, PrepareOutcome DEF Good, Fit, Packets
  <2> HIDE DEF q, res
  <2> QED
    BY <1>2, <2>1, <2>2, PollOutcome DEF Outcome, res
<1>3. CASE p.type \in {"RESPONSE", "RESET"}
  <2>1. res = [node |-> r, out |-> {}]
    BY <1>3 DEF slave_act_idle, Result
  <2> HIDE DEF res
  <2> QED
    BY <1>3, <2>1, SMT DEF Outcome, Stays, Listens, NoVotes, res
<1> QED
  BY <1>1, <1>2, <1>3 DEF Packets

\* What comes of a packet that a polling slave gets.
LEMMA ActPollOutcome ==
    ASSUME NEW r, Good(r), r.state = "POLLING", NEW p \in Packets, NEW v \in Nat
    PROVE  Outcome(r, p.type, slave_act_poll(r, p, v))
<1> DEFINE h == Heard(r, p.vote)
           res == slave_act_poll(r, p, v)
<1>0. /\ r \in Nodes /\ p.vote \in Nat /\ r.vote_sent \in Nat
      /\ h \in Nodes /\ h.state = "POLLING"
      /\ h.gone = r.gone /\ h.poll = r.poll /\ h.req = r.req
  BY HeardType DEF Good, Packets, Nodes
<1>1. CASE p.type = "VOTE" /\ p.vote > r.vote_sent
  <2> DEFINE q == slave_finish_master_polling(h, "WAITING")
  <2>1. res = [node |-> q, out |-> {}]
    BY <1>0, <1>1, SMT DEF slave_act_poll, Result
  <2> HIDE DEF h
  <2>2. q.state = "WAITING" /\ q.gone.left = MasterGone
    BY <1>0 DEF slave_finish_master_polling, slave_disarm_poll_timer,
       slave_arm_master_gone_timer, timer_cancel, timer_set_deadline, Nodes
  <2> HIDE DEF q, res
  <2> QED
    BY <1>1, <2>1, <2>2, SMT DEF Outcome, Quits, res
<1>2. CASE p.type = "VOTE" /\ p.vote < r.vote_sent
  <2>1. res = [node |-> h, out |-> {}]
    BY <1>0, <1>2, SMT DEF slave_act_poll, Result
  <2> HIDE DEF h, res
  <2> QED
    BY <1>0, <1>2, <2>1, SMT DEF Outcome, Stays, NoVotes, res
<1>3. CASE p.type = "VOTE" /\ p.vote = r.vote_sent
  <2> DEFINE q == slave_prepare_to_poll(h, 0)
  <2>1. res = slave_poll(q, v)
    BY <1>0, <1>3, SMT DEF slave_act_poll
  <2> HIDE DEF h
  <2>2. Prepared(q) /\ q.gone = timer_init
    BY <1>0, PrepareGood, PrepareOutcome DEF Good, Fit
  <2> HIDE DEF q, res
  <2> QED
    BY <1>3, <2>1, <2>2, PollOutcome DEF Outcome, res
<1>4. CASE p.type \in {"RESET", "REQUEST", "MSG"}
  <2> DEFINE w == EndPoll(r)
  <2>1. Good(w) /\ w.state = "IDLE"
    BY EndPollGood
  <2>2. w.gone.left = MasterGone
    <3>1. /\ slave_idle(r).gone.left = MasterGone
          /\ slave_idle(r) \in Nodes /\ slave_idle(r).state = "IDLE"
      BY <1>0, IdleOutcome, IdleGood DEF Good, Fit
    <3>2. w = [[slave_idle(r) EXCEPT !.state = "IDLE"] EXCEPT !.vote_sent = 0, !.max_vote = 0]
      BY <3>1 DEF EndPoll, slave_finish_master_polling
    <3> QED
      BY <3>1, <3>2 DEF Nodes
  <2>3. CASE p.type = "RESET"
    <3>1. res = [node |-> w, out |-> {}]
      BY <2>3 DEF slave_act_poll, Result
    <3> HIDE DEF w, res
    <3> QED
      BY <2>1, <2>2, <3>1, SMT DEF Outcome, Listens, NoVotes, res
  <2>4. CASE p.type \in {"REQUEST", "MSG"}
    <3>1. res = slave_act_idle(w, p, v)
      BY <2>4 DEF slave_act_poll
    <3> HIDE DEF w, res
    <3> QED
      BY <2>1, <2>2, <2>4, <3>1, ActIdleOutcome DEF Outcome, res
  <2> QED
    BY <1>4, <2>3, <2>4
<1>5. CASE p.type = "RESPONSE"
  <2>1. res = [node |-> r, out |-> {}]
    BY <1>5 DEF slave_act_poll, Result
  <2> HIDE DEF res
  <2> QED
    BY <1>5, <2>1, SMT DEF Outcome, Stays, NoVotes, res
<1> QED
  BY <1>0, <1>1, <1>2, <1>3, <1>4, <1>5, SMT DEF Packets

\* What comes of a packet that a slave gets while it acts as the master.
LEMMA ActMasterOutcome ==
    ASSUME NEW r, Good(r), r.state = "MASTER", NEW p \in Packets, NEW v \in Nat,
           NEW changed \in BOOLEAN
    PROVE  Outcome(r, p.type, slave_act_master(r, p, v, changed))
<1> DEFINE res == slave_act_master(r, p, v, changed)
           w == StepDown(r)
<1>0. r.vote_sent = 0 /\ r \in Nodes
  BY DEF Good, Ahead
<1>1. Good(w) /\ w.state = "IDLE" /\ w.gone.left = MasterGone
  <2>1. master_deinit_(r) \in Nodes /\ slave_disarm_mastering_timer(master_deinit_(r)) \in Nodes
    <3>1. timer_init \in Timers(Jobs)
      BY DEF timer_init, Timers
    <3> QED
      BY <1>0, <3>1 DEF slave_disarm_mastering_timer, master_deinit_, timer_cancel, Nodes
  <2> QED
    BY <2>1, StepDownGood, IdleOutcome DEF StepDown
<1> HIDE DEF w
<1>2. CASE p.type = "VOTE"
  <2> DEFINE q == slave_prepare_to_poll(w, p.vote)
  <2>1. res = slave_poll(q, v)
    BY <1>0, <1>2 DEF slave_act_master, w
  <2>2. Prepared(q) /\ q.gone = timer_init
    BY <1>1, PrepareGood, PrepareOutcome DEF Good, Fit, Packets
  <2> HIDE DEF q, res
  <2> QED
    BY <1>2, <2>1, <2>2, PollOutcome DEF Outcome, res
<1>3. CASE p.type \in {"REQUEST", "MSG", "RESET"}
  <2>1. res.node = w /\ res.out \subseteq {Packet("RESPONSE")}
    BY <1>3 DEF slave_act_master, Result, w
  <2> HIDE DEF res
  <2> QED
    BY <1>1, <2>1, SMT DEF Outcome, Listens, NoVotes, Packet, res
<1>4. CASE p.type = "RESPONSE"
  <2>1. res.node = r /\ res.out \subseteq {Packet("MSG")}
    BY <1>4 DEF slave_act_master, master_act_response, Result
  <2> HIDE DEF res
  <2> QED
    BY <1>4, <2>1, SMT DEF Outcome, Stays, NoVotes, Packet, res
<1> QED
  BY <1>2, <1>3, <1>4 DEF Packets

\* What comes of a packet that a slave gets.
LEMMA ActOutcome ==
    ASSUME NEW r, Good(r), r.state # "OFF", NEW p \in Packets, NEW v \in Nat,
           NEW changed \in BOOLEAN
    PROVE  Outcome(r, p.type, slave_act(r, p, v, changed))
<1>1. CASE r.state = "IDLE"
  BY <1>1, ActIdleOutcome DEF slave_act
<1>2. CASE r.state = "POLLING"
  BY <1>2, ActPollOutcome DEF slave_act
<1>3. CASE r.state = "MASTER"
  BY <1>3, ActMasterOutcome DEF slave_act
<1>4. CASE r.state = "WAITING"
  <2> DEFINE res == slave_act_waiting_master(r, p, v)
  <2>1. slave_act(r, p, v, changed) = res
    BY <1>4 DEF slave_act
  <2>2. CASE p.type \in {"RESET", "REQUEST", "MSG"}
    <3>1. /\ Good(slave_idle(r)) /\ slave_idle(r).state = "IDLE"
          /\ slave_idle(r).gone.left = MasterGone
      BY <1>4, IdleGood, IdleOutcome DEF Good, Fit
    <3>2. res = slave_act_idle(slave_idle(r), p, v)
      BY <2>2 DEF slave_act_waiting_master
    <3>3. Listens(res)
      BY <2>2, <3>1, <3>2, ActIdleOutcome
    <3> QED
      BY <2>1, <3>3 DEF Outcome
  <2>3. CASE p.type \in {"RESPONSE", "VOTE"}
    <3>1. res = [node |-> r, out |-> {}]
      BY <2>3 DEF slave_act_waiting_master, Result
    <3> HIDE DEF res
    <3> QED
      BY <1>4, <2>1, <2>3, <3>1, SMT DEF Outcome, Stays, NoVotes
  <2> QED
    BY <2>2, <2>3 DEF Packets
<1> QED
  BY <1>1, <1>2, <1>3, <1>4 DEF Good, Nodes, States

\* The gone timer makes a slave poll with a vote of its own.
LEMMA GoneOutcome ==
    ASSUME NEW r, Good(r), Due(r.gone), NEW v \in Nat \ {0}
    PROVE  Outcome(r, "none", gone_fires(r, v))
<1> DEFINE s == [r EXCEPT !.gone = Fired(@)]
           q == slave_prepare_to_poll(s, 0)
<1>1. r.state \in {"IDLE", "WAITING"}
  BY DEF Good, Fit, Armed, Due
<1>2. Fired(r.gone) \in Timers(Jobs)
  BY TimerTypes, TimeoutAssumption DEF Good, Nodes, Jobs
<1>3. s \in Nodes /\ s.poll = r.poll /\ s.req = r.req
  BY <1>2 DEF Good, Nodes
<1>4. gone_fires(r, v) = slave_poll(q, v)
  BY DEF gone_fires, slave_master_timed_out
<1> HIDE DEF s
<1>5. Prepared(q) /\ q.gone = timer_init /\ q.max_vote = 0
  BY <1>1, <1>3, PrepareGood, PrepareOutcome DEF Good, Fit
<1> HIDE DEF q
<1>6. Polls(slave_poll(q, v))
  BY <1>5, PollOutcome, SMT
<1> QED
  BY <1>4, <1>6 DEF Outcome

\* The poll timer makes a polling slave the master, and no other.
LEMMA PollTimerOutcome ==
    ASSUME NEW r, Good(r), Due(r.poll), NEW changed \in BOOLEAN
    PROVE  Outcome(r, "none", poll_fires(r, changed))
<1> DEFINE s == [r EXCEPT !.poll = Fired(@)]
           res == poll_fires(r, changed)
<1>1. Fired(r.poll) \in Timers(Jobs)
  BY TimerTypes, TimeoutAssumption DEF Good, Nodes, Jobs
<1>2. /\ s \in Nodes /\ s.state = r.state /\ s.gone = r.gone /\ s.req = r.req
  BY <1>1 DEF Good, Nodes
<1>3. CASE r.state = "POLLING"
  <2>1. r.poll.job = "poll"
    BY <1>3 DEF Good, Fit, Once
  <2>2. res = slave_poll_timeout(s)
    BY <2>1 DEF poll_fires
  <2> DEFINE f == slave_finish_master_polling(slave_disarm_poll_timer(s), "MASTER")
             q == slave_arm_mastering_timer(master_start(f))
  <2> HIDE DEF s, res
  <2>3. res = [node |-> q, out |-> {}]
    BY <1>2, <1>3, <2>2 DEF slave_poll_timeout, Result
  <2>4. f \in Nodes /\ f.state = "MASTER" /\ f.gone = r.gone
    <3>1. timer_init \in Timers(Jobs)
      BY DEF timer_init, Timers
    <3> QED
      BY <1>2, <1>3, <3>1 DEF slave_finish_master_polling, slave_disarm_poll_timer,
         timer_cancel, Nodes, States
  <2> HIDE DEF f
  <2>5. /\ q.state = "MASTER" /\ q.gone = r.gone
        /\ q.req.left = MasterRequest /\ q.req.period = MasterRequest
    BY <2>4 DEF slave_arm_mastering_timer, master_start, timer_set_periodic, Nodes
  <2> HIDE DEF q
  <2> QED
    BY <1>3, <2>3, <2>5, SMT DEF Outcome, Wins, res
<1>4. CASE r.state # "POLLING"
  <2>1. res.node = s /\ res.out \subseteq {Packet("MSG")}
    BY <1>2, <1>4 DEF poll_fires, slave_poll_timeout, slave_mastering_timeout,
       master_act_response, Result
  <2> HIDE DEF s, res
  <2> QED
    BY <1>2, <1>4, <2>1, SMT DEF Outcome, Stays, NoVotes, Packet, res
<1> QED
  BY <1>3, <1>4

\* The request timer queries the slaves, and runs on.
LEMMA RequestOutcome ==
    ASSUME NEW r, Good(r), Bounded(r), Due(r.req)
    PROVE  Outcome(r, "none", request_fires(r))
<1> DEFINE s == [r EXCEPT !.req = Fired(@)]
<1>1. r.state = "MASTER" /\ Many(r.req, "request") /\ r \in Nodes
  BY DEF Good, Fit, Armed, Due
<1>2. Fired(r.req).left = MasterRequest /\ Fired(r.req).period = MasterRequest
  BY <1>1 DEF Fired, Many, Bounded, Nodes, Timers
<1>3. s.state = "MASTER" /\ s.gone = r.gone /\ s.req = Fired(r.req)
  BY <1>1 DEF Nodes
<1>4. request_fires(r) = [node |-> s, out |-> {Packet("REQUEST")}]
  BY DEF request_fires, Result
<1> HIDE DEF s
<1> QED
  BY <1>1, <1>2, <1>3, <1>4, SMT DEF Outcome, Queries

\* Timers that count down from the timeouts go on doing so.
LEMMA OutcomeBounded ==
    ASSUME NEW r, Bounded(r), NEW c, NEW res, Outcome(r, c, res), Good(res.node)
    PROVE  Bounded(res.node)
<1>1. CASE Stays(r, res)
  BY <1>1 DEF Stays, Bounded
<1>2. CASE Listens(res) \/ Quits(res)
  BY <1>2, TimeoutAssumption, SMT DEF Listens, Quits, Bounded
<1>3. CASE Polls(res)
  BY <1>3, TimeoutAssumption, SMT DEF Polls, Bounded, timer_init
<1>4. CASE Wins(r, res) \/ Queries(r, res)
  BY <1>4, TimeoutAssumption, SMT DEF Wins, Queries, Bounded
<1> QED
  BY <1>1, <1>2, <1>3, <1>4 DEF Outcome

-----------------------------------------------------------------------------
(* The network the protocol is made for.                                   *)

\* A packet of that type is on its way to n.
Flying(n, type) == \E d \in net : d.to = n /\ d.packet.type = type

\* Slaves, the master's timer and the network are in order.
Shape ==
    /\ node \in [Slaves -> Nodes]
    /\ \A n \in Slaves : /\ Good(node[n]) /\ Bounded(node[n])
                         /\ node[n].state = "OFF" => node[n] = Off
    /\ tmr \in Timers(Jobs) /\ (tmr = timer_init \/ Many(tmr, "request"))
    /\ set \in Settings
    /\ \A d \in net : d.to \in Running /\ d.packet \in Packets

\* A network as it is after n got a packet of type c and broadcast out: what is
\* for others, or of another type, is still there.
Carried(n, c, out) ==
    /\ \A d \in net' : d \in net \cup Broadcast(n, out)
    /\ Broadcast(n, out) \subseteq net'
    /\ \A d \in net : d.to # n \/ d.packet.type # c => d \in net'
    /\ c # "none" => Flying(n, c)

\* Applying a result carries packets.
LEMMA ApplyCarries ==
    ASSUME NEW n, NEW out,
           NEW c, NEW N, \/ c = "none" /\ N = net
                         \/ \E d \in net : d.to = n /\ d.packet.type = c /\ N = net \ {d},
           net' = N \cup Broadcast(n, out)
    PROVE  Carried(n, c, out)
<1>1. /\ N \subseteq net /\ (c # "none" => Flying(n, c))
      /\ \A d \in net : d.to # n \/ d.packet.type # c => d \in N
  BY DEF Flying
<1> QED
  BY <1>1 DEF Carried

\* What is on its way after packets were carried.
LEMMA CarriedFlying ==
    ASSUME NEW n, NEW c, NEW out, Carried(n, c, out), NEW m, NEW type
    PROVE  /\ Flying(m, type) /\ (m # n \/ type # c) => Flying(m, type)'
           /\ m \in Running \ {n} /\ (\E p \in out : p.type = type) => Flying(m, type)'
           /\ Flying(m, type)' => Flying(m, type) \/ \E p \in out : p.type = type
<1>1. Flying(m, type) /\ (m # n \/ type # c) => Flying(m, type)'
  BY DEF Carried, Flying
<1>2. ASSUME m \in Running \ {n}, NEW p \in out, p.type = type
      PROVE  Flying(m, type)'
  <2>1. [to |-> m, packet |-> p, copy |-> Copies(m, p)] \in Broadcast(n, out)
    BY <1>2, SMT DEF Broadcast
  <2> QED
    BY <1>2, <2>1 DEF Carried, Flying
<1>3. ASSUME Flying(m, type)'
      PROVE  Flying(m, type) \/ \E p \in out : p.type = type
  <2>1. PICK d \in net' : d.to = m /\ d.packet.type = type
    BY <1>3 DEF Flying
  <2> QED
    BY <2>1, SMT DEF Carried, Flying, Broadcast
<1> QED
  BY <1>1, <1>2, <1>3

-----------------------------------------------------------------------------
(* The steps of the system.                                                *)

\* A handler of slave n got a packet of type c, or none, and ended with res.
SlaveStep(n, c, res) ==
    /\ node' = [node EXCEPT ![n] = res.node]
    /\ UNCHANGED <<tmr, set>>
    /\ Good(res.node) /\ res.node.state # "OFF" /\ res.out \subseteq Packets
    /\ Outcome(node[n], c, res)
    /\ Carried(n, c, res.out)

\* Slave n was killed.
Killed(n) ==
    /\ node' = [node EXCEPT ![n] = Off]
    /\ UNCHANGED <<tmr, set>>
    /\ net' = Without(n)

\* The regular master starts, stops, or sends something that is no vote; or
\* nothing happens.
MasterStep ==
    /\ UNCHANGED <<node, set>>
    /\ tmr' \in Timers(Jobs) /\ (tmr' = timer_init \/ Many(tmr', "request"))
    /\ \/ UNCHANGED <<tmr, net>>
       \/ tmr' = timer_init /\ net' = Without(RegularMaster)
       \/ \E c, out : /\ Armed(tmr) => Armed(tmr')
                      /\ out \subseteq Packets /\ NoVotes(out)
                      /\ c = "VOTE" \/ ~ Armed(tmr) => Packet("RESET") \in out
                      /\ Carried(RegularMaster, c, out)

\* A slave receives a packet.
LEMMA DataStep ==
    ASSUME Shape, NEW n \in Slaves, data_received(n)
    PROVE  \E c, res : SlaveStep(n, c, res)
<1>1. PICK d \in net, v \in set.votes[n], changed \in set.changes :
         d.to = n /\ Apply(n, slave_act(node[n], d.packet, v, changed), net \ {d})
  BY DEF data_received, Arrives
<1> DEFINE res == slave_act(node[n], d.packet, v, changed)
           c == d.packet.type
<1>2. v \in Nat /\ changed \in BOOLEAN /\ d.packet \in Packets
  BY TimedAssumption DEF Shape
<1>3. node[n].state # "OFF" /\ Good(node[n])
  BY <1>1, TimedAssumption DEF Shape, Running
<1>4. Outcome(node[n], c, res)
  BY <1>2, <1>3, ActOutcome
<1>5. GoodResult(node[n], res)
  BY <1>2, <1>3, ActGood
<1> HIDE DEF res
<1>6. /\ node' = [node EXCEPT ![n] = res.node] /\ UNCHANGED <<tmr, set>>
      /\ net' = (net \ {d}) \cup Broadcast(n, res.out)
  BY <1>1 DEF Apply, res
<1>7. Carried(n, c, res.out)
  BY <1>1, <1>6, ApplyCarries
<1>8. res.node.state # "OFF"
  BY <1>3, <1>4 DEF Outcome, Stays, Listens, Quits, Polls, Wins, Queries
<1> QED
  BY <1>4, <1>5, <1>6, <1>7, <1>8 DEF SlaveStep, GoodResult

\* A slave starts, or one of its timers goes off.
LEMMA OwnStep ==
    ASSUME Shape, NEW n \in Slaves,
           Start(n) \/ GoneTimer(n) \/ PollTimer(n) \/ RequestTimer(n)
    PROVE  \E c, res : SlaveStep(n, c, res)
<1> DEFINE r == node[n]
<1>1. /\ Good(r) /\ Bounded(r) /\ (r.state = "OFF" => r = Off)
      /\ set.votes[n] \subseteq Nat \ {0} /\ set.changes \subseteq BOOLEAN
  BY TimedAssumption DEF Shape
<1>2. PICK res : /\ Apply(n, res, net)
                 /\ GoodResult(r, res) /\ Outcome(r, "none", res) /\ res.node.state # "OFF"
  <2>1. CASE Start(n)
    <3>1. slave_run.gone.left = MasterGone /\ Off \in Nodes
      BY OffGood, IdleOutcome DEF slave_run, Good
    <3>2. Outcome(r, "none", Result(slave_run, {}))
      BY <3>1, OffGood DEF Outcome, Listens, NoVotes, Result
    <3> QED
      BY <2>1, <3>2, OffGood, SMT DEF Start, GoodResult, Result
  <2>2. CASE GoneTimer(n)
    <3>1. PICK v \in Nat \ {0} : Due(r.gone) /\ Apply(n, gone_fires(r, v), net)
      BY <1>1, <2>2 DEF GoneTimer
    <3>2. Outcome(r, "none", gone_fires(r, v)) /\ GoodResult(r, gone_fires(r, v))
      BY <1>1, <3>1, GoneOutcome, GoneGood DEF Due
    <3>3. r.state # "OFF"
      BY <1>1, <3>1 DEF Good, Fit, Due, Armed
    <3> QED
      BY <3>1, <3>2, <3>3 DEF Outcome, Stays, Listens, Quits, Polls, Wins, Queries
  <2>3. CASE PollTimer(n)
    <3>1. PICK changed \in BOOLEAN : Due(r.poll) /\ Apply(n, poll_fires(r, changed), net)
      BY <1>1, <2>3 DEF PollTimer
    <3>2. Outcome(r, "none", poll_fires(r, changed)) /\ GoodResult(r, poll_fires(r, changed))
      BY <1>1, <3>1, PollTimerOutcome, PollTimerGood DEF Due
    <3>3. r.state # "OFF"
      BY <1>1, <3>1, SMT DEF Off, timer_init, Due, Armed
    <3> QED
      BY <3>1, <3>2, <3>3 DEF Outcome, Stays, Listens, Quits, Polls, Wins, Queries
  <2>4. CASE RequestTimer(n)
    <3>1. Due(r.req) /\ Apply(n, request_fires(r), net)
      BY <2>4 DEF RequestTimer
    <3>2. /\ Outcome(r, "none", request_fires(r)) /\ GoodResult(r, request_fires(r))
          /\ r.state = "MASTER"
      BY <1>1, <3>1, RequestOutcome, RequestGood DEF Due
    <3> QED
      BY <3>1, <3>2 DEF Outcome, Stays, Listens, Quits, Polls, Wins, Queries
  <2> QED
    BY <2>1, <2>2, <2>3, <2>4
<1>3. /\ node' = [node EXCEPT ![n] = res.node] /\ UNCHANGED <<tmr, set>>
      /\ net' = net \cup Broadcast(n, res.out)
  BY <1>2 DEF Apply
<1>4. Carried(n, "none", res.out)
  BY <1>3, ApplyCarries
<1> QED
  BY <1>2, <1>3, <1>4 DEF SlaveStep, GoodResult

\* A step of the regular master.
LEMMA MasterSteps ==
    ASSUME Shape, master_run \/ MasterStops \/ master_data_received \/ MasterTimer
    PROVE  MasterStep
<1>1. CASE master_run
  <2>1. /\ ~ Armed(tmr) /\ UNCHANGED <<node, set>>
        /\ tmr' = timer_set_periodic(timer_init, MasterRequest, "request")
        /\ net' = net \cup Broadcast(RegularMaster, {Packet("RESET")})
    BY <1>1 DEF master_run
  <2>2. Carried(RegularMaster, "none", {Packet("RESET")})
    BY <2>1, ApplyCarries
  <2>3. tmr' \in Timers(Jobs) /\ Many(tmr', "request")
    BY <2>1, TimeoutAssumption DEF timer_set_periodic, timer_init, Many, Timers, Jobs
  <2>4. {Packet("RESET")} \subseteq Packets /\ NoVotes({Packet("RESET")})
    BY PacketTypes, SMT DEF NoVotes, Packet
  <2> QED
    BY <2>1, <2>2, <2>3, <2>4 DEF MasterStep
<1>2. CASE MasterStops
  <2>1. timer_init \in Timers(Jobs)
    BY DEF timer_init, Timers
  <2> QED
    BY <1>2, <2>1 DEF MasterStops, MasterStep
<1>3. CASE master_data_received
  <2>1. PICK d \in net, changed \in set.changes :
           /\ d.to = RegularMaster
           /\ net' = (net \ {d})
                         \cup Broadcast(RegularMaster, master_act(d.packet, changed))
           /\ UNCHANGED <<node, tmr, set>>
    BY <1>3 DEF master_data_received, Arrives
  <2> DEFINE out == master_act(d.packet, changed)
             c == d.packet.type
  <2>2. /\ out \subseteq {Packet("MSG"), Packet("RESET")}
        /\ c = "VOTE" => Packet("RESET") \in out
    BY DEF master_act
  <2> HIDE DEF out
  <2>3. out \subseteq Packets /\ NoVotes(out)
    BY <2>2, PacketTypes, SMT DEF NoVotes, Packet
  <2>4. Carried(RegularMaster, c, out)
    BY <2>1, ApplyCarries DEF out
  <2>5. Armed(tmr)
    BY <2>1, TimedAssumption DEF Shape, Running
  <2> QED
    BY <2>1, <2>2, <2>3, <2>4, <2>5 DEF MasterStep, Shape
<1>4. CASE MasterTimer
  <2>1. /\ Armed(tmr) /\ UNCHANGED <<node, set>> /\ tmr' = Fired(tmr)
        /\ net' = net \cup Broadcast(RegularMaster, {Packet("REQUEST")})
    BY <1>4 DEF MasterTimer, Due
  <2>2. Carried(RegularMaster, "none", {Packet("REQUEST")})
    BY <2>1, ApplyCarries
  <2>3. tmr' \in Timers(Jobs) /\ Many(tmr', "request")
    BY <2>1, SMT DEF Fired, Many, Shape, timer_init, Armed, Timers
  <2>4. {Packet("REQUEST")} \subseteq Packets /\ NoVotes({Packet("REQUEST")})
    BY PacketTypes, SMT DEF NoVotes, Packet
  <2>5. Armed(tmr')
    BY <2>3 DEF Many, Armed
  <2> QED
    BY <2>1, <2>2, <2>3, <2>4, <2>5 DEF MasterStep
<1> QED
  BY <1>1, <1>2, <1>3, <1>4

\* Every step is one of these.
LEMMA TimedSteps ==
    ASSUME Shape, [Next]_vars
    PROVE  \/ \E n \in Slaves : (\E c, res : SlaveStep(n, c, res)) \/ Killed(n)
           \/ MasterStep
           \/ Tick
<1>1. ASSUME NEW n \in Slaves, Stop(n)
      PROVE  Killed(n)
  BY <1>1 DEF Stop, Killed
<1>2. CASE UNCHANGED vars
  BY <1>2 DEF vars, MasterStep, Shape
<1> QED
  BY <1>1, <1>2, DataStep, OwnStep, MasterSteps DEF Next, Progress, Environment

-----------------------------------------------------------------------------
(* Slaves, timer and network stay in order.                                *)

\* The other slaves are as they were.
LEMMA OneChanges ==
    ASSUME Shape, NEW n \in Slaves, NEW q, node' = [node EXCEPT ![n] = q]
    PROVE  \A m \in Slaves : node'[m] = IF m = n THEN q ELSE node[m]
  BY DEF Shape

\* A handler of a slave leaves slaves and network in order.
LEMMA SlaveShape ==
    ASSUME Shape, NEW n \in Slaves, NEW c, NEW res, SlaveStep(n, c, res)
    PROVE  Shape'
<1>1. \A m \in Slaves : node'[m] = IF m = n THEN res.node ELSE node[m]
  BY OneChanges DEF SlaveStep
<1>2. node' \in [Slaves -> Nodes]
  BY DEF Shape, SlaveStep, Good
<1>3. Bounded(res.node)
  BY OutcomeBounded DEF Shape, SlaveStep
<1>4. \A m \in Slaves : /\ Good(node'[m]) /\ Bounded(node'[m])
                        /\ node'[m].state = "OFF" => node'[m] = Off
  BY <1>1, <1>3 DEF Shape, SlaveStep
<1>5. Running \subseteq Running'
  BY <1>1 DEF SlaveStep, Running
<1>6. ASSUME NEW d \in net'
      PROVE  d.to \in Running' /\ d.packet \in Packets
  <2>1. d \in net \/ d \in Broadcast(n, res.out)
    BY DEF SlaveStep, Carried
  <2>2. d.to \in Running /\ d.packet \in Packets
    BY <2>1, SMT DEF Shape, Broadcast, SlaveStep
  <2> QED
    BY <1>5, <2>2 DEF SlaveStep, Carried
<1> QED
  BY <1>2, <1>4, <1>6 DEF Shape, SlaveStep

\* So does killing a slave: what was for it is gone.
LEMMA KilledShape ==
    ASSUME Shape, NEW n \in Slaves, Killed(n)
    PROVE  Shape'
<1>1. \A m \in Slaves : node'[m] = IF m = n THEN Off ELSE node[m]
  BY OneChanges DEF Killed
<1>2. Good(Off) /\ Bounded(Off) /\ Off \in Nodes
  BY OffGood, TimeoutAssumption, SMT DEF Bounded, Off, timer_init, Good
<1>3. node' \in [Slaves -> Nodes]
  BY <1>2 DEF Shape, Killed
<1>4. \A m \in Slaves : /\ Good(node'[m]) /\ Bounded(node'[m])
                        /\ node'[m].state = "OFF" => node'[m] = Off
  BY <1>1, <1>2 DEF Shape
<1>5. Running \ {n} \subseteq Running'
  BY <1>1 DEF Killed, Running
<1>6. ASSUME NEW d \in net'
      PROVE  d.to \in Running' /\ d.packet \in Packets
  <2>1. d \in net /\ d.to # n
    BY DEF Killed, Without
  <2> QED
    BY <1>5, <2>1 DEF Shape
<1> QED
  BY <1>3, <1>4, <1>6 DEF Shape, Killed

\* So does the regular master.
LEMMA MasterShape ==
    ASSUME Shape, MasterStep
    PROVE  Shape'
<1>1. ASSUME NEW d \in net'
      PROVE  d.to \in Running' /\ d.packet \in Packets
  <2>1. CASE UNCHANGED <<tmr, net>>
    BY <2>1 DEF Shape, MasterStep, Running
  <2>2. CASE net' = Without(RegularMaster)
    <3>1. d \in net /\ d.to # RegularMaster
      BY <2>2 DEF Without
    <3> QED
      BY <3>1 DEF Shape, MasterStep, Running
  <2>3. ASSUME NEW c, NEW out, Armed(tmr) => Armed(tmr'), out \subseteq Packets,
               Carried(RegularMaster, c, out)
        PROVE  d.to \in Running' /\ d.packet \in Packets
    <3>1. Running \subseteq Running'
      BY <2>3 DEF MasterStep, Running
    <3>2. d \in net \/ d \in Broadcast(RegularMaster, out)
      BY <2>3 DEF Carried
    <3>3. d.to \in Running /\ d.packet \in Packets
      BY <2>3, <3>2, SMT DEF Shape, Broadcast
    <3> QED
      BY <2>3, <3>1, <3>3 DEF Carried
  <2> QED
    BY <2>1, <2>2, <2>3 DEF MasterStep
<1> QED
  BY <1>1 DEF Shape, MasterStep

\* A timer as time passes.
LEMMA TickedTimer ==
    ASSUME NEW t \in Timers(Jobs), ~ Due(t)
    PROVE  /\ Ticked(t) \in Timers(Jobs)
           /\ Ticked(t).slot = t.slot /\ Ticked(t).runs = t.runs /\ Ticked(t).job = t.job
           /\ Ticked(t).period = t.period
           /\ Armed(t) => t.left > 0 /\ Ticked(t).left = t.left - 1
           /\ ~ Armed(t) => Ticked(t) = t
  BY SMT DEF Ticked, Timers, Due, Armed

\* What time does to a slave while nothing is due.
TickOf(r) == [r EXCEPT !.gone = Ticked(@), !.poll = Ticked(@), !.req = Ticked(@)]

\* A slave in order stays so.
LEMMA TickedNode ==
    ASSUME NEW r, Good(r), Bounded(r), ~ Due(r.gone), ~ Due(r.poll), ~ Due(r.req),
           NEW q, q = TickOf(r)
    PROVE  /\ Good(q) /\ Bounded(q)
           /\ q.state = r.state
           /\ q.gone = Ticked(r.gone) /\ q.poll = Ticked(r.poll) /\ q.req = Ticked(r.req)
           /\ r = Off => q = Off
<1>1. /\ r \in Nodes
      /\ r.gone \in Timers(Jobs) /\ r.poll \in Timers(Jobs) /\ r.req \in Timers(Jobs)
  BY DEF Good, Nodes
<1>2. /\ Ticked(r.gone) \in Timers(Jobs) /\ Ticked(r.poll) \in Timers(Jobs)
      /\ Ticked(r.req) \in Timers(Jobs)
  BY <1>1, TickedTimer
<1>3. /\ q \in Nodes /\ q.state = r.state /\ q.vote_sent = r.vote_sent /\ q.max_vote = r.max_vote
      /\ q.gone = Ticked(r.gone) /\ q.poll = Ticked(r.poll) /\ q.req = Ticked(r.req)
  BY <1>1, <1>2 DEF TickOf, Nodes
<1>4. Fit(q) /\ Ahead(q)
  <2>1. \A t \in {r.gone, r.poll, r.req} :
           /\ Ticked(t).slot = t.slot
           /\ \A job : Once(t, job) => Once(Ticked(t), job)
           /\ \A job : Many(t, job) => Many(Ticked(t), job)
    BY <1>1, TickedTimer DEF Once, Many
  <2> QED
    BY <1>3, <2>1 DEF Good, Fit, Ahead
<1>5. Bounded(q)
  <2>1. /\ Ticked(r.gone).left <= r.gone.left /\ Ticked(r.poll).left <= r.poll.left
        /\ Ticked(r.req).left <= r.req.left /\ Ticked(r.req).period = r.req.period
    BY <1>1, TickedTimer, SMT DEF Timers
  <2>2. /\ Ticked(r.gone).left \in Nat /\ Ticked(r.poll).left \in Nat /\ Ticked(r.req).left \in Nat
        /\ r.gone.left \in Nat /\ r.poll.left \in Nat /\ r.req.left \in Nat
    BY <1>1, <1>2 DEF Timers
  <2> QED
    BY <1>3, <2>1, <2>2, TimeoutAssumption, SMT DEF Bounded
<1>6. ASSUME r = Off
      PROVE  q = r
  <2>1. Ticked(r.gone) = r.gone /\ Ticked(r.poll) = r.poll /\ Ticked(r.req) = r.req
    BY <1>6 DEF Off, Ticked, Armed, timer_init
  <2> QED
    BY <1>1, <1>3, <2>1, SMT DEF Nodes
<1> QED
  BY <1>3, <1>4, <1>5, <1>6 DEF Good

\* Time passes for every slave.
LEMMA TickNodes ==
    ASSUME Shape, Tick, NEW n \in Slaves
    PROVE  /\ ~ Due(node[n].gone) /\ ~ Due(node[n].poll) /\ ~ Due(node[n].req)
           /\ node'[n] = TickOf(node[n])
  BY DEF Tick, Quiet, TickOf

\* So does the passing of time.
LEMMA TickShape ==
    ASSUME Shape, Tick
    PROVE  Shape'
<1>1. ASSUME NEW n \in Slaves
      PROVE  /\ Good(node'[n]) /\ Bounded(node'[n]) /\ node'[n].state = node[n].state
             /\ node'[n].state = "OFF" => node'[n] = Off
  BY TickNodes, TickedNode, SMT DEF Shape
<1>2. node' \in [Slaves -> Nodes]
  <2>1. \A n \in Slaves : node'[n] \in Nodes
    BY <1>1 DEF Good
  <2>2. DOMAIN node' = Slaves /\ node' = [n \in Slaves |-> node'[n]]
    BY DEF Tick
  <2> QED
    BY <2>1, <2>2
<1>3. tmr' \in Timers(Jobs) /\ (tmr' = timer_init \/ Many(tmr', "request"))
  <2>1. tmr' = Ticked(tmr) /\ ~ Due(tmr)
    BY DEF Tick, Quiet
  <2> QED
    BY <2>1, TickedTimer, SMT DEF Shape, Many, timer_init, Armed
<1>4. net' = {}
  BY DEF Tick, Quiet
<1> QED
  BY <1>1, <1>2, <1>3, <1>4 DEF Shape, Tick

\* Every step keeps slaves, timer and network in order.
LEMMA ShapeNext ==
    ASSUME Shape, [Next]_vars
    PROVE  Shape'
  BY TimedSteps, SlaveShape, KilledShape, MasterShape, TickShape

-----------------------------------------------------------------------------
(* How far the clocks of two slaves may be apart.                          *)

\* The gone timer of m has just been armed or is due, or an idle m is about to
\* hear a vote.
Fresh(m) ==
    \/ node[m].gone.left \in {0, MasterGone}
    \/ node[m].state = "IDLE" /\ Flying(m, "VOTE")

Waits(m) == Armed(node[m].gone)

\* While votes are on their way all gone timers are fresh.
VotesFresh == (\E n \in Slaves : Flying(n, "VOTE")) => \A m \in Slaves : Waits(m) => Fresh(m)

\* Who quit the poll is the first to lose patience.
WaitersFirst ==
    \A n, m \in Slaves : node[n].state = "WAITING" /\ Waits(m) =>
        \/ node[m].gone.left >= node[n].gone.left
        \/ node[n].gone.left = MasterGone /\ Fresh(m)

\* Who polls is done SLAVE_POLLING_TIMEOUT after the others were last armed.
PollersAhead ==
    \A s, m \in Slaves : node[s].state = "POLLING" /\ Waits(m) =>
        \/ node[m].gone.left + SlavePolling >= MasterGone + node[s].poll.left
        \/ node[s].poll.left = SlavePolling /\ Fresh(m)

\* A master queries a slave before that loses patience.
MastersAhead ==
    \A s, m \in Slaves : node[s].state = "MASTER" /\ Waits(m) =>
        \/ node[m].gone.left > node[s].req.left
        \/ node[m].gone.left = 0
        \/ Flying(m, "REQUEST")
        \/ node[m].state = "IDLE" /\ Flying(m, "VOTE")

\* With the regular master on, whoever polls or is a master is told to stop.
PollersReset ==
    Armed(tmr) => \A s \in Slaves : node[s].state \in {"POLLING", "MASTER"} =>
        Flying(s, "RESET") \/ Flying(RegularMaster, "VOTE")

TimedInv ==
    Shape /\ VotesFresh /\ WaitersFirst /\ PollersAhead /\ MastersAhead /\ PollersReset

\* Slave m after a step: its gone timer is newly armed, or the slave and what
\* it is about to hear are the same.
Aged(m) ==
    \/ node'[m].gone.left = MasterGone
    \/ /\ Waits(m)
       /\ node'[m].gone = node[m].gone /\ node'[m].state = node[m].state
       /\ Flying(m, "REQUEST") => Flying(m, "REQUEST")'
       /\ node[m].state = "IDLE" /\ Flying(m, "VOTE") => Flying(m, "VOTE")'

AllAged == \A m \in Slaves : Waits(m)' => Aged(m)

\* Slave s after a step: it waits, polls or acts as the master as before.
GoesOn(s) ==
    /\ node'[s].state = node[s].state
    /\ node[s].state = "WAITING" => node'[s].gone = node[s].gone
    /\ node[s].state = "POLLING" => node'[s].poll = node[s].poll
    /\ node[s].state = "MASTER" => node'[s].req = node[s].req

\* What the timers and the state of a slave in order are.
LEMMA NodeNumbers ==
    ASSUME NEW r, Good(r), Bounded(r)
    PROVE  /\ r.gone.left \in Nat /\ r.poll.left \in Nat /\ r.req.left \in Nat
           /\ r.gone.left <= MasterGone
           /\ r.state = "POLLING" => r.poll.left <= SlavePolling /\ Armed(r.poll)
           /\ r.state = "MASTER" => r.req.left <= MasterRequest /\ Armed(r.req)
           /\ Armed(r.gone) <=> r.state \in {"IDLE", "WAITING"}
           /\ r.state \in {"OFF", "IDLE", "WAITING", "POLLING", "MASTER"}
<1>1. r \in Nodes /\ Fit(r)
  BY DEF Good
<1>2. r.gone \in Timers(Jobs) /\ r.poll \in Timers(Jobs) /\ r.req \in Timers(Jobs)
  BY <1>1 DEF Nodes
<1>3. r.gone.left \in Nat /\ r.poll.left \in Nat /\ r.req.left \in Nat
  BY <1>2 DEF Timers
<1>4. r.state \in States
  BY <1>1 DEF Nodes
<1> QED
  BY <1>1, <1>3, <1>4 DEF Bounded, Fit, Once, Many, Armed, States

\* What is fresh stays so.
LEMMA AgedFresh ==
    ASSUME NEW m \in Slaves, Aged(m)
    PROVE  \/ Fresh(m)'
           \/ Waits(m) /\ ~ Fresh(m)
  BY DEF Aged, Fresh

\* A slave that goes on keeps its distance to every other.
LEMMA GoesOnKeeps ==
    ASSUME Shape, Shape', NEW s \in Slaves, GoesOn(s), NEW m \in Slaves, Waits(m)', Aged(m)
    PROVE  /\ node'[s].state = "WAITING" /\ WaitersFirst =>
                 \/ node'[m].gone.left >= node'[s].gone.left
                 \/ node'[s].gone.left = MasterGone /\ Fresh(m)'
           /\ node'[s].state = "POLLING" /\ PollersAhead =>
                 \/ node'[m].gone.left + SlavePolling >= MasterGone + node'[s].poll.left
                 \/ node'[s].poll.left = SlavePolling /\ Fresh(m)'
           /\ node'[s].state = "MASTER" /\ MastersAhead =>
                 \/ node'[m].gone.left > node'[s].req.left
                 \/ node'[m].gone.left = 0
                 \/ Flying(m, "REQUEST")'
                 \/ node'[m].state = "IDLE" /\ Flying(m, "VOTE")'
<1>1. /\ node'[s].gone.left \in Nat /\ node'[s].poll.left \in Nat /\ node'[s].req.left \in Nat
      /\ node'[s].gone.left <= MasterGone
      /\ node'[s].state = "POLLING" => node'[s].poll.left <= SlavePolling
      /\ node'[s].state = "MASTER" => node'[s].req.left <= MasterRequest
  <2>1. Good(node'[s]) /\ Bounded(node'[s])
    BY DEF Shape
  <2> QED
    BY <2>1, NodeNumbers
<1>2. CASE node'[m].gone.left = MasterGone
  BY <1>1, <1>2, TimeoutAssumption, TimedAssumption, SMT
<1>3. CASE Waits(m) /\ node'[m].gone = node[m].gone /\ node'[m].state = node[m].state
  <2>1. Fresh(m) => Fresh(m)'
    BY AgedFresh
  <2>2. WaitersFirst /\ node'[s].state = "WAITING" =>
                 \/ node'[m].gone.left >= node'[s].gone.left
                 \/ node'[s].gone.left = MasterGone /\ Fresh(m)'
    BY <1>3, <2>1 DEF WaitersFirst, GoesOn
  <2>3. PollersAhead /\ node'[s].state = "POLLING" =>
                 \/ node'[m].gone.left + SlavePolling >= MasterGone + node'[s].poll.left
                 \/ node'[s].poll.left = SlavePolling /\ Fresh(m)'
    BY <1>3, <2>1 DEF PollersAhead, GoesOn
  <2>4. CASE node'[m].gone.left # MasterGone
    BY <1>3, <2>2, <2>3, <2>4 DEF MastersAhead, GoesOn, Aged
  <2> QED
    BY <1>2, <2>4
<1> QED
  BY <1>2, <1>3 DEF Aged

-----------------------------------------------------------------------------
(* A step of a slave.                                                      *)

\* A slave that waits has a gone timer that is newly armed, or has heard nothing
\* that makes it arm it.
LEMMA SlaveAged ==
    ASSUME Shape, NEW n \in Slaves, NEW c, NEW res, SlaveStep(n, c, res)
    PROVE  AllAged
<1> SUFFICES ASSUME NEW m \in Slaves, Waits(m)'
             PROVE  Aged(m)
  BY DEF AllAged
<1>1. node'[m] = IF m = n THEN res.node ELSE node[m]
  BY OneChanges DEF SlaveStep
<1>2. \A type : Flying(m, type) /\ (m # n \/ type # c) => Flying(m, type)'
  BY CarriedFlying DEF SlaveStep
<1>3. CASE m # n
  BY <1>1, <1>2, <1>3 DEF Aged, Waits
<1>4. CASE m = n
  <2>1. Armed(res.node.gone)
    BY <1>1, <1>4 DEF Waits
  <2>2. res.node.state \in {"IDLE", "WAITING"}
    BY <2>1 DEF SlaveStep, Good, Fit, Armed
  <2>3. CASE Stays(node[n], res) /\ c # "REQUEST" /\ (node[n].state = "IDLE" => c # "VOTE")
    BY <1>1, <1>2, <1>4, <2>1, <2>3 DEF Stays, Aged, Waits
  <2>4. CASE Listens(res) \/ Quits(res)
    BY <1>1, <1>4, <2>4 DEF Listens, Quits, Aged
  <2> QED
    BY <2>2, <2>3, <2>4 DEF SlaveStep, Outcome, Polls, Wins, Queries
<1> QED
  BY <1>3, <1>4

\* Once a vote has been heard or sent, all gone timers are fresh.
LEMMA VotedFresh ==
    ASSUME TimedInv, NEW n \in Slaves, NEW c, NEW res, SlaveStep(n, c, res),
           c = "VOTE" \/ Polls(res), NEW m \in Slaves, Waits(m)'
    PROVE  Fresh(m)'
<1>1. Aged(m)
  BY SlaveAged DEF TimedInv, AllAged
<1>2. CASE c = "VOTE"
  <2>1. Flying(n, "VOTE")
    BY <1>2 DEF SlaveStep, Carried
  <2> QED
    BY <1>1, <2>1, AgedFresh DEF TimedInv, VotesFresh
<1>3. CASE c # "VOTE" /\ Polls(res) /\ node'[m].gone.left # MasterGone
  <2>1. Due(node[n].gone)
    BY <1>3, SMT DEF SlaveStep, Outcome, Polls, Stays, Listens, Quits, Wins, Queries, NoVotes, Vote
  <2>2. m # n
    <3>1. node \in [Slaves -> Nodes] /\ node' = [node EXCEPT ![n] = res.node]
      BY DEF SlaveStep, TimedInv, Shape
    <3>2. node'[n] = res.node
      BY <3>1
    <3> QED
      BY <1>3, <3>2, SMT DEF Polls, Waits, Armed, timer_init
  <2>3. Waits(m) /\ node'[m].state = node[m].state /\ node'[m].gone = node[m].gone
    BY <1>1, <1>3 DEF Aged
  <2>4. /\ node[m].state \in {"IDLE", "WAITING"} /\ node[m].gone.left \in Nat
        /\ node[n].gone.left = 0 /\ Waits(n)
    BY <2>1, <2>3, NodeNumbers DEF TimedInv, Shape, Waits, Due
  <2>5. CASE node[m].state = "IDLE"
    <3>1. m \in Running \ {n} /\ \E p \in res.out : p.type = "VOTE"
      BY <1>3, <2>2, <2>5, SMT DEF Running, Polls, Vote
    <3>2. Flying(m, "VOTE")'
      BY <3>1, CarriedFlying, SMT DEF SlaveStep
    <3> QED
      BY <2>3, <2>5, <3>2 DEF Fresh
  <2>6. CASE node[m].state = "WAITING"
    <3>1. 0 >= node[m].gone.left \/ node[m].gone.left = MasterGone
      BY <2>4, <2>6 DEF TimedInv, WaitersFirst
    <3> QED
      BY <2>3, <2>4, <3>1, SMT DEF Fresh
  <2> QED
    BY <2>4, <2>5, <2>6
<1> QED
  BY <1>2, <1>3 DEF Fresh

\* A slave other than n goes on, and n does unless its outcome is new.
LEMMA SlaveGoesOn ==
    ASSUME Shape, NEW n \in Slaves, NEW c, NEW res, SlaveStep(n, c, res), NEW s \in Slaves
    PROVE  \/ GoesOn(s) /\ (s = n /\ node[s].state \in {"POLLING", "MASTER"} => c # "RESET")
           \/ /\ s = n /\ node'[s] = res.node
              /\ \/ res.node.state = "IDLE"
                 \/ c = "VOTE" /\ Quits(res)
                 \/ Polls(res)
                 \/ c = "none" /\ (Wins(node[s], res) \/ Queries(node[s], res))
<1>1. node'[s] = IF s = n THEN res.node ELSE node[s]
  BY OneChanges DEF SlaveStep
<1>2. CASE s = n /\ Stays(node[n], res) /\ (node[n].state \in {"POLLING", "MASTER"} => c # "RESET")
  BY <1>1, <1>2 DEF Stays, GoesOn
<1>3. CASE s # n
  BY <1>1, <1>3 DEF GoesOn
<1> QED
  BY <1>1, <1>2, <1>3 DEF SlaveStep, Outcome, Listens

\* A step of a slave keeps the invariant.
LEMMA SlaveInv ==
    ASSUME TimedInv, NEW n \in Slaves, NEW c, NEW res, SlaveStep(n, c, res)
    PROVE  TimedInv'
<1>1. Shape /\ Shape' /\ AllAged
  BY SlaveShape, SlaveAged DEF TimedInv
<1>2. VotesFresh'
  <2> SUFFICES ASSUME NEW k \in Slaves, Flying(k, "VOTE")', NEW m \in Slaves, Waits(m)'
               PROVE  Fresh(m)'
    BY DEF VotesFresh
  <2>1. Flying(k, "VOTE") \/ \E p \in res.out : p.type = "VOTE"
    BY CarriedFlying, SMT DEF SlaveStep
  <2>2. CASE Flying(k, "VOTE")
    BY <1>1, <2>2, AgedFresh DEF TimedInv, VotesFresh, AllAged
  <2>3. CASE \E p \in res.out : p.type = "VOTE"
    <3>1. Polls(res)
      BY <2>3, SMT DEF SlaveStep, Outcome, Stays, Listens, Quits, Wins, Queries, NoVotes, Packet
    <3> QED
      BY <3>1, VotedFresh
  <2> QED
    BY <2>1, <2>2, <2>3
<1>3. ASSUME NEW s \in Slaves, NEW m \in Slaves, Waits(m)'
      PROVE  /\ node'[s].state = "WAITING" =>
                   \/ node'[m].gone.left >= node'[s].gone.left
                   \/ node'[s].gone.left = MasterGone /\ Fresh(m)'
             /\ node'[s].state = "POLLING" =>
                   \/ node'[m].gone.left + SlavePolling >= MasterGone + node'[s].poll.left
                   \/ node'[s].poll.left = SlavePolling /\ Fresh(m)'
             /\ node'[s].state = "MASTER" =>
                   \/ node'[m].gone.left > node'[s].req.left
                   \/ node'[m].gone.left = 0
                   \/ Flying(m, "REQUEST")'
                   \/ node'[m].state = "IDLE" /\ Flying(m, "VOTE")'
  <2>0. Aged(m)
    BY <1>1, <1>3 DEF AllAged
  <2>1. CASE GoesOn(s)
    BY <1>1, <1>3, <2>0, <2>1, GoesOnKeeps DEF TimedInv
  <2>2. CASE node'[s].state \in {"OFF", "IDLE"}
    BY <2>2
  <2>3. CASE node'[s] = res.node /\ c = "VOTE" /\ Quits(res)
    BY <1>3, <2>3, VotedFresh DEF Quits
  <2>4. CASE node'[s] = res.node /\ Polls(res)
    BY <1>3, <2>4, VotedFresh DEF Polls
  <2>5. ASSUME s = n, node'[s] = res.node, c = "none", Wins(node[s], res)
        PROVE  /\ node'[s].state = "MASTER"
               /\ \/ node'[m].gone.left > node'[s].req.left
                  \/ node'[m].gone.left = 0
                  \/ node'[m].state = "IDLE" /\ Flying(m, "VOTE")'
    <3>1. /\ node[s].state = "POLLING" /\ node[s].poll.left = 0
          /\ node'[s].state = "MASTER" /\ node'[s].req.left = MasterRequest
      BY <2>5 DEF Wins, Due
    <3>2. CASE node'[m].gone.left = MasterGone
      BY <3>1, <3>2, TimedAssumption, TimeoutAssumption, SMT
    <3>3. CASE Waits(m) /\ node'[m].gone = node[m].gone /\ node[m].gone.left # MasterGone
      <4>1. node[m].gone.left \in Nat
        BY <1>1, NodeNumbers DEF Shape
      <4>2. \/ node[m].gone.left + SlavePolling >= MasterGone + node[s].poll.left
            \/ Fresh(m)
        BY <3>1, <3>3 DEF TimedInv, PollersAhead
      <4>3. CASE node[m].gone.left + SlavePolling >= MasterGone + node[s].poll.left
        BY <3>1, <3>3, <4>1, <4>3, TimedAssumption, TimeoutAssumption, SMT
      <4>4. CASE Fresh(m)
        BY <2>0, <3>1, <3>3, <4>4 DEF Fresh, Aged
      <4> QED
        BY <4>2, <4>3, <4>4
    <3> QED
      BY <2>0, <3>1, <3>2, <3>3 DEF Aged
  <2>6. ASSUME s = n, node'[s] = res.node, c = "none", Queries(node[s], res)
        PROVE  node'[s].state = "MASTER" /\ Flying(m, "REQUEST")'
    <3>1. node'[s].state = "MASTER" /\ Packet("REQUEST") \in res.out
      BY <2>6 DEF Queries
    <3>2. m # n /\ m \in Running
      <4>1. Armed(node'[m].gone)
        BY <1>3 DEF Waits
      <4>2. node'[m].state \in {"IDLE", "WAITING"}
        BY <1>1, <4>1, NodeNumbers DEF Shape
      <4>3. m # n
        BY <2>6, <3>1, <4>2
      <4>4. node'[m] = node[m]
        BY <1>1, <4>3, OneChanges DEF SlaveStep
      <4> QED
        BY <4>2, <4>3, <4>4 DEF Running
    <3>3. \E p \in res.out : p.type = "REQUEST"
      BY <3>1 DEF Packet
    <3> QED
      BY <3>1, <3>2, <3>3, CarriedFlying, SMT DEF SlaveStep
  <2>7. \/ GoesOn(s)
        \/ /\ s = n /\ node'[s] = res.node
           /\ \/ res.node.state = "IDLE"
              \/ c = "VOTE" /\ Quits(res)
              \/ Polls(res)
              \/ c = "none" /\ (Wins(node[s], res) \/ Queries(node[s], res))
    BY <1>1, SlaveGoesOn
  <2>8. CASE node'[s].state = "MASTER"
    BY <2>1, <2>2, <2>3, <2>4, <2>5, <2>6, <2>7, <2>8 DEF Quits, Polls
  <2>9. CASE node'[s].state # "MASTER"
    BY <2>1, <2>2, <2>3, <2>4, <2>5, <2>6, <2>7, <2>9
  <2> QED
    BY <2>8, <2>9
<1>4. WaitersFirst' /\ PollersAhead' /\ MastersAhead'
  BY <1>3 DEF WaitersFirst, PollersAhead, MastersAhead
<1>5. PollersReset'
  <2> SUFFICES ASSUME Armed(tmr'), NEW s \in Slaves, node'[s].state \in {"POLLING", "MASTER"}
               PROVE  Flying(s, "RESET")' \/ Flying(RegularMaster, "VOTE")'
    BY DEF PollersReset
  <2>1. Armed(tmr) /\ n # RegularMaster
    BY TimedAssumption DEF SlaveStep
  <2>2. Flying(RegularMaster, "VOTE") => Flying(RegularMaster, "VOTE")'
    BY <2>1, CarriedFlying DEF SlaveStep
  <2>3. CASE node[s].state \in {"POLLING", "MASTER"} /\ (s = n => c # "RESET")
    <3>1. Flying(s, "RESET") => Flying(s, "RESET")'
      BY <2>3, CarriedFlying, SMT DEF SlaveStep
    <3> QED
      BY <2>1, <2>2, <2>3, <3>1 DEF TimedInv, PollersReset
  <2>4. CASE Polls(res)
    <3>1. RegularMaster \in Running \ {n} /\ \E p \in res.out : p.type = "VOTE"
      BY <2>1, <2>4, SMT DEF Running, Polls, Vote
    <3> QED
      BY <3>1, CarriedFlying, SMT DEF SlaveStep
  <2> QED
    BY <1>1, <2>3, <2>4, SlaveGoesOn, SMT DEF GoesOn, Quits, Wins, Queries
<1> QED
  BY <1>1, <1>2, <1>4, <1>5 DEF TimedInv

-----------------------------------------------------------------------------
(* The other steps.                                                        *)

\* A step that leaves slaves as they are, or without a vote on its way to them,
\* keeps their distances.
LEMMA CalmInv ==
    ASSUME TimedInv, Shape', AllAged,
           \A s \in Slaves : GoesOn(s) \/ node'[s].state = "OFF",
           \A s \in Slaves : Flying(s, "VOTE")' => Flying(s, "VOTE"),
           PollersReset'
    PROVE  TimedInv'
<1>1. Shape
  BY DEF TimedInv
<1>2. VotesFresh'
  <2> SUFFICES ASSUME NEW k \in Slaves, Flying(k, "VOTE")', NEW m \in Slaves, Waits(m)'
               PROVE  Fresh(m)'
    BY DEF VotesFresh
  <2> QED
    BY AgedFresh DEF TimedInv, VotesFresh, AllAged
<1>3. ASSUME NEW s \in Slaves, NEW m \in Slaves, Waits(m)'
      PROVE  /\ node'[s].state = "WAITING" =>
                   \/ node'[m].gone.left >= node'[s].gone.left
                   \/ node'[s].gone.left = MasterGone /\ Fresh(m)'
             /\ node'[s].state = "POLLING" =>
                   \/ node'[m].gone.left + SlavePolling >= MasterGone + node'[s].poll.left
                   \/ node'[s].poll.left = SlavePolling /\ Fresh(m)'
             /\ node'[s].state = "MASTER" =>
                   \/ node'[m].gone.left > node'[s].req.left
                   \/ node'[m].gone.left = 0
                   \/ Flying(m, "REQUEST")'
                   \/ node'[m].state = "IDLE" /\ Flying(m, "VOTE")'
  <2>1. CASE GoesOn(s)
    BY <1>1, <1>3, <2>1, GoesOnKeeps DEF TimedInv, AllAged
  <2> QED
    BY <2>1
<1>4. WaitersFirst' /\ PollersAhead' /\ MastersAhead'
  BY <1>3 DEF WaitersFirst, PollersAhead, MastersAhead
<1> QED
  BY <1>2, <1>4 DEF TimedInv

\* Killing a slave keeps the invariant.
LEMMA KilledInv ==
    ASSUME TimedInv, NEW n \in Slaves, Killed(n)
    PROVE  TimedInv'
<1>1. Shape /\ Shape'
  BY KilledShape DEF TimedInv
<1>2. \A m \in Slaves : node'[m] = IF m = n THEN Off ELSE node[m]
  BY <1>1, OneChanges DEF Killed
<1>3. \A m, type : /\ Flying(m, type)' => Flying(m, type)
                   /\ Flying(m, type) /\ m # n => Flying(m, type)'
  BY DEF Killed, Flying, Without
<1>4. AllAged
  BY <1>2, <1>3, SMT DEF AllAged, Aged, Waits, Off, timer_init, Armed
<1>5. \A s \in Slaves : GoesOn(s) \/ node'[s].state = "OFF"
  BY <1>2, SMT DEF GoesOn, Off
<1>6. PollersReset'
  <2>1. n # RegularMaster /\ tmr' = tmr
    BY TimedAssumption DEF Killed
  <2>2. \A s \in Slaves : node'[s].state \in {"POLLING", "MASTER"} => s # n /\ node'[s] = node[s]
    BY <1>2, SMT DEF Off
  <2> QED
    BY <1>3, <2>1, <2>2 DEF TimedInv, PollersReset
<1> QED
  BY <1>1, <1>3, <1>4, <1>5, <1>6, CalmInv

\* So does the regular master: it sends no vote, and a reset to all when it
\* starts or hears one.
LEMMA MasterInv ==
    ASSUME TimedInv, MasterStep
    PROVE  TimedInv'
<1> DEFINE Steady == \A s \in Slaves :
                        /\ \A type : Flying(s, type) => Flying(s, type)'
                        /\ Flying(s, "VOTE")' => Flying(s, "VOTE")
           Told == \/ ~ Armed(tmr')
                   \/ \A s \in Slaves : node[s].state # "OFF" => Flying(s, "RESET")'
                   \/ /\ Armed(tmr)
                      /\ Flying(RegularMaster, "VOTE") => Flying(RegularMaster, "VOTE")'
<1>1. Shape /\ Shape' /\ node' = node
  BY MasterShape DEF TimedInv, MasterStep
<1>2. Steady /\ Told
  <2>0. \A s \in Slaves : s # RegularMaster
    BY TimedAssumption
  <2>1. CASE UNCHANGED <<tmr, net>>
    BY <2>1 DEF Flying
  <2>2. CASE tmr' = timer_init /\ net' = Without(RegularMaster)
    <3>1. ~ Armed(tmr')
      BY <2>2 DEF timer_init, Armed
    <3>2. \A m, type : /\ Flying(m, type)' => Flying(m, type)
                       /\ Flying(m, type) /\ m # RegularMaster => Flying(m, type)'
      BY <2>2 DEF Flying, Without
    <3> QED
      BY <2>0, <3>1, <3>2
  <2>3. ASSUME NEW c, NEW out, NoVotes(out),
               c = "VOTE" \/ ~ Armed(tmr) => Packet("RESET") \in out,
               Carried(RegularMaster, c, out)
        PROVE  Steady /\ Told
    <3>1. \A m, type :
             /\ Flying(m, type) /\ (m # RegularMaster \/ type # c) => Flying(m, type)'
             /\ m \in Running \ {RegularMaster} /\ (\E p \in out : p.type = type) =>
                   Flying(m, type)'
             /\ Flying(m, type)' => Flying(m, type) \/ \E p \in out : p.type = type
      BY <2>3, CarriedFlying, SMT
    <3>2. Steady
      BY <2>0, <2>3, <3>1 DEF NoVotes
    <3>3. CASE Packet("RESET") \in out
      <4>1. \A s \in Slaves : node[s].state # "OFF" => s \in Running \ {RegularMaster}
        BY <2>0 DEF Running
      <4>2. \E p \in out : p.type = "RESET"
        BY <3>3 DEF Packet
      <4> QED
        BY <3>1, <3>2, <4>1, <4>2
    <3>4. CASE c # "VOTE" /\ Armed(tmr)
      BY <3>1, <3>2, <3>4
    <3> QED
      BY <2>3, <3>3, <3>4
  <2> QED
    BY <2>1, <2>2, <2>3 DEF MasterStep
<1>3. AllAged /\ \A s \in Slaves : GoesOn(s)
  BY <1>1, <1>2 DEF AllAged, Aged, Waits, GoesOn, Armed
<1>4. PollersReset'
  BY <1>1, <1>2 DEF TimedInv, PollersReset
<1> QED
  BY <1>1, <1>2, <1>3, <1>4, CalmInv

\* As time passes, the distances stay.
LEMMA TickInv ==
    ASSUME TimedInv, Tick
    PROVE  TimedInv'
<1>1. Shape /\ Shape'
  BY TickShape DEF TimedInv
<1>2. \A n, type : ~ Flying(n, type) /\ ~ Flying(n, type)'
  BY DEF Tick, Quiet, Flying
<1>3. ASSUME NEW m \in Slaves
      PROVE  /\ node'[m].state = node[m].state
             /\ node[m].gone.left \in Nat /\ node[m].poll.left \in Nat /\ node[m].req.left \in Nat
             /\ Waits(m)' = Waits(m)
             /\ Waits(m) => node[m].gone.left > 0 /\ node'[m].gone.left = node[m].gone.left - 1
             /\ node[m].state = "POLLING" => /\ node[m].poll.left > 0
                                             /\ node'[m].poll.left = node[m].poll.left - 1
             /\ node[m].state = "MASTER" => /\ node[m].req.left > 0
                                            /\ node'[m].req.left = node[m].req.left - 1
             /\ node[m].state = "WAITING" => Waits(m)
  <2> DEFINE r == node[m]
             q == node'[m]
  <2>1. Good(r) /\ Bounded(r) /\ ~ Due(r.gone) /\ ~ Due(r.poll) /\ ~ Due(r.req) /\ q = TickOf(r)
    BY <1>1, TickNodes DEF Shape
  <2>2. /\ q.state = r.state
        /\ q.gone = Ticked(r.gone) /\ q.poll = Ticked(r.poll) /\ q.req = Ticked(r.req)
    BY <2>1, TickedNode
  <2>3. r.gone \in Timers(Jobs) /\ r.poll \in Timers(Jobs) /\ r.req \in Timers(Jobs)
    BY <2>1 DEF Good, Nodes
  <2>4. \A t \in {r.gone, r.poll, r.req} :
           /\ Armed(t) => t.left > 0 /\ Ticked(t).left = t.left - 1
           /\ Armed(Ticked(t)) = Armed(t)
    BY <2>1, <2>3, TickedTimer, SMT DEF Armed
  <2>5. /\ r.gone.left \in Nat /\ r.poll.left \in Nat /\ r.req.left \in Nat
        /\ r.state = "POLLING" => Armed(r.poll)
        /\ r.state = "MASTER" => Armed(r.req)
        /\ r.state = "WAITING" => Armed(r.gone)
    BY <2>1, NodeNumbers
  <2>6. Waits(m) = Armed(r.gone) /\ Waits(m)' = Armed(q.gone)
    BY DEF Waits
  <2> HIDE DEF r, q
  <2>7. /\ q.state = r.state
        /\ Waits(m)' = Waits(m)
        /\ Waits(m) => r.gone.left > 0 /\ q.gone.left = r.gone.left - 1
        /\ r.state = "POLLING" => r.poll.left > 0 /\ q.poll.left = r.poll.left - 1
        /\ r.state = "MASTER" => r.req.left > 0 /\ q.req.left = r.req.left - 1
        /\ r.state = "WAITING" => Waits(m)
    BY <2>2, <2>4, <2>5, <2>6
  <2> QED
    BY <2>5, <2>7 DEF r, q
<1>4. WaitersFirst'
  <2> SUFFICES ASSUME NEW n \in Slaves, NEW m \in Slaves, node'[n].state = "WAITING", Waits(m)'
               PROVE  node'[m].gone.left >= node'[n].gone.left
    BY DEF WaitersFirst
  <2>1. \/ node[m].gone.left >= node[n].gone.left
        \/ node[n].gone.left = MasterGone /\ node[m].gone.left \in {0, MasterGone}
    BY <1>2, <1>3 DEF TimedInv, WaitersFirst, Fresh
  <2> QED
    BY <1>3, <2>1, SMT
<1>5. PollersAhead'
  <2> SUFFICES ASSUME NEW s \in Slaves, NEW m \in Slaves, node'[s].state = "POLLING", Waits(m)'
               PROVE  node'[m].gone.left + SlavePolling >= MasterGone + node'[s].poll.left
    BY DEF PollersAhead
  <2>1. \/ node[m].gone.left + SlavePolling >= MasterGone + node[s].poll.left
        \/ node[s].poll.left = SlavePolling /\ node[m].gone.left \in {0, MasterGone}
    BY <1>2, <1>3 DEF TimedInv, PollersAhead, Fresh
  <2> QED
    BY <1>3, <2>1, TimeoutAssumption, SMT
<1>6. MastersAhead'
  <2> SUFFICES ASSUME NEW s \in Slaves, NEW m \in Slaves, node'[s].state = "MASTER", Waits(m)'
               PROVE  node'[m].gone.left > node'[s].req.left
    BY DEF MastersAhead
  <2>1. node[m].gone.left > node[s].req.left \/ node[m].gone.left = 0
    BY <1>2, <1>3 DEF TimedInv, MastersAhead
  <2> QED
    BY <1>3, <2>1, SMT
<1>7. VotesFresh'
  BY <1>2 DEF VotesFresh
<1>8. PollersReset'
  <2>1. Armed(tmr') => Armed(tmr)
    BY DEF Tick, Ticked
  <2> QED
    BY <1>2, <1>3, <2>1 DEF TimedInv, PollersReset
<1> QED
  BY <1>1, <1>4, <1>5, <1>6, <1>7, <1>8 DEF TimedInv

\* It holds at first.
LEMMA InitTimed == Init => TimedInv
<1> SUFFICES ASSUME Init
             PROVE  TimedInv
  OBVIOUS
<1>1. \A n \in Slaves : node[n] = Off
  BY DEF Init
<1>2. Good(Off) /\ Bounded(Off) /\ Off \in Nodes /\ Off.state = "OFF" /\ ~ Armed(Off.gone)
  BY OffGood, TimeoutAssumption, SMT DEF Bounded, Off, timer_init, Good, Armed
<1>3. timer_init \in Timers(Jobs) /\ ~ Armed(timer_init)
  BY DEF timer_init, Timers, Armed
<1>4. net = {}
  BY DEF Init
<1>5. Shape
  BY <1>1, <1>2, <1>3, <1>4 DEF Init, Shape
<1> QED
  BY <1>1, <1>2, <1>3, <1>5 DEF Init, TimedInv, VotesFresh, WaitersFirst, PollersAhead,
     MastersAhead, PollersReset, Waits

\* The inductive invariant of TimedElection holds in every state: the clocks of
\* the slaves stay as far apart as the timeouts of the protocol ask for.
THEOREM TimedInvariance == Spec => []TimedInv
<1>1. TimedInv /\ [Next]_vars => TimedInv'
  <2> SUFFICES ASSUME TimedInv, [Next]_vars
               PROVE  TimedInv'
    OBVIOUS
  <2>1. Shape
    BY DEF TimedInv
  <2> QED
    BY <2>1, TimedSteps, SlaveInv, KilledInv, MasterInv, TickInv
<1> QED
  BY <1>1, InitTimed, PTL DEF Spec

\* However nodes are started and killed, votes collide and packets overtake each
\* other, a slave that acts as the master queries the slaves before any of them
\* gives it up.
THEOREM HeardSafe == Spec => []HeardInTime
<1>1. TimedInv => HeardInTime
  <2> SUFFICES ASSUME TimedInv, Quiet, NEW s \in Slaves, NEW n \in Slaves,
                      node[s].state = "MASTER", Armed(node[n].gone)
               PROVE  node[n].gone.left > node[s].req.left
    BY DEF HeardInTime
  <2>1. \A type : ~ Flying(n, type)
    BY DEF Quiet, Flying
  <2>2. node[n].gone.left # 0
    BY DEF Quiet, Due
  <2> QED
    BY <2>1, <2>2 DEF TimedInv, MastersAhead, Waits
<1> QED
  BY <1>1, TimedInvariance, PTL

\* While the regular master runs, and packets have arrived, no slave polls or
\* acts as the master.
THEOREM RegularMasterSafe == Spec => []RegularMasterRules
<1>1. TimedInv => RegularMasterRules
  <2> SUFFICES ASSUME TimedInv, net = {}, Armed(tmr), NEW n \in Slaves
               PROVE  node[n].state \in {"OFF", "IDLE", "WAITING"}
    BY DEF RegularMasterRules
  <2>1. \A m, type : ~ Flying(m, type)
    BY DEF Flying
  <2>2. node[n].state \in {"OFF", "IDLE", "WAITING", "POLLING", "MASTER"}
    BY NodeNumbers DEF TimedInv, Shape
  <2> QED
    BY <2>1, <2>2 DEF TimedInv, PollersReset
<1> QED
  BY <1>1, TimedInvariance, PTL

-----------------------------------------------------------------------------
(* The network that makes no promise.                                      *)

\* What slave n does in a step: the result of one of its handlers.
Handles(n, res) ==
    LET r == node[n] IN
    \/ res \in {Result(slave_run, {}), Result(Off, {})}
    \/ /\ r.state # "OFF"
       /\ \E p \in sent, v \in Votes, changed \in BOOLEAN : res = slave_act(r, p, v, changed)
    \/ Armed(r.gone) /\ \E v \in Votes : res = gone_fires(r, v)
    \/ Armed(r.poll) /\ LossyPollTimer(n) /\ \E changed \in BOOLEAN : res = poll_fires(r, changed)
    \/ Armed(r.req) /\ res = request_fires(r)

\* A step is that of a handler of a slave, or the regular master sends packets.
LEMMA LossySteps ==
    ASSUME [LossyNext]_lossyVars, IInv
    PROVE  \/ \E n \in Slaves : \E res : LossyApply(n, res) /\ Handles(n, res)
           \/ /\ UNCHANGED node
              /\ master_on' \in BOOLEAN
              /\ \E P \in SUBSET Packets : sent' = sent \cup P
<1>1. ASSUME NEW n \in Slaves, LossyStart(n) \/ LossyStop(n)
      PROVE  \E res : LossyApply(n, res) /\ Handles(n, res)
  BY <1>1 DEF LossyStart, LossyStop, Handles
<1>2. ASSUME NEW n \in Slaves, lossy_data_received(n)
      PROVE  \E res : LossyApply(n, res) /\ Handles(n, res)
  <2>1. PICK p \in sent, v \in Votes, changed \in BOOLEAN :
           LossyApply(n, slave_act(node[n], p, v, changed))
    BY <1>2 DEF lossy_data_received
  <2> QED
    BY <1>2, <2>1 DEF lossy_data_received, Handles
<1>3. ASSUME NEW n \in Slaves, LossyGoneTimer(n)
      PROVE  \E res : LossyApply(n, res) /\ Handles(n, res)
  <2>1. PICK v \in Votes : LossyApply(n, gone_fires(node[n], v))
    BY <1>3 DEF LossyGoneTimer
  <2> QED
    BY <1>3, <2>1 DEF LossyGoneTimer, Handles
<1>4. ASSUME NEW n \in Slaves, LossyPollTimer(n)
      PROVE  \E res : LossyApply(n, res) /\ Handles(n, res)
  <2>1. PICK changed \in BOOLEAN : LossyApply(n, poll_fires(node[n], changed))
    BY <1>4 DEF LossyPollTimer
  <2>2. Armed(node[n].poll)
    BY <1>4 DEF LossyPollTimer
  <2> QED
    BY <1>4, <2>1, <2>2 DEF Handles
<1>5. ASSUME NEW n \in Slaves, LossyRequestTimer(n)
      PROVE  \E res : LossyApply(n, res) /\ Handles(n, res)
  BY <1>5 DEF LossyRequestTimer, Handles
<1>6. ASSUME lossy_master_run \/ MasterSends \/ LossyMasterStops \/ UNCHANGED lossyVars
      PROVE  /\ UNCHANGED node
             /\ master_on' \in BOOLEAN
             /\ \E P \in SUBSET Packets : sent' = sent \cup P
  <2>1. UNCHANGED node /\ master_on' \in BOOLEAN
    BY <1>6 DEF lossy_master_run, MasterSends, LossyMasterStops, lossyVars, IInv, TypeOK
  <2>2. \/ sent' = sent \cup {}
        \/ \E type \in {"RESET", "REQUEST", "MSG"} : sent' = sent \cup {Packet(type)}
    BY <1>6 DEF lossy_master_run, MasterSends, LossyMasterStops, lossyVars
  <2>3. \E P \in SUBSET Packets : sent' = sent \cup P
    BY <2>2, PacketTypes
  <2> QED
    BY <2>1, <2>3
<1> QED
  BY <1>1, <1>2, <1>3, <1>4, <1>5, <1>6 DEF LossyNext

\* A handler leaves the slave in order, and makes it the master only when the
\* poll timer of a polling slave goes off.
LEMMA HandledGood ==
    ASSUME IInv, NEW n \in Slaves, NEW res, Handles(n, res)
    PROVE  /\ GoodResult(node[n], res)
           /\ node[n].state # "MASTER" /\ res.node.state = "MASTER" =>
                 node[n].state = "POLLING" /\ LossyPollTimer(n)
<1> DEFINE r == node[n]
<1>0. Good(r)
  BY DEF IInv, TypeOK, TimersFitState, PollIsAhead, Good
<1>1. CASE res \in {Result(slave_run, {}), Result(Off, {})}
  BY <1>1, OffGood, SMT DEF GoodResult, Result
<1>2. ASSUME r.state # "OFF", NEW p \in sent, NEW v \in Votes, NEW changed \in BOOLEAN,
             res = slave_act(r, p, v, changed)
      PROVE  GoodResult(r, res) /\ (res.node.state = "MASTER" => r.state = "MASTER")
  BY <1>0, <1>2, ActGood, VotesAssumption DEF IInv, TypeOK
<1>3. ASSUME Armed(r.gone), NEW v \in Votes, res = gone_fires(r, v)
      PROVE  GoodResult(r, res) /\ res.node.state # "MASTER"
  BY <1>0, <1>3, GoneGood, VotesAssumption
<1>4. ASSUME Armed(r.poll), NEW changed \in BOOLEAN, res = poll_fires(r, changed)
      PROVE  /\ GoodResult(r, res)
             /\ r.state # "MASTER" /\ res.node.state = "MASTER" => r.state = "POLLING"
  BY <1>0, <1>4, PollTimerGood
<1>5. CASE Armed(r.req) /\ res = request_fires(r)
  BY <1>0, <1>5, RequestGood
<1> QED
  BY <1>1, <1>2, <1>3, <1>4, <1>5 DEF Handles

\* A handler of a slave keeps the invariant.
LEMMA HandledKeeps ==
    ASSUME IInv, NEW n \in Slaves, NEW res, LossyApply(n, res), GoodResult(node[n], res)
    PROVE  IInv'
<1>1. /\ node' = [node EXCEPT ![n] = res.node]
      /\ sent' = sent \cup res.out
      /\ UNCHANGED master_on
  BY DEF LossyApply
<1>2. /\ node' \in [Slaves -> Nodes]
      /\ sent' \subseteq Packets
      /\ \A m \in Slaves : node'[m] = IF m = n THEN res.node ELSE node[m]
  BY <1>1 DEF IInv, TypeOK, GoodResult, Good
<1>3. ASSUME NEW m \in Slaves
      PROVE  /\ Fit(node'[m]) /\ Ahead(node'[m])
             /\ node'[m].state = "POLLING" => Vote(node'[m].vote_sent) \in sent'
  <2>1. CASE m = n
    BY <1>1, <1>2, <2>1 DEF IInv, PollIsAhead, GoodResult, Good
  <2>2. CASE m # n
    BY <1>1, <1>2, <2>2 DEF IInv, TimersFitState, PollIsAhead
  <2> QED
    BY <2>1, <2>2
<1> QED
  BY <1>1, <1>2, <1>3 DEF IInv, TypeOK, TimersFitState, PollIsAhead

\* Every step keeps the invariant.
LEMMA LossyStepKeeps == IInv /\ [LossyNext]_lossyVars => IInv'
<1> SUFFICES ASSUME IInv, [LossyNext]_lossyVars
             PROVE  IInv'
  OBVIOUS
<1>1. ASSUME NEW n \in Slaves, NEW res, LossyApply(n, res), Handles(n, res)
      PROVE  IInv'
  BY <1>1, HandledGood, HandledKeeps
<1>2. ASSUME UNCHANGED node, master_on' \in BOOLEAN,
             NEW P \in SUBSET Packets, sent' = sent \cup P
      PROVE  IInv'
  BY <1>2 DEF IInv, TypeOK, TimersFitState, PollIsAhead
<1> QED
  BY <1>1, <1>2, LossySteps

\* The inductive invariant of LossyElection holds in every state.
THEOREM LossyInvariance == LossySpec => []IInv
<1>1. LossyInit => IInv
  BY OffGood DEF LossyInit, IInv, TypeOK, TimersFitState, PollIsAhead, Good, Result
<1>2. IInv /\ [LossyNext]_lossyVars => IInv'
  BY LossyStepKeeps
<1> QED
  BY <1>1, <1>2, PTL DEF LossySpec

\* However packets are lost, repeated and reordered, the timers of every slave
\* fit its state.
THEOREM TimersSafe == LossySpec => []TimersFitState
<1>1. IInv => TimersFitState
  BY DEF IInv
<1> QED
  BY <1>1, LossyInvariance, PTL

\* However packets are lost, repeated and reordered, a polling slave is ahead of
\* every vote it heard, and a master and an idle slave remember none.
THEOREM PollSafe == LossySpec => []PollIsAhead
<1>1. IInv => PollIsAhead
  BY DEF IInv
<1> QED
  BY <1>1, LossyInvariance, PTL

\* No packet makes a slave the master: it becomes one when its poll timer goes
\* off, having sent its vote.
THEOREM MasterOnlyByPoll == LossySpec => OnlyByPoll
<1> DEFINE Won(n) == node[n].state # "MASTER" /\ node'[n].state = "MASTER" =>
                        /\ node[n].state = "POLLING"
                        /\ Vote(node[n].vote_sent) \in sent
                        /\ LossyPollTimer(n)
<1>1. ASSUME IInv, [LossyNext]_lossyVars, NEW m \in Slaves
      PROVE  Won(m)
  <2>1. ASSUME NEW n \in Slaves, NEW res, LossyApply(n, res), Handles(n, res)
        PROVE  Won(m)
    <3>1. node'[m] = IF m = n THEN res.node ELSE node[m]
      BY <1>1, <2>1 DEF IInv, TypeOK, LossyApply
    <3>2. node[n].state # "MASTER" /\ res.node.state = "MASTER" =>
             node[n].state = "POLLING" /\ LossyPollTimer(n)
      BY <1>1, <2>1, HandledGood
    <3> QED
      BY <1>1, <3>1, <3>2 DEF IInv, PollIsAhead
  <2>2. CASE UNCHANGED node
    BY <2>2
  <2> QED
    BY <1>1, <2>1, <2>2, LossySteps
<1>2. IInv /\ [LossyNext]_lossyVars =>
          [\A n \in Slaves :
              node[n].state # "MASTER" /\ node'[n].state = "MASTER" =>
                  /\ node[n].state = "POLLING"
                  /\ Vote(node[n].vote_sent) \in sent
                  /\ LossyPollTimer(n)]_lossyVars
  BY <1>1
<1> QED
  BY <1>2, LossyInvariance, PTL DEF LossySpec, OnlyByPoll
=============================================================================
