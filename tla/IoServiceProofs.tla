-------------------------- MODULE IoServiceProofs --------------------------
(***************************************************************************)
(* Proofs about the event loop, for any set of descriptors and any bound   *)
(* on the eventfd: IInv is an invariant, so no registration is lost and no *)
(* descriptor is orphaned in the epoll set, and the loop implements        *)
(* JobRegistry.                                                            *)
(***************************************************************************)
EXTENDS IoService, TLAPS

USE DEF READ, WRITE, Op

-----------------------------------------------------------------------------
(* Preservation of IInv, one lemma per action of the API and the loop.     *)

\* Where the loop over the operations resumes, in terms of pc and cur.
LEMMA ResumeType ==
    ASSUME NEW fd \in Fd, NEW ops \in SUBSET Op, Resume(fd, ops)
    PROVE  /\ pc' \in {"wait", "disp"}
           /\ cur_fd' \in SUBSET Fd /\ cur_ops' \in SUBSET Op /\ cur_op' \in SUBSET Op
BY DEF Resume

\* A post outside run finds the epoll set empty; inside, it notifies.
LEMMA io_service_post_jobIInv ==
    ASSUME IInv, NEW fd \in Fd, NEW op \in Op, NEW once \in BOOLEAN, io_service_post_job(fd, op, once)
    PROVE  IInv'
<1> USE DEF io_service_post_job, notify_svc, InClient, poll, env, loop
<1>1. TypeOK'
  BY MaxNotifyAssumption DEF IInv, TypeOK
<1>2. EventsMatchJobs'
  BY DEF IInv, TypeOK, EventsMatchJobs
<1>3. NoOrphanInterest'
  BY DEF IInv, TypeOK, NoOrphanInterest
<1>4. NoLostRegistration'
  BY MaxNotifyAssumption DEF IInv, TypeOK, EventsMatchJobs,
     NoOrphanInterest, NoLostRegistration, OnlyOpen, Phases
<1>5. OnlyOpen'
  BY DEF IInv, TypeOK, EventsMatchJobs, OnlyOpen
<1>6. Phases'
  BY MaxNotifyAssumption DEF IInv, TypeOK, EventsMatchJobs,
     NoOrphanInterest, NoLostRegistration, OnlyOpen, Phases
<1> QED
  BY <1>1, <1>2, <1>3, <1>4, <1>5, <1>6 DEF IInv

\* A removal only takes obligations away.
LEMMA io_service_remove_jobIInv ==
    ASSUME IInv, NEW fd \in Fd, NEW op \in Op, io_service_remove_job(fd, op)
    PROVE  IInv'
<1> USE DEF io_service_remove_job, notify_svc, poll, env, loop
<1>1. TypeOK'
  BY MaxNotifyAssumption DEF IInv, TypeOK
<1>2. EventsMatchJobs'
  BY DEF IInv, TypeOK, EventsMatchJobs
<1>3. NoOrphanInterest'
  BY DEF IInv, TypeOK, NoOrphanInterest
<1>4. NoLostRegistration'
  BY MaxNotifyAssumption DEF IInv, TypeOK, EventsMatchJobs,
     NoOrphanInterest, NoLostRegistration, OnlyOpen, Phases
<1>5. OnlyOpen'
  BY DEF IInv, TypeOK, EventsMatchJobs, OnlyOpen
<1>6. Phases'
  BY MaxNotifyAssumption DEF IInv, TypeOK, EventsMatchJobs,
     NoOrphanInterest, NoLostRegistration, OnlyOpen, Phases
<1> QED
  BY <1>1, <1>2, <1>3, <1>4, <1>5, <1>6 DEF IInv

\* A stop leaves a notification pending.
LEMMA io_service_stopIInv ==
    ASSUME IInv, NEW w \in BOOLEAN, io_service_stop(w)
    PROVE  IInv'
<1> USE DEF io_service_stop, notify_svc, tbl, poll, env, loop
<1>0. running' \in BOOLEAN /\ allow_new' \in BOOLEAN
  BY Zenon
<1>a. event_fd' \in Nat
  BY MaxNotifyAssumption DEF IInv, TypeOK
<1>1. TypeOK'
  BY <1>0, <1>a DEF IInv, TypeOK
<1>2. EventsMatchJobs'
  BY DEF IInv, TypeOK, EventsMatchJobs
<1>3. NoOrphanInterest'
  BY DEF IInv, TypeOK, NoOrphanInterest
<1>4. NoLostRegistration'
  BY MaxNotifyAssumption DEF IInv, TypeOK, EventsMatchJobs,
     NoOrphanInterest, NoLostRegistration, OnlyOpen, Phases
<1>5. OnlyOpen'
  BY DEF IInv, TypeOK, EventsMatchJobs, OnlyOpen
<1>6. Phases'
  BY MaxNotifyAssumption DEF IInv, TypeOK, EventsMatchJobs,
     NoOrphanInterest, NoLostRegistration, OnlyOpen, Phases
<1> QED
  BY <1>1, <1>2, <1>3, <1>4, <1>5, <1>6 DEF IInv

\* Entering run puts into the epoll set what it lacks.
LEMMA RunIInv ==
    ASSUME IInv, Run
    PROVE  IInv'
<1> USE DEF Run, tbl, env, cur
<1>1. TypeOK'
  BY MaxNotifyAssumption DEF IInv, TypeOK
<1>2. EventsMatchJobs'
  BY DEF IInv, TypeOK, EventsMatchJobs
<1>3. NoOrphanInterest'
  BY DEF IInv, TypeOK, NoOrphanInterest
<1>4. NoLostRegistration'
  BY MaxNotifyAssumption DEF IInv, TypeOK, EventsMatchJobs,
     NoOrphanInterest, NoLostRegistration, OnlyOpen, Phases
<1>5. OnlyOpen'
  BY DEF IInv, TypeOK, EventsMatchJobs, OnlyOpen
<1>6. Phases'
  BY MaxNotifyAssumption DEF IInv, TypeOK, EventsMatchJobs,
     NoOrphanInterest, NoLostRegistration, OnlyOpen, Phases
<1> QED
  BY <1>1, <1>2, <1>3, <1>4, <1>5, <1>6 DEF IInv

\* A loop is left only after a stop.
LEMMA LeaveIInv ==
    ASSUME IInv, Leave
    PROVE  IInv'
<1> USE DEF Leave, api, tbl, poll, env, cur
<1>1. TypeOK'
  BY MaxNotifyAssumption DEF IInv, TypeOK
<1>2. EventsMatchJobs'
  BY DEF IInv, TypeOK, EventsMatchJobs
<1>3. NoOrphanInterest'
  BY DEF IInv, TypeOK, NoOrphanInterest
<1>4. NoLostRegistration'
  BY MaxNotifyAssumption DEF IInv, TypeOK, EventsMatchJobs,
     NoOrphanInterest, NoLostRegistration, OnlyOpen, Phases
<1>5. OnlyOpen'
  BY DEF IInv, TypeOK, EventsMatchJobs, OnlyOpen
<1>6. Phases'
  BY MaxNotifyAssumption DEF IInv, TypeOK, EventsMatchJobs,
     NoOrphanInterest, NoLostRegistration, OnlyOpen, Phases
<1> QED
  BY <1>1, <1>2, <1>3, <1>4, <1>5, <1>6 DEF IInv

\* The refresh makes the masks equal to what is registered.
LEMMA NotifiedIInv ==
    ASSUME IInv, Notified
    PROVE  IInv'
<1> USE DEF Notified, env, loop
<1>1. TypeOK'
  BY MaxNotifyAssumption DEF IInv, TypeOK
<1>2. EventsMatchJobs'
  BY DEF IInv, TypeOK, EventsMatchJobs
<1>3. NoOrphanInterest'
  BY DEF IInv, TypeOK, NoOrphanInterest
<1>4. NoLostRegistration'
  BY MaxNotifyAssumption DEF IInv, TypeOK, EventsMatchJobs,
     NoOrphanInterest, NoLostRegistration, OnlyOpen, Phases
<1>5. OnlyOpen'
  BY DEF IInv, TypeOK, EventsMatchJobs, OnlyOpen
<1>6. Phases'
  BY MaxNotifyAssumption DEF IInv, TypeOK, EventsMatchJobs,
     NoOrphanInterest, NoLostRegistration, OnlyOpen, Phases
<1> QED
  BY <1>1, <1>2, <1>3, <1>4, <1>5, <1>6 DEF IInv

\* Fetching an event changes no registration.
LEMMA FetchIInv ==
    ASSUME IInv, NEW fd \in Fd, Fetch(fd)
    PROVE  IInv'
<1> USE DEF Fetch, Reported, api, tbl, poll, env
<1>1. TypeOK'
  BY MaxNotifyAssumption DEF IInv, TypeOK
<1>2. EventsMatchJobs'
  BY DEF IInv, TypeOK, EventsMatchJobs
<1>3. NoOrphanInterest'
  BY DEF IInv, TypeOK, NoOrphanInterest
<1>4. NoLostRegistration'
  BY MaxNotifyAssumption DEF IInv, TypeOK, EventsMatchJobs,
     NoOrphanInterest, NoLostRegistration, OnlyOpen, Phases
<1>5. OnlyOpen'
  BY DEF IInv, TypeOK, EventsMatchJobs, OnlyOpen
<1>6. Phases'
  BY MaxNotifyAssumption DEF IInv, TypeOK, EventsMatchJobs,
     NoOrphanInterest, NoLostRegistration, OnlyOpen, Phases
<1> QED
  BY <1>1, <1>2, <1>3, <1>4, <1>5, <1>6 DEF IInv

\* One round of dispatch: the slot, the element and the epoll set change together.
LEMMA DispatchIInv ==
    ASSUME IInv, NEW fd \in Fd, NEW op \in Op, Dispatch(fd, op)
    PROVE  IInv'
<1> USE DEF Dispatch, Resume, NextOp, api, tbl, poll, env
<1>1. TypeOK'
  <2>1. CASE fd \notin lookup_table
    BY <2>1 DEF IInv, TypeOK
  <2>2. CASE fd \in lookup_table
    <3>1. /\ events' \in [Fd -> SUBSET Op] /\ job' \in [Fd -> SUBSET Op]
          /\ oneshot' \in [Fd -> SUBSET Op] /\ mask' \in [Fd -> SUBSET Op]
      BY <2>2 DEF IInv, TypeOK
    <3>2. lookup_table' \in SUBSET Fd /\ added' \in SUBSET Fd
      BY <2>2 DEF IInv, TypeOK
    <3>3. /\ pc' \in {"out", "wait", "disp", "call"} /\ cur_fd' \in SUBSET Fd
          /\ cur_ops' \in SUBSET Op /\ cur_op' \in SUBSET Op
      <4>1. CASE op \in job[fd]
        <5>1. /\ pc' = "call" /\ cur_fd' = cur_fd
              /\ cur_ops' = cur_ops \ {op} /\ cur_op' = {op}
          BY <2>2, <4>1
        <5> QED
          BY <5>1 DEF IInv, TypeOK
      <4>2. CASE op \notin job[fd]
        <5>1. Resume(fd, cur_ops \ {op})
          BY <2>2, <4>2
        <5> QED
          BY <5>1, ResumeType DEF IInv, TypeOK
      <4> QED
        BY <4>1, <4>2
    <3> QED
      BY <3>1, <3>2, <3>3 DEF IInv, TypeOK
  <2> QED
    BY <2>1, <2>2
<1>2. EventsMatchJobs'
  <2>1. CASE fd \notin lookup_table
    BY <2>1 DEF IInv, EventsMatchJobs
  <2>2. CASE fd \in lookup_table
    <3>0. /\ events[fd] = job[fd]
          /\ fd \in DOMAIN events \cap DOMAIN job \cap DOMAIN oneshot
      BY DEF IInv, TypeOK, EventsMatchJobs
    <3>1. /\ events'[fd] = job'[fd]
          /\ (fd \notin lookup_table' => events'[fd] = {} /\ oneshot'[fd] = {})
      <4>1. CASE op \in oneshot[fd]
        <5>1. events'[fd] = events[fd] \ {op} /\ job'[fd] = job[fd] \ {op}
          BY <2>2, <3>0, <4>1
        <5>2. CASE events[fd] \ {op} = {}
          BY <2>2, <3>0, <4>1, <5>1, <5>2
        <5>3. CASE events[fd] \ {op} # {}
          BY <2>2, <3>0, <4>1, <5>1, <5>3
        <5> QED
          BY <5>2, <5>3
      <4>2. CASE op \notin oneshot[fd]
        BY <2>2, <3>0, <4>2
      <4> QED
        BY <4>1, <4>2
    <3>2. \A g \in Fd \ {fd} :
            /\ events'[g] = events[g] /\ job'[g] = job[g]
            /\ oneshot'[g] = oneshot[g]
            /\ (g \in lookup_table' <=> g \in lookup_table)
      BY <2>2 DEF IInv, TypeOK, EventsMatchJobs
    <3> QED
      BY <3>1, <3>2 DEF IInv, EventsMatchJobs
  <2> QED
    BY <2>1, <2>2
<1>3. NoOrphanInterest'
  BY DEF IInv, TypeOK, NoOrphanInterest
<1>4. NoLostRegistration'
  BY MaxNotifyAssumption DEF IInv, TypeOK, EventsMatchJobs,
     NoOrphanInterest, NoLostRegistration, OnlyOpen, Phases
<1>5. OnlyOpen'
  BY DEF IInv, TypeOK, EventsMatchJobs, OnlyOpen
<1>6. Phases'
  BY MaxNotifyAssumption DEF IInv, TypeOK, EventsMatchJobs,
     NoOrphanInterest, NoLostRegistration, OnlyOpen, Phases
<1> QED
  BY <1>1, <1>2, <1>3, <1>4, <1>5, <1>6 DEF IInv

\* A job's return changes no registration.
LEMMA JobReturnsIInv ==
    ASSUME IInv, NEW fd \in Fd, JobReturns(fd)
    PROVE  IInv'
<1> USE DEF JobReturns, Resume, api, tbl, poll, env
<1>1. TypeOK'
  BY MaxNotifyAssumption DEF IInv, TypeOK
<1>2. EventsMatchJobs'
  BY DEF IInv, TypeOK, EventsMatchJobs
<1>3. NoOrphanInterest'
  BY DEF IInv, TypeOK, NoOrphanInterest
<1>4. NoLostRegistration'
  BY MaxNotifyAssumption DEF IInv, TypeOK, EventsMatchJobs,
     NoOrphanInterest, NoLostRegistration, OnlyOpen, Phases
<1>5. OnlyOpen'
  BY DEF IInv, TypeOK, EventsMatchJobs, OnlyOpen
<1>6. Phases'
  BY MaxNotifyAssumption DEF IInv, TypeOK, EventsMatchJobs,
     NoOrphanInterest, NoLostRegistration, OnlyOpen, Phases
<1> QED
  BY <1>1, <1>2, <1>3, <1>4, <1>5, <1>6 DEF IInv

\* The kernel closes only descriptors without jobs.
LEMMA KernelIInv == IInv /\ Kernel => IInv'
<1> SUFFICES ASSUME IInv, Kernel PROVE IInv'
  OBVIOUS
<1> USE DEF IInv, TypeOK, EventsMatchJobs, NoOrphanInterest,
            NoLostRegistration, OnlyOpen, Phases, api, poll, loop, tbl
<1>1. ASSUME NEW fd \in Fd, OpenFd(fd) PROVE IInv'
  BY <1>1 DEF OpenFd
<1>2. ASSUME NEW fd \in Fd, CloseFd(fd) PROVE IInv'
  BY <1>2 DEF CloseFd
<1>3. ASSUME NEW fd \in Fd, NEW op \in Op, BecomeReady(fd, op) PROVE IInv'
  BY <1>3 DEF BecomeReady
<1>4. ASSUME NEW fd \in Fd, NEW op \in Op, Drain(fd, op) PROVE IInv'
  BY <1>4 DEF Drain
<1> QED
  BY <1>1, <1>2, <1>3, <1>4 DEF Kernel

\* The inductive invariant holds throughout: initially, and over every step of
\* the API, the loop, the jobs and the kernel.
THEOREM Invariance == Spec => []IInv
<1>1. Init => IInv
  <2> SUFFICES ASSUME Init PROVE IInv
    OBVIOUS
  <2>1. TypeOK
    BY DEF Init, TypeOK, NoEvent
  <2>2. EventsMatchJobs
    BY DEF Init, EventsMatchJobs
  <2>3. NoOrphanInterest /\ NoLostRegistration
    BY DEF Init, NoOrphanInterest, NoLostRegistration
  <2>4. OnlyOpen /\ Phases
    BY DEF Init, OnlyOpen, Phases
  <2> QED
    BY <2>1, <2>2, <2>3, <2>4 DEF IInv
<1>2. IInv /\ [Next]_vars => IInv'
  <2> SUFFICES ASSUME IInv, [Next]_vars PROVE IInv'
    OBVIOUS
  <2>1. CASE Api
    BY <2>1, io_service_post_jobIInv, io_service_remove_jobIInv,
       io_service_stopIInv DEF Api
  <2>2. CASE Run
    BY <2>2, RunIInv
  <2>3. CASE Loop
    BY <2>3, LeaveIInv, NotifiedIInv, FetchIInv, DispatchIInv DEF Loop
  <2>4. CASE \E fd \in Fd : JobReturns(fd)
    BY <2>4, JobReturnsIInv
  <2>5. CASE Kernel
    BY <2>5, KernelIInv
  <2>6. CASE UNCHANGED vars
    BY <2>6 DEF vars, IInv, TypeOK, EventsMatchJobs, NoOrphanInterest,
                NoLostRegistration, OnlyOpen, Phases
  <2> QED
    BY <2>1, <2>2, <2>3, <2>4, <2>5, <2>6 DEF Next
<1> QED
  BY <1>1, <1>2, PTL DEF Spec

\* Whatever clients post, remove, close and reopen, before run or from within
\* jobs, no registration is lost by the loop of io-service.c.
THEOREM RegistrationSafe == Spec => []NoLostRegistration
<1>1. IInv => NoLostRegistration
  BY DEF IInv
<1> QED
  BY <1>1, Invariance, PTL

\* The epoll set of io-service.c never outlives the lookup table's elements.
THEOREM InterestSafe == Spec => []NoOrphanInterest
<1>1. IInv => NoOrphanInterest
  BY DEF IInv
<1> QED
  BY <1>1, Invariance, PTL

\* The event mask io-service.c keeps for a descriptor always names exactly the
\* operations that have a job, so the purge in run drops no job.
THEOREM EventsSafe == Spec => []EventsMatchJobs
<1>1. IInv => EventsMatchJobs
  BY DEF IInv
<1> QED
  BY <1>1, Invariance, PTL

-----------------------------------------------------------------------------
(* Refinement of JobRegistry.                                              *)

\* Each step of the detailed loop is a step of the registry or a stutter.
LEMMA StepRefines ==
    ASSUME IInv, [Next]_vars
    PROVE  [Registry!RegNext]_Registry!regVars
<1>1. ASSUME NEW fd \in Fd, NEW op \in Op, NEW one \in BOOLEAN,
             io_service_post_job(fd, op, one)
      PROVE  Registry!Register(<<fd, op>>, one)
  BY <1>1 DEF IInv, TypeOK, io_service_post_job, Registry!Register, loop
<1>2. ASSUME NEW fd \in Fd, NEW op \in Op, io_service_remove_job(fd, op)
      PROVE  Registry!Unregister(<<fd, op>>)
  BY <1>2 DEF IInv, TypeOK, io_service_remove_job, Registry!Unregister, loop
<1>3. ASSUME NEW w \in BOOLEAN, io_service_stop(w)
      PROVE  Registry!Close
  BY <1>3 DEF io_service_stop, Registry!Close, loop, tbl
<1>4. ASSUME NEW fd \in Fd, NEW op \in Op, Dispatch(fd, op), op \in job[fd]
      PROVE  Registry!Call(<<fd, op>>)
  BY <1>4 DEF IInv, TypeOK, EventsMatchJobs, Dispatch, Registry!Call, tbl, api
<1>5. ASSUME NEW fd \in Fd, NEW op \in Op, Dispatch(fd, op), op \notin job[fd]
      PROVE  UNCHANGED Registry!regVars
  BY <1>5 DEF IInv, TypeOK, EventsMatchJobs, Dispatch, Resume,
              Registry!regVars, tbl, api
<1>6. ASSUME NEW fd \in Fd, JobReturns(fd)
      PROVE  Registry!Return
  BY <1>6 DEF JobReturns, Resume, Registry!Return, tbl, api
<1>7. CASE Notified
  BY <1>7 DEF IInv, TypeOK, EventsMatchJobs, Notified, Registry!regVars, loop
<1>8. CASE Run \/ Leave \/ \E fd \in Fd : Fetch(fd)
  BY <1>8 DEF Run, Leave, Fetch, Registry!regVars, tbl, api, cur
<1>9. CASE Kernel
  BY <1>9 DEF Kernel, OpenFd, CloseFd, BecomeReady, Drain,
              Registry!regVars, tbl, api, loop
<1>10. CASE UNCHANGED vars
  BY <1>10 DEF vars, Registry!regVars
<1>11. CASE Api
  BY <1>1, <1>2, <1>3, <1>11 DEF Api, Registry!RegNext, Registry!Slots
<1>12. CASE Loop
  BY <1>4, <1>5, <1>7, <1>8, <1>12 DEF Loop, Registry!RegNext, Registry!Slots
<1>13. CASE \E fd \in Fd : JobReturns(fd)
  BY <1>6, <1>13 DEF Registry!RegNext
<1> QED
  BY <1>8, <1>9, <1>10, <1>11, <1>12, <1>13 DEF Next

\* The event loop of io-service.c implements the registry of jobs: jobs run
\* only while registered, one-shot jobs once per post, none is taken after stop.
THEOREM Refinement == Spec => KeepsRegistry
<1>1. Init => Registry!RegInit
  BY DEF Init, Registry!RegInit
<1>2. IInv /\ [Next]_vars => [Registry!RegNext]_Registry!regVars
  BY StepRefines
<1> QED
  BY <1>1, <1>2, Invariance, PTL DEF Spec, KeepsRegistry, Registry!RegSpec
=============================================================================
