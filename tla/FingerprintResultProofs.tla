----------------------- MODULE FingerprintResultProofs -----------------------
(* What the framework is told and what is kept on disk: the results of the *)
(* operations, the slot of a new template, the gallery and the ids of      *)
(* FingerprintHAL, for every number of clients, threads and groups.        *)
EXTENDS FingerprintHALProofs

-----------------------------------------------------------------------------
(* What a step of one thread leaves to the others. *)

\* A worker thread changes no client, no other worker and no flag of the
\* device but its own worker_active; its request stays what it was.
LEMMA WorkerEffect ==
    ASSUME TypeOK, NEW w \in Workers, WorkerStep(w) \/ Clock(w)
    PROVE  /\ UNCHANGED <<clientVars, deviceVars, callVars, cancel_requested, handle,
                          worker_joinable>>
           /\ \A v \in Workers \ {w} : wpc'[v] = wpc[v] /\ job'[v] = job[v]
           /\ job'[w].op = job[w].op /\ job'[w].gid = job[w].gid
           /\ job'[w].operation_id = job[w].operation_id
           /\ Running(w)
<1>0. job[w] \in Job /\ job \in [Workers -> Job]
      /\ wpc \in [Workers -> {"free", "exited"} \cup RunningLabels]
  BY DEF TypeOK, WorkerTypeOK
<1>1. UNCHANGED <<clientVars, deviceVars, callVars, cancel_requested, handle, worker_joinable>>
  BY DEF WorkerStep, enroll_worker, authenticate_worker, notify_message,
         Clock, DeadlinePasses, ClockSetBack,
         EnrollLoop, EnrollScan, EnrollFid, EnrollSave, EnrollCommit, EnrollPost,
         AuthenticateLoop, AuthenticateScan, AuthenticateMatch, NotifyGood, finish_worker,
         OnlyWorker, threadVars
<1>2. Running(w)
  BY <1>0 DEF WorkerStep, enroll_worker, authenticate_worker, notify_message,
         Clock, DeadlinePasses, ClockSetBack,
         EnrollLoop, EnrollScan, EnrollFid, EnrollSave, EnrollCommit, EnrollPost,
         AuthenticateLoop, AuthenticateScan, AuthenticateMatch, NotifyGood, finish_worker,
         At, Running, RunningLabels
<1>3. \A v \in Workers \ {w} : wpc'[v] = wpc[v] /\ job'[v] = job[v]
  BY <1>0 DEF WorkerStep, enroll_worker, authenticate_worker, notify_message,
         Clock, DeadlinePasses, ClockSetBack,
         EnrollLoop, EnrollScan, EnrollFid, EnrollSave, EnrollCommit, EnrollPost,
         AuthenticateLoop, AuthenticateScan, AuthenticateMatch, NotifyGood, finish_worker,
         Goto, Send
<1>4. /\ job'[w].op = job[w].op /\ job'[w].gid = job[w].gid
      /\ job'[w].operation_id = job[w].operation_id
  <2>1. ASSUME NEW l, Goto(w, l)
        PROVE  job'[w] = job[w]
    BY <2>1 DEF Goto
  <2>2. ASSUME NEW m, NEW l, Send(w, m, l)
        PROVE  /\ job'[w].op = job[w].op /\ job'[w].gid = job[w].gid
               /\ job'[w].operation_id = job[w].operation_id
    <3>1. job'[w] = [job[w] EXCEPT !.msg = m, !.next = l]
      BY <1>0, <2>2 DEF Send
    <3> QED BY <1>0, <3>1 DEF Job
  <2>3. CASE notify_message(w)
    <3>1. job'[w] = [job[w] EXCEPT !.told = @ \/ (notify /\ Terminal(job[w].msg))]
      BY <1>0, <2>3 DEF notify_message
    <3> QED BY <1>0, <3>1 DEF Job
  <2>4. CASE EnrollScan(w)
    <3>1. ASSUME NEW n, NEW m, job' = [job EXCEPT ![w].remaining = n, ![w].next = "loop",
                                                  ![w].msg = m]
          PROVE  /\ job'[w].op = job[w].op /\ job'[w].gid = job[w].gid
                 /\ job'[w].operation_id = job[w].operation_id
      <4>1. job'[w] = [job[w] EXCEPT !.remaining = n, !.next = "loop", !.msg = m]
        BY <1>0, <3>1
      <4> QED BY <1>0, <4>1 DEF Job
    <3> QED BY <2>1, <2>2, <2>4, <3>1 DEF EnrollScan
  <2>5. CASE EnrollFid(w)
    <3>1. ASSUME NEW f, job' = [job EXCEPT ![w].fid = f]
          PROVE  /\ job'[w].op = job[w].op /\ job'[w].gid = job[w].gid
                 /\ job'[w].operation_id = job[w].operation_id
      <4>1. job'[w] = [job[w] EXCEPT !.fid = f]
        BY <1>0, <3>1
      <4> QED BY <1>0, <4>1 DEF Job
    <3> QED BY <2>2, <2>5, <3>1 DEF EnrollFid
  <2>6. CASE AuthenticateScan(w)
    <3>1. ASSUME NEW i, NEW f, job' = [job EXCEPT ![w].index = i, ![w].fid = f]
          PROVE  /\ job'[w].op = job[w].op /\ job'[w].gid = job[w].gid
                 /\ job'[w].operation_id = job[w].operation_id
      <4>1. job'[w] = [job[w] EXCEPT !.index = i, !.fid = f]
        BY <1>0, <3>1
      <4> QED BY <1>0, <4>1 DEF Job
    <3> QED BY <2>1, <2>2, <2>6, <3>1 DEF AuthenticateScan
  <2>7. CASE AuthenticateMatch(w)
    <3>1. PICK m : job'[w] = [job[w] EXCEPT !.msg = m, !.next = "done"]
      BY <1>0, <2>7 DEF AuthenticateMatch
    <3> QED BY <1>0, <3>1 DEF Job
  <2>8. CASE EnrollLoop(w) \/ EnrollSave(w) \/ EnrollCommit(w) \/ EnrollPost(w)
             \/ AuthenticateLoop(w) \/ NotifyGood(w) \/ finish_worker(w)
    BY <2>1, <2>2, <2>8 DEF EnrollLoop, EnrollSave, EnrollCommit, EnrollPost, AuthenticateLoop,
       NotifyGood, finish_worker
  <2> QED BY <2>3, <2>4, <2>5, <2>6, <2>7, <2>8, ClockEffect
          DEF WorkerStep, enroll_worker, authenticate_worker
<1> QED BY <1>1, <1>2, <1>3, <1>4

\* The thread that enroll() or authenticate() may start serves that very call.
JobOf(r) ==
    IF r.op = "enroll" THEN [NoJob EXCEPT !.op = "enroll", !.gid = r.gid, !.remaining = Stages]
    ELSE [NoJob EXCEPT !.op = "authenticate", !.gid = r.gid, !.operation_id = r.operation_id]

Starts(c) ==
    /\ pc[c] = "body" /\ req[c].op \in {"enroll", "authenticate"} /\ ~Busy
    /\ start_worker(JobOf(req[c])) /\ Return(c)
    /\ UNCHANGED <<deviceVars, groupVars, diskVars>>
    /\ req[c].op = "enroll" => EnrollAllowed(req[c]) /\ secure_user_id' = req[c].user
    /\ req[c].op = "authenticate" =>
         AuthenticateAllowed(req[c]) /\ operation_id' = req[c].operation_id

\* What a client's step does to the threads: nothing, or it takes over a
\* handle, joins, stops or starts a worker.
LEMMA ClientEffect ==
    ASSUME TypeOK, NEW c \in Clients, ClientStep(c) \/ NewCall(c), ~fingerprint_close(c)
    PROVE  /\ \A d \in Clients \ {c} :
                pc'[d] = pc[d] /\ joins'[d] = joins[d] /\ req'[d] = req[d]
           /\ UNCHANGED opened /\ (notify => notify')
           /\ pc[c] = "idle" /\ pc'[c] # "idle" => notify
           /\ \/ /\ UNCHANGED <<worker_active, cancel_requested, handle, workerVars>>
                 /\ pc[c] \notin {"stop", "stop_finished"} /\ (worker_joinable' => worker_joinable)
              \/ Join(c) /\ UNCHANGED threadVars
              \/ stop_worker(c) /\ worker_joinable
              \/ Starts(c)
<1>0. ClientTypeOK
  BY DEF TypeOK
<1>1. CASE Call(c)
  <2>1. PICK r \in Request :
             MayCall(c, r.op) /\ reap_finished_worker(c) /\ req' = [req EXCEPT ![c] = r]
    BY <1>1 DEF Call
  <2>2. UNCHANGED <<deviceVars, worker_active, cancel_requested, handle, workerVars>>
    BY <1>1 DEF Call
  <2> QED BY <1>0, <2>1, <2>2 DEF MayCall, reap_finished_worker, ClientTypeOK, deviceVars
<1>2. CASE ReapJoined(c) \/ StopJoined(c)
  BY <1>0, <1>2 DEF ReapJoined, StopJoined, Join, ClientTypeOK, deviceVars
<1>3. CASE NotifyCanceled(c) \/ Report(c) \/ fingerprint_enumerate(c)
  BY <1>0, <1>3 DEF NotifyCanceled, Report, fingerprint_enumerate, Refuse, Return, ToReport,
                    ClientTypeOK, deviceVars, threadVars
<1>4. CASE stop_worker(c)
  BY <1>0, <1>4 DEF stop_worker, Return, ClientTypeOK, deviceVars, threadVars
<1>5. CASE fingerprint_enroll(c) \/ fingerprint_authenticate(c)
  <2>1. CASE Refuse(c)
    BY <1>0, <1>5, <2>1 DEF fingerprint_enroll, fingerprint_authenticate, Refuse, Return,
                            ClientTypeOK, deviceVars, threadVars
  <2>2. CASE ~Refuse(c)
    <3>1. Starts(c)
      BY <1>5, <2>2 DEF fingerprint_enroll, fingerprint_authenticate, Starts, JobOf
    <3> QED BY <1>0, <3>1 DEF Starts, Return, ClientTypeOK, deviceVars
  <2> QED BY <2>1, <2>2
<1>6. CASE fingerprint_remove(c)
  <2>1. Return(c) \/ \E gone : ToReport(c, gone)
    BY <1>6 DEF fingerprint_remove, Refuse
  <2>2. UNCHANGED <<deviceVars, threadVars, workerVars>> /\ pc[c] = "body"
    BY <1>6 DEF fingerprint_remove, Refuse
  <2> QED BY <1>0, <2>1, <2>2 DEF Return, ToReport, ClientTypeOK, deviceVars, threadVars
<1>7. CASE fingerprint_set_active_group(c)
  <2>1. UNCHANGED <<deviceVars, threadVars, workerVars>> /\ pc[c] = "body" /\ Return(c)
    BY <1>7 DEF fingerprint_set_active_group, Refuse
  <2> QED BY <1>0, <2>1 DEF Return, ClientTypeOK, deviceVars, threadVars
<1>8. CASE fingerprint_pre_enroll(c) \/ fingerprint_post_enroll(c) \/ fingerprint_set_notify(c)
  BY <1>8 DEF fingerprint_pre_enroll, fingerprint_post_enroll, fingerprint_set_notify, MayCall,
              deviceVars, threadVars, clientVars
<1> QED BY <1>1, <1>2, <1>3, <1>4, <1>5, <1>6, <1>7, <1>8 DEF ClientStep, NewCall

\* Opening, closing and losing the device leave no thread and no call behind.
Resets == fingerprint_open \/ Crash \/ \E c \in Clients : fingerprint_close(c)

LEMMA ResetEffect ==
    ASSUME TypeOK, ThreadInv, Resets
    PROVE  /\ FreshMemory
           /\ \A w \in Workers : wpc'[w] = "free"
           /\ \A c \in Clients : pc'[c] = "idle" /\ req'[c].op = "none"
<1>1. FreshMemory
  BY DEF Resets, fingerprint_open, Crash, fingerprint_close
<1>2. CASE Crash
  BY <1>1, <1>2 DEF Crash, NoRequest
<1>3. CASE fingerprint_open
  BY <1>1, <1>3, QuietDevice DEF fingerprint_open, ThreadInv, CallProtocol, clientVars, workerVars
<1>4. CASE \E c \in Clients : fingerprint_close(c)
  <2>1. PICK c \in Clients : fingerprint_close(c)
    BY <1>4
  <2>2. \A w \in Workers : wpc[w] = "free"
    BY <2>1, QuietDevice DEF fingerprint_close
  <2>3. \A d \in Clients \ {c} : pc[d] = "idle" /\ req[d].op = "none"
    BY <2>1 DEF fingerprint_close, ThreadInv, CallProtocol
  <2> QED BY <1>1, <2>1, <2>2, <2>3
          DEF fingerprint_close, Return, NoRequest, workerVars, TypeOK, ClientTypeOK
<1> QED BY <1>2, <1>3, <1>4 DEF Resets

\* The steps of the system, told apart by what they do to the threads.
LEMMA StepCases ==
    ASSUME [Next]_vars
    PROVE  \/ Resets
           \/ \E c \in Clients : (ClientStep(c) \/ NewCall(c)) /\ ~fingerprint_close(c)
           \/ \E w \in Workers : WorkerStep(w) \/ Clock(w)
           \/ UNCHANGED vars
BY DEF Next, Resets
-----------------------------------------------------------------------------
(* No operation ends in silence. *)

\* A client in cancel() or close() has told worker w to stop and waits for it.
Stopping(w) ==
    \E c \in Clients : joins[c] = w /\ pc[c] = "stop" /\ req[c].op \in {"cancel", "close"}

\* cancel_requested is meant for the worker that runs, and whoever set it waits
\* for that worker.
CancelHeard ==
    /\ worker_joinable /\ worker_active => Running(handle)
    /\ \A w \in Workers : Running(w) /\ cancel_requested => Stopping(w)

\* The callback is there as long as anybody is inside the HAL.
NotifyInPlace ==
    /\ \A c \in Clients : pc[c] # "idle" => notify
    /\ \A w \in Workers : wpc[w] # "free" => notify

\* A worker leaves its loop because it was cancelled, because its deadline has
\* passed, or with a message that ends the operation; between the loop and the
\* test that follows it a deadline that has passed is forgotten only when the
\* clock is set back.
EndsTold(w) ==
    /\ wpc[w] \in {"good", "notify"} /\ job[w].next # "loop" => Terminal(job[w].msg)
    /\ wpc[w] = "good" => job[w].next = "done"
    /\ wpc[w] = "post" => \/ job[w].told \/ Stopping(w)
                           \/ job[w].expired \/ job[w].setback
    /\ wpc[w] \in {"done", "exited"} => job[w].told \/ job[w].setback \/ Stopping(w)

EndInv == CancelHeard /\ NotifyInPlace /\ \A w \in Workers : EndsTold(w)

\* A waiting client goes on waiting until its worker is joined.
LEMMA StoppingStays ==
    ASSUME TypeOK, ThreadInv, NEW c \in Clients, ClientStep(c) \/ NewCall(c),
           ~fingerprint_close(c), NEW w \in Workers, Stopping(w), wpc'[w] # "free"
    PROVE  Stopping(w)'
<1>1. PICK d \in Clients : joins[d] = w /\ pc[d] = "stop" /\ req[d].op \in {"cancel", "close"}
  BY DEF Stopping
<1>2. CASE d # c
  BY <1>1, <1>2, ClientEffect DEF Stopping
<1>3. CASE d = c
  <2>1. CASE Join(c)
    BY <1>1, <1>3, <2>1 DEF Join, TypeOK, WorkerTypeOK
  <2>2. CASE ~Join(c)
    BY <1>1, <1>3, <2>2, ClientEffect DEF stop_worker, Starts
  <2> QED BY <2>1, <2>2
<1> QED BY <1>2, <1>3

LEMMA EndInit == Init => EndInv
BY DEF Init, EndInv, CancelHeard, NotifyInPlace, EndsTold, Running, RunningLabels

LEMMA EndReset == ASSUME TypeOK, ThreadInv, Resets PROVE EndInv'
<1>1. /\ worker_active' = FALSE /\ \A w \in Workers : wpc'[w] = "free"
      /\ \A c \in Clients : pc'[c] = "idle"
  BY ResetEffect DEF FreshMemory
<1> QED BY <1>1 DEF EndInv, CancelHeard, NotifyInPlace, EndsTold, Running, RunningLabels

LEMMA EndClient ==
    ASSUME TypeOK, ThreadInv, EndInv, NEW c \in Clients, ClientStep(c) \/ NewCall(c),
           ~fingerprint_close(c)
    PROVE  EndInv'
<1>0. /\ wpc \in [Workers -> {"free", "exited"} \cup RunningLabels] /\ job \in [Workers -> Job]
      /\ pc \in [Clients -> {"idle", "body", "canceled", "report", "closing"} \cup JoinLabels]
      /\ joins \in [Clients -> Workers \cup {NoWorker}]
  BY DEF TypeOK, WorkerTypeOK, ClientTypeOK
<1>1. \A w \in Workers : wpc'[w] \notin {"free", "loop"} => wpc'[w] = wpc[w] /\ job'[w] = job[w]
  BY ClientLeavesWorkers
<1>2. \A w \in Workers : EndsTold(w)'
  BY <1>1, StoppingStays DEF EndInv, EndsTold
<1>3. NotifyInPlace'
  <2>1. notify => notify'
    BY ClientEffect
  <2>2. \A d \in Clients : pc'[d] # "idle" => notify'
    BY <2>1, ClientEffect DEF EndInv, NotifyInPlace
  <2>3. ASSUME NEW w \in Workers, wpc'[w] # "free" PROVE notify'
    <3>1. wpc[w] # "free" \/ Starts(c)
      BY <1>0, <2>3, ClientEffect DEF workerVars, Join, stop_worker
    <3> QED BY <2>1, <3>1 DEF EndInv, NotifyInPlace, Starts
  <2> QED BY <2>2, <2>3 DEF NotifyInPlace
<1>4. CancelHeard'
  <2>1. CASE Starts(c)
    <3>1. \A w \in Workers : ~Running(w)
      BY <2>1 DEF Starts, Busy, ThreadInv, OneSensorUser
    <3>2. /\ cancel_requested' = FALSE
          /\ worker_active' => handle' \in Workers /\ wpc'[handle'] = "loop"
      BY <1>0, <2>1 DEF Starts, start_worker
    <3> QED BY <3>2 DEF CancelHeard, Running, RunningLabels
  <2>2. CASE stop_worker(c) /\ worker_joinable
    <3>1. /\ worker_joinable' = FALSE /\ cancel_requested' = (cancel_requested \/ worker_active)
          /\ joins'[c] = handle /\ (worker_active => pc'[c] = "stop") /\ UNCHANGED wpc
          /\ req'[c].op \in {"cancel", "close"}
      BY <1>0, <2>2 DEF stop_worker, RequestCancel, workerVars
    <3>2. ASSUME NEW w \in Workers, Running(w)' PROVE Stopping(w)'
      <4>1. worker_active /\ Running(w)
        BY <3>1, <3>2 DEF ThreadInv, OneSensorUser, Running
      <4>2. w = handle
        BY <2>2, <4>1 DEF EndInv, CancelHeard, ThreadInv, OneSensorUser, JoinOwnership
      <4> QED BY <3>1, <4>1, <4>2 DEF Stopping
    <3> QED BY <3>1, <3>2 DEF CancelHeard
  <2>3. CASE /\ UNCHANGED <<worker_active, cancel_requested, handle>>
             /\ (worker_joinable' => worker_joinable)
             /\ \A w \in Workers : Running(w)' <=> Running(w)
    <3>1. \A w \in Workers : Running(w)' /\ Stopping(w) => Stopping(w)'
      BY StoppingStays DEF Running, RunningLabels
    <3>2. worker_joinable => handle \in Workers
      BY DEF ThreadInv, JoinOwnership
    <3> QED BY <2>3, <3>1, <3>2 DEF EndInv, CancelHeard
  <2>4. Join(c) => \A w \in Workers : Running(w)' <=> Running(w)
    BY <1>0 DEF Join, Running, RunningLabels
  <2>5. UNCHANGED workerVars => \A w \in Workers : Running(w)' <=> Running(w)
    BY DEF workerVars, Running
  <2> QED BY <2>1, <2>2, <2>3, <2>4, <2>5, ClientEffect DEF threadVars
<1> QED BY <1>2, <1>3, <1>4 DEF EndInv
\* What a worker's labels and job become when it goes on or queues a message.
LEMMA GotoEffect ==
    ASSUME TypeOK, NEW w \in Workers, NEW l, Goto(w, l)
    PROVE  wpc'[w] = l /\ job'[w] = job[w]
BY DEF Goto, TypeOK, WorkerTypeOK

LEMMA SendEffect ==
    ASSUME TypeOK, NEW w \in Workers, NEW m, NEW l, Send(w, m, l)
    PROVE  /\ wpc'[w] = "notify" /\ job'[w].msg = m /\ job'[w].next = l
           /\ job'[w].fid = job[w].fid /\ job'[w].told = job[w].told
           /\ job'[w].remaining = job[w].remaining
<1>1. job'[w] = [job[w] EXCEPT !.msg = m, !.next = l] /\ job[w] \in Job
  BY DEF Send, TypeOK, WorkerTypeOK
<1> QED BY <1>1 DEF Send, TypeOK, WorkerTypeOK, Job

LEMMA EndWorker ==
    ASSUME TypeOK, MatchInBounds, ThreadInv, EndInv, NEW w \in Workers,
           WorkerStep(w) \/ Clock(w)
    PROVE  EndInv'
<1>0. /\ wpc \in [Workers -> {"free", "exited"} \cup RunningLabels] /\ job \in [Workers -> Job]
      /\ job[w] \in Job
  BY DEF TypeOK, WorkerTypeOK
<1>1. /\ UNCHANGED <<pc, req, joins, notify, cancel_requested, handle, worker_joinable>>
      /\ \A v \in Workers \ {w} : wpc'[v] = wpc[v] /\ job'[v] = job[v]
      /\ Running(w)
  BY WorkerEffect DEF clientVars, deviceVars
<1>2. \A v \in Workers : Stopping(v)' <=> Stopping(v)
  BY <1>1 DEF Stopping
<1>3. \A v \in Workers : Running(v)' => Running(v)
  BY <1>1 DEF Running
<1>4. NotifyInPlace'
  BY <1>1 DEF EndInv, NotifyInPlace, Running, RunningLabels
<1>5. CancelHeard'
  <2>1. worker_joinable' /\ worker_active' => Running(handle)'
    <3>1. CASE finish_worker(w)
      BY <3>1 DEF finish_worker
    <3>2. CASE ~finish_worker(w)
      <4>1. ThreadInv'
        BY WorkerStepKeeps
      <4>2. worker_active' = worker_active
        BY <3>2 DEF WorkerStep, enroll_worker, authenticate_worker, notify_message,
              Clock, DeadlinePasses, ClockSetBack,
              EnrollLoop, EnrollScan, EnrollFid, EnrollSave, EnrollCommit,
              EnrollPost, AuthenticateLoop, AuthenticateScan, AuthenticateMatch, NotifyGood,
              OnlyWorker, threadVars
      <4>3. worker_joinable /\ worker_active => handle = w
        BY <1>1 DEF EndInv, CancelHeard, ThreadInv, OneSensorUser, JoinOwnership
      <4>4. worker_active' => Running(w)'
        BY <1>1, <1>3, <4>1 DEF ThreadInv, OneSensorUser
      <4> QED BY <1>1, <4>2, <4>3, <4>4
    <3> QED BY <3>1, <3>2
  <2> QED BY <1>1, <1>2, <1>3, <2>1 DEF EndInv, CancelHeard
<1>6. \A v \in Workers \ {w} : EndsTold(v)'
  BY <1>1, <1>2 DEF EndInv, EndsTold
<1>7. EndsTold(w)'
  <2>1. cancel_requested => Stopping(w)'
    BY <1>1, <1>2 DEF EndInv, CancelHeard
  <2>2. ASSUME NEW code, Send(w, Error(code), "post") \/ Send(w, Error(code), "done")
        PROVE  EndsTold(w)'
    BY <2>2, SendEffect DEF EndsTold, Terminal, Error
  <2>3. ASSUME NEW m, Send(w, m, "loop") PROVE EndsTold(w)'
    BY <2>3, SendEffect DEF EndsTold
  <2>4. ASSUME NEW l \in {"loop", "scan", "fid", "commit"}, Goto(w, l) PROVE EndsTold(w)'
    BY <2>4, GotoEffect DEF EndsTold
  <2>5. ASSUME cancel_requested, Goto(w, "done") PROVE EndsTold(w)'
    BY <2>1, <2>5, GotoEffect DEF EndsTold
  <2>6. CASE Clock(w)
    BY <1>2, <2>6, ClockEffect DEF EndInv, EndsTold, Terminal
  <2>7. CASE notify_message(w)
    <3>1. /\ wpc'[w] = job[w].next /\ wpc[w] = "notify"
          /\ job'[w] = [job[w] EXCEPT !.told = @ \/ (notify /\ Terminal(job[w].msg))]
      BY <1>0, <2>7 DEF notify_message
    <3>2. job'[w].told = (job[w].told \/ (notify /\ Terminal(job[w].msg)))
      BY <1>0, <3>1 DEF Job
    <3>3. job[w].next \in {"loop", "post", "done"} /\ notify
      BY <1>0, <3>1 DEF Job, EndInv, NotifyInPlace
    <3>4. job[w].next # "loop" => Terminal(job[w].msg)
      BY <3>1 DEF EndInv, EndsTold
    <3> QED BY <3>1, <3>2, <3>3, <3>4 DEF EndsTold
  <2>8. CASE EnrollLoop(w)
    <3>1. CASE cancel_requested \/ ~job[w].expired
      BY <2>4, <2>5, <2>8, <3>1 DEF EnrollLoop
    <3>2. CASE ~cancel_requested /\ job[w].expired
      BY <2>8, <3>2, GotoEffect DEF EnrollLoop, EndsTold
    <3> QED BY <3>1, <3>2
  <2>9. CASE EnrollScan(w)
    <3>1. ASSUME NEW n, NEW m,
                 wpc' = [wpc EXCEPT ![w] = "notify"],
                 job' = [job EXCEPT ![w].remaining = n, ![w].next = "loop", ![w].msg = m]
          PROVE  EndsTold(w)'
      <4>1. job'[w] = [job[w] EXCEPT !.remaining = n, !.next = "loop", !.msg = m]
        BY <1>0, <3>1
      <4>2. job'[w].next = "loop" /\ wpc'[w] = "notify"
        BY <1>0, <3>1, <4>1 DEF Job
      <4> QED BY <4>2 DEF EndsTold
    <3> QED BY <2>2, <2>3, <2>4, <2>5, <2>9, <3>1 DEF EnrollScan
  <2>10. CASE EnrollFid(w)
    <3>1. CASE wpc' = [wpc EXCEPT ![w] = "save"]
      BY <1>0, <3>1 DEF EndsTold
    <3> QED BY <2>2, <2>10, <3>1 DEF EnrollFid
  <2>11. CASE EnrollSave(w)
    BY <2>2, <2>4, <2>11 DEF EnrollSave
  <2>12. CASE EnrollCommit(w)
    <3>1. Send(w, Enrolling(active_gid, job[w].fid, 0), "done")
      BY <2>12 DEF EnrollCommit
    <3> QED BY <3>1, SendEffect DEF EndsTold, Terminal, Enrolling
  <2>13. CASE EnrollPost(w)
    <3>1. CASE ~cancel_requested /\ job[w].expired
      BY <2>2, <2>13, <3>1 DEF EnrollPost
    <3>2. CASE ~(~cancel_requested /\ job[w].expired)
      <4>1. Goto(w, "done") /\ (job[w].told \/ job[w].expired \/ job[w].setback \/ Stopping(w))
        BY <2>13, <3>2 DEF EnrollPost, At, EndInv, EndsTold
      <4> QED BY <1>2, <2>1, <3>2, <4>1, GotoEffect DEF EndsTold
    <3> QED BY <3>1, <3>2
  <2>14. CASE AuthenticateLoop(w)
    BY <2>4, <2>5, <2>14 DEF AuthenticateLoop
  <2>15. CASE AuthenticateScan(w)
    <3>1. CASE wpc' = [wpc EXCEPT ![w] = "match"]
      BY <1>0, <3>1 DEF EndsTold
    <3> QED BY <2>2, <2>3, <2>5, <2>15, <3>1 DEF AuthenticateScan
  <2>16. CASE AuthenticateMatch(w)
    <3> DEFINE f == templates[job[w].index]
               m == Authenticated(active_gid, f, operation_id, secure_user_id, authenticator_id)
    <3>1. f # 0
      <4>1. job[w].index \in DOMAIN templates
        BY <2>16 DEF AuthenticateMatch, At, MatchInBounds
      <4>2. f \in Fid
        BY <4>1 DEF TypeOK, GroupTypeOK
      <4> QED BY <4>2 DEF Fid
    <3>2. job'[w] = [job[w] EXCEPT !.msg = m, !.next = "done"] /\ wpc'[w] = "good"
      BY <1>0, <2>16 DEF AuthenticateMatch
    <3>3. Terminal(m)
      BY <3>1 DEF Terminal, Authenticated
    <3> HIDE DEF m, f
    <3>4. job'[w].msg = m /\ job'[w].next = "done"
      BY <1>0, <3>2 DEF Job
    <3> QED BY <3>2, <3>3, <3>4 DEF EndsTold
  <2>17. CASE NotifyGood(w)
    BY <2>17, GotoEffect DEF NotifyGood, EndInv, EndsTold
  <2>18. CASE finish_worker(w)
    BY <1>2, <2>18, GotoEffect DEF finish_worker, EndInv, EndsTold
  <2> QED BY <2>6, <2>7, <2>8, <2>9, <2>10, <2>11, <2>12, <2>13, <2>14, <2>15, <2>16, <2>17, <2>18
          DEF WorkerStep, enroll_worker, authenticate_worker
<1> QED BY <1>4, <1>5, <1>6, <1>7 DEF EndInv

LEMMA EndStep == TypeOK /\ ThreadInv /\ MatchInBounds /\ EndInv /\ [Next]_vars => EndInv'
<1> SUFFICES ASSUME TypeOK, ThreadInv, MatchInBounds, EndInv, [Next]_vars PROVE EndInv'
  OBVIOUS
<1>1. CASE UNCHANGED vars
  BY <1>1 DEF vars, EndInv, CancelHeard, NotifyInPlace, EndsTold, Stopping, Running, deviceVars,
              threadVars, clientVars, workerVars
<1> QED BY <1>1, StepCases, EndReset, EndClient, EndWorker

\* Whoever cancels, closes or races with them, and whatever fails: a worker
\* that ended without a result or an error to the callback was told to stop by
\* a cancel() that is still there to report it or by the close() of the device,
\* which reports nothing; or it is an enrolment whose wall clock was set back
\* between lines 334 and 410.
THEOREM NothingEndsInSilence == Spec => []NoSilentEnd
<1>1. Inv /\ EndInv /\ [Next]_vars => EndInv'
  BY EndStep DEF Inv
<1>2. EndInv => NoSilentEnd
  BY DEF EndInv, EndsTold, NoSilentEnd, Stopping
<1> QED BY <1>1, <1>2, EndInit, Inductive, PTL DEF Spec
-----------------------------------------------------------------------------
(* Results belong to their requests, and the slot of a template is kept. *)

\* The part of an enrolment in which the new template is not yet in the gallery.
Uncommitted(w) ==
    \/ wpc[w] \in {"loop", "scan", "fid", "save", "commit"}
    \/ wpc[w] = "notify" /\ job[w].next = "loop"

\* The message fits the request, whoever reads it.
Matches(j) ==
    /\ j.msg.type \in {"enrolling", "authenticated"} => j.msg.gid = j.gid
    /\ j.msg.type = "authenticated" /\ j.msg.fid # 0 =>
         j.msg.fid = j.fid /\ j.msg.challenge = j.operation_id

\* What the call that started worker w saw under the lock still holds.
Serves(w) ==
    /\ Running(w) =>
         /\ job[w].gid = active_gid
         /\ job[w].op = "authenticate" => job[w].operation_id = operation_id
    /\ wpc[w] \in {"fid", "save", "commit"} => job[w].op = "enroll"
    /\ wpc[w] = "match" => job[w].fid = templates[job[w].index]
    /\ wpc[w] = "save" => job[w].fid \notin Range(templates)
    /\ job[w].op = "enroll" /\ Uncommitted(w) =>
         Len(templates) < MaxTemplates /\ store_path = job[w].gid
    /\ wpc[w] \in {"good", "notify"} => Matches(job[w])

RequestInv ==
    /\ store_path # NoPath => store_path = active_gid
    /\ \A w \in Workers : Serves(w)

\* Only these steps touch the gallery, the ids or the disk.
LEMMA GroupFrame ==
    ASSUME [Next]_vars, ~Resets,
           \A c \in Clients : ~fingerprint_remove(c) /\ ~fingerprint_set_active_group(c),
           \A w \in Workers : ~EnrollSave(w) /\ ~EnrollCommit(w)
    PROVE  /\ UNCHANGED <<groupVars, diskVars, authenticator_id, drawn_for>>
           /\ UNCHANGED secure_user_id \/ \E c \in Clients : fingerprint_enroll(c)
<1>1. ASSUME NEW c \in Clients, ClientStep(c) \/ NewCall(c), ~fingerprint_close(c)
      PROVE  /\ UNCHANGED <<groupVars, diskVars, authenticator_id, drawn_for>>
             /\ UNCHANGED secure_user_id \/ fingerprint_enroll(c)
  <2>1. CASE fingerprint_enroll(c)
    BY <2>1 DEF fingerprint_enroll, Refuse, idVars
  <2>2. CASE ~fingerprint_enroll(c)
    BY <1>1, <2>2 DEF ClientStep, NewCall, ReapJoined, StopJoined, NotifyCanceled, Report,
        fingerprint_authenticate, stop_worker, fingerprint_enumerate, Call,
        fingerprint_pre_enroll, fingerprint_post_enroll, fingerprint_set_notify, Refuse, idVars
  <2> QED BY <2>1, <2>2
<1>2. ASSUME NEW w \in Workers, WorkerStep(w) \/ Clock(w)
      PROVE  UNCHANGED <<groupVars, diskVars, idVars>>
  BY <1>2 DEF WorkerStep, enroll_worker, authenticate_worker, notify_message, finish_worker,
      Clock, DeadlinePasses, ClockSetBack,
      EnrollLoop, EnrollScan, EnrollFid, EnrollPost, AuthenticateLoop,
      AuthenticateScan, AuthenticateMatch, NotifyGood, OnlyWorker
<1>3. CASE UNCHANGED vars
  BY <1>3 DEF vars, idVars
<1> QED BY <1>1, <1>2, <1>3, StepCases DEF idVars

LEMMA PathStep ==
    ASSUME TypeOK, ThreadInv, [Next]_vars, store_path # NoPath => store_path = active_gid
    PROVE  (store_path # NoPath => store_path = active_gid)'
<1>1. CASE Resets
  BY <1>1, ResetEffect DEF FreshMemory
<1>2. CASE \E c \in Clients : fingerprint_remove(c)
  BY <1>2 DEF fingerprint_remove, Refuse, groupVars
<1>3. CASE \E c \in Clients : fingerprint_set_active_group(c)
  BY <1>3 DEF fingerprint_set_active_group, Refuse, groupVars
<1>4. CASE \E w \in Workers : EnrollSave(w) \/ EnrollCommit(w)
  BY <1>4 DEF EnrollSave, EnrollCommit, groupVars
<1> QED BY <1>1, <1>2, <1>3, <1>4, GroupFrame DEF groupVars

\* A worker begins with the group, the operation and the slot of its call.
LEMMA StartServes ==
    ASSUME TypeOK, ThreadInv, RequestInv, NEW c \in Clients, Starts(c),
           NEW w \in Workers, Running(w)', ~Running(w)
    PROVE  Serves(w)'
<1> DEFINE j == JobOf(req[c])
<1>1. wpc'[w] = "loop" /\ job'[w] = j
  BY DEF Starts, start_worker, Running, workerVars, TypeOK, WorkerTypeOK
<1>2. req[c] \in Args /\ NoJob \in Job
  BY NoJobTyped DEF TypeOK, ClientTypeOK
<1>3. /\ j.op = req[c].op /\ j.gid = req[c].gid
      /\ req[c].op = "authenticate" => j.operation_id = req[c].operation_id
  BY <1>2 DEF JobOf, Starts, NoJob
<1>4. /\ req[c].gid = active_gid
      /\ req[c].op = "enroll" => store_path = active_gid /\ Len(templates) < MaxTemplates
  BY DEF Starts, EnrollAllowed, AuthenticateAllowed, RequestInv
<1> HIDE DEF j
<1> QED BY <1>1, <1>3, <1>4 DEF Serves, Uncommitted, Starts, groupVars

\* A worker that somebody else lets alone.
LEMMA StillServes ==
    ASSUME TypeOK, ThreadInv, RequestInv, [Next]_vars, NEW w \in Workers, Running(w), opened',
           wpc'[w] = wpc[w], job'[w] = job[w], ~EnrollCommit(w)
    PROVE  Serves(w)'
<1>1. UNCHANGED <<store_path, active_gid, operation_id, templates>>
  BY GalleryStep
<1> QED BY <1>1 DEF RequestInv, Serves, Uncommitted, Running
LEMMA WorkerServes ==
    ASSUME TypeOK, ThreadInv, EndInv, RequestInv, NEW w \in Workers,
           WorkerStep(w) \/ Clock(w), Running(w)'
    PROVE  Serves(w)'
<1>0. /\ wpc \in [Workers -> {"free", "exited"} \cup RunningLabels] /\ job \in [Workers -> Job]
      /\ job[w] \in Job
  BY DEF TypeOK, WorkerTypeOK
<1>1. /\ Running(w) /\ job'[w].op = job[w].op /\ job'[w].gid = job[w].gid
      /\ job'[w].operation_id = job[w].operation_id /\ UNCHANGED operation_id
  BY WorkerEffect DEF callVars
<1>2. /\ job[w].gid = active_gid
      /\ job[w].op = "authenticate" => job[w].operation_id = operation_id
  BY <1>1 DEF RequestInv, Serves
<1>3. CASE EnrollCommit(w)
  <2>1. wpc'[w] = "notify" /\ job'[w].next = "done" /\ job'[w].msg = Enrolling(active_gid, job[w].fid, 0)
    BY <1>3, SendEffect DEF EnrollCommit
  <2>2. UNCHANGED active_gid
    BY <1>3 DEF EnrollCommit
  <2> QED BY <1>1, <1>2, <2>1, <2>2 DEF Serves, Uncommitted, Matches, Enrolling
<1>4. CASE ~EnrollCommit(w)
  <2>0. UNCHANGED <<active_gid, store_path, templates>>
    BY <1>4 DEF WorkerStep, enroll_worker, authenticate_worker, notify_message, finish_worker,
        Clock, DeadlinePasses, ClockSetBack,
        EnrollLoop, EnrollScan, EnrollFid, EnrollSave, EnrollPost,
        AuthenticateLoop, AuthenticateScan, AuthenticateMatch, NotifyGood, OnlyWorker, groupVars
  <2>1. ASSUME job[w].op = "enroll" /\ Uncommitted(w)' => Uncommitted(w),
               wpc'[w] \in {"fid", "save", "commit"} => job[w].op = "enroll",
               wpc'[w] = "match" => job'[w].fid = templates[job'[w].index],
               wpc'[w] = "save" => job'[w].fid \notin Range(templates),
               wpc'[w] \in {"good", "notify"} => Matches(job'[w])
        PROVE  Serves(w)'
    BY <1>1, <1>2, <2>0, <2>1 DEF RequestInv, Serves
  <2>2. ASSUME NEW m, NEW l, Send(w, m, l), l = "loop" => Uncommitted(w) \/ job[w].op # "enroll",
               m.type \notin {"enrolling", "authenticated"}
        PROVE  Serves(w)'
    BY <2>1, <2>2, SendEffect DEF Matches, Uncommitted
  <2>3. ASSUME NEW l \in {"loop", "scan", "fid", "commit", "post", "done"}, Goto(w, l),
               Uncommitted(w) \/ job[w].op # "enroll" \/ l \in {"post", "done"},
               l \in {"fid", "commit"} => job[w].op = "enroll"
        PROVE  Serves(w)'
    BY <2>1, <2>3, GotoEffect DEF Uncommitted
  <2>4. CASE Clock(w)
    BY <1>1, <2>1, <2>4, ClockEffect DEF RequestInv, Serves, Uncommitted, Matches
  <2>5. CASE notify_message(w)
    <3>1. /\ wpc'[w] = job[w].next /\ wpc[w] = "notify"
      BY <1>0, <2>5 DEF notify_message
    <3>2. job[w].next \in {"loop", "post", "done"}
      BY <1>0 DEF Job
    <3> QED BY <2>1, <3>1, <3>2 DEF Uncommitted
  <2>6. CASE EnrollLoop(w)
    BY <2>3, <2>6 DEF EnrollLoop, At, Uncommitted
  <2>7. CASE EnrollScan(w)
    <3>1. ASSUME NEW n, wpc' = [wpc EXCEPT ![w] = "notify"],
                 job' = [job EXCEPT ![w].remaining = n, ![w].next = "loop",
                                    ![w].msg = Enrolling(active_gid, 0, n)]
          PROVE  Serves(w)'
      <4>1. job'[w] = [job[w] EXCEPT !.remaining = n, !.next = "loop",
                                     !.msg = Enrolling(active_gid, 0, n)]
        BY <1>0, <3>1
      <4>2. job'[w].msg = Enrolling(active_gid, 0, n) /\ wpc'[w] = "notify"
        BY <1>0, <3>1, <4>1 DEF Job
      <4>3. Matches(job'[w])
        BY <1>1, <1>2, <4>2 DEF Matches, Enrolling
      <4> QED BY <2>1, <2>7, <4>2, <4>3 DEF EnrollScan, At, Uncommitted
    <3>2. Uncommitted(w) /\ job[w].op = "enroll"
      BY <2>7 DEF EnrollScan, At, Uncommitted
    <3> QED BY <2>2, <2>3, <2>7, <3>1, <3>2 DEF EnrollScan, Error, Acquired
  <2>8. CASE EnrollFid(w)
    <3>1. CASE find_free_fid # 0 /\ wpc' = [wpc EXCEPT ![w] = "save"]
               /\ job' = [job EXCEPT ![w].fid = find_free_fid]
      <4>1. job'[w] = [job[w] EXCEPT !.fid = find_free_fid] /\ wpc'[w] = "save"
        BY <1>0, <3>1
      <4>2. job'[w].fid = find_free_fid
        BY <1>0, <4>1 DEF Job
      <4>3. job'[w].fid \notin Range(templates)
        BY <3>1, <4>2, FreeFidTyped
      <4> QED BY <2>1, <2>8, <4>1, <4>3 DEF EnrollFid, At, Uncommitted
    <3> QED BY <2>2, <2>8, <3>1 DEF EnrollFid, Error
  <2>9. CASE EnrollSave(w)
    BY <2>2, <2>3, <2>9 DEF EnrollSave, At, Uncommitted, Error
  <2>10. CASE EnrollPost(w)
    BY <2>2, <2>3, <2>10 DEF EnrollPost, Error
  <2>11. CASE AuthenticateLoop(w)
    BY <2>3, <2>11 DEF AuthenticateLoop, At
  <2>12. CASE AuthenticateScan(w)
    <3>1. ASSUME NEW i, wpc' = [wpc EXCEPT ![w] = "match"],
                 job' = [job EXCEPT ![w].index = i, ![w].fid = templates[i]]
          PROVE  Serves(w)'
      <4>1. job'[w] = [job[w] EXCEPT !.index = i, !.fid = templates[i]] /\ wpc'[w] = "match"
        BY <1>0, <3>1
      <4>2. job'[w].fid = templates[job'[w].index]
        BY <1>0, <4>1 DEF Job
      <4> QED BY <2>1, <4>1, <4>2 DEF Uncommitted
    <3>2. ASSUME Send(w, Authenticated(active_gid, 0, 0, 0, 0), "loop") PROVE Serves(w)'
      <4>1. wpc'[w] = "notify" /\ job'[w].msg = Authenticated(active_gid, 0, 0, 0, 0)
        BY <3>2, SendEffect
      <4>2. Matches(job'[w])
        BY <1>1, <1>2, <4>1 DEF Matches, Authenticated
      <4> QED BY <2>1, <2>12, <4>1, <4>2 DEF AuthenticateScan, At
    <3> QED BY <2>2, <2>3, <2>12, <3>1, <3>2 DEF AuthenticateScan, At, Error, Acquired
  <2>13. CASE AuthenticateMatch(w)
    <3> DEFINE m == Authenticated(active_gid, templates[job[w].index], operation_id,
                                  secure_user_id, authenticator_id)
    <3>1. job'[w] = [job[w] EXCEPT !.msg = m, !.next = "done"] /\ wpc'[w] = "good"
          /\ wpc[w] = "match" /\ job[w].op = "authenticate"
      BY <1>0, <2>13 DEF AuthenticateMatch, At
    <3>2. m.gid = active_gid /\ m.fid = templates[job[w].index] /\ m.challenge = operation_id
      BY DEF Authenticated
    <3> HIDE DEF m
    <3>3. job'[w].msg = m /\ job'[w].fid = job[w].fid
      BY <1>0, <3>1 DEF Job
    <3>4. job[w].fid = templates[job[w].index]
      BY <3>1 DEF RequestInv, Serves
    <3>5. Matches(job'[w])
      BY <1>1, <1>2, <3>1, <3>2, <3>3, <3>4 DEF Matches
    <3> QED BY <2>1, <3>1, <3>5 DEF Uncommitted
  <2>14. CASE NotifyGood(w)
    <3>1. wpc'[w] = "notify" /\ job'[w] = job[w] /\ wpc[w] = "good"
      BY <2>14, GotoEffect DEF NotifyGood
    <3>2. ~Uncommitted(w)'
      BY <3>1 DEF EndInv, EndsTold, Uncommitted
    <3> QED BY <2>1, <3>1, <3>2 DEF RequestInv, Serves
  <2>15. ~finish_worker(w)
    BY <1>0, GotoEffect DEF finish_worker, Running, RunningLabels
  <2> QED BY <1>4, <2>4, <2>5, <2>6, <2>7, <2>8, <2>9, <2>10, <2>11, <2>12, <2>13, <2>14, <2>15
          DEF WorkerStep, enroll_worker, authenticate_worker
<1> QED BY <1>3, <1>4
LEMMA RequestStep ==
    TypeOK /\ ThreadInv /\ EndInv /\ RequestInv /\ [Next]_vars => RequestInv'
<1> SUFFICES ASSUME TypeOK, ThreadInv, EndInv, RequestInv, [Next]_vars PROVE RequestInv'
  OBVIOUS
<1>1. ThreadInv'
  BY ThreadStep
<1>2. ASSUME NEW w \in Workers, ~Running(w)' PROVE Serves(w)'
  BY <1>2 DEF Serves, Uncommitted, Running, RunningLabels
<1>3. ASSUME NEW w \in Workers, Running(w)' PROVE Serves(w)'
  <2>1. opened' /\ ~Resets
    BY <1>1, <1>3, ResetEffect DEF ThreadInv, OneSensorUser, CallProtocol, Running, RunningLabels
  <2>2. CASE WorkerStep(w) \/ Clock(w)
    BY <1>3, <2>2, WorkerServes
  <2>3. CASE \E v \in Workers \ {w} : WorkerStep(v) \/ Clock(v)
    <3>1. wpc'[w] = wpc[w] /\ job'[w] = job[w]
      BY <2>3, WorkerEffect
    <3>2. Running(w) /\ ~EnrollCommit(w)
      <4>1. Running(w)
        BY <1>3, <3>1 DEF Running
      <4>2. \A v \in Workers : WorkerStep(v) \/ Clock(v) => v = w
        BY <4>1, WorkerEffect DEF ThreadInv, OneSensorUser
      <4> QED BY <2>3, <4>2
    <3> QED BY <2>1, <3>1, <3>2, StillServes
  <2>4. ASSUME NEW c \in Clients, ClientStep(c) \/ NewCall(c), ~fingerprint_close(c)
        PROVE  Serves(w)'
    <3>1. CASE ~Running(w)
      <4>1. Starts(c)
        BY <1>3, <2>4, <3>1, ClientEffect
           DEF Join, stop_worker, workerVars, Running, RunningLabels, TypeOK, WorkerTypeOK
      <4> QED BY <1>3, <3>1, <4>1, StartServes
    <3>2. CASE Running(w)
      <4>1. wpc'[w] = wpc[w] /\ job'[w] = job[w]
        <5>1. wpc[w] # "free" /\ wpc[w] # "exited"
          BY <3>2 DEF Running, RunningLabels
        <5>2. ~Starts(c)
          BY <3>2 DEF Starts, Busy, ThreadInv, OneSensorUser
        <5> QED BY <2>4, <5>1, <5>2, ClientEffect
                DEF Join, stop_worker, workerVars, TypeOK, WorkerTypeOK
      <4>2. ~EnrollCommit(w)
        BY <4>1 DEF EnrollCommit, Send, At, TypeOK, WorkerTypeOK
      <4> QED BY <2>1, <3>2, <4>1, <4>2, StillServes
    <3> QED BY <3>1, <3>2
  <2>5. CASE UNCHANGED vars
    BY <2>5 DEF vars, groupVars, callVars, workerVars, RequestInv, Serves, Uncommitted, Running
  <2> QED BY <2>1, <2>2, <2>3, <2>4, <2>5, StepCases
<1>4. (store_path # NoPath => store_path = active_gid)'
  BY PathStep DEF RequestInv
<1> QED BY <1>2, <1>3, <1>4 DEF RequestInv

LEMMA RequestInit == Init => RequestInv
BY DEF Init, RequestInv, Serves, Uncommitted, Running, RunningLabels

\* A gallery that is not full leaves a slot.
LEMMA FreeSlot ==
    ASSUME TypeOK, Len(templates) < MaxTemplates
    PROVE  find_free_fid # 0
<1> DEFINE used == Range(templates)
<1>1. templates \in Seq(Fid) /\ Len(templates) \in Nat /\ MaxTemplates \in Nat
  BY ConstantsAssumption DEF TypeOK, GroupTypeOK
<1>2. used \subseteq Fid
  BY <1>1 DEF Range
<1>3. IsFiniteSet(Fid) /\ Cardinality(Fid) = MaxTemplates
  BY <1>1, FS_Interval, ConstantsAssumption DEF Fid
<1>4. Cardinality(used) <= Len(templates)
  <2>1. templates \in Surjection(1..Len(templates), used)
    BY <1>1 DEF Surjection, Range
  <2>2. ExistsSurjection(1..Len(templates), used)
    BY <2>1 DEF ExistsSurjection
  <2> QED BY <1>1, <2>2, FS_SurjCardinalityBound
<1>5. Fid \ used # {}
  <2>1. used # Fid
    BY <1>1, <1>3, <1>4
  <2> QED BY <1>2, <2>1
<1> HIDE DEF used
<1>6. \E f \in Fid \ used : \A g \in Fid \ used : f <= g
  <2>1. Fid \ used \in SUBSET Nat
    BY DEF Fid
  <2> QED BY <1>5, <2>1, LeastNatural
<1>7. find_free_fid \in Fid
  BY <1>5, <1>6 DEF find_free_fid, used
<1> QED BY <1>7 DEF Fid

\* Everything that is proved about a running worker, for the theorems below.
THEOREM ResultInductive == Spec => [](Inv /\ EndInv /\ RequestInv)
<1>1. Inv /\ EndInv /\ RequestInv /\ [Next]_vars => EndInv' /\ RequestInv'
  BY EndStep, RequestStep DEF Inv
<1> QED BY <1>1, EndInit, RequestInit, Inductive, PTL DEF Spec

\* A message names the group, the finger and the operation of the call that
\* started its worker, although the worker reads them from the device after
\* other clients ran (send_authentication_success, enroll_worker).
THEOREM ResultsMatch == Spec => []ResultMatchesRequest
<1>1. RequestInv => ResultMatchesRequest
  BY DEF RequestInv, Serves, Matches, ResultMatchesRequest
<1> QED BY <1>1, ResultInductive, PTL

-----------------------------------------------------------------------------
(* What an enrolment announces. *)

\* No sample remaining goes with a finger, and the finger's file is written.
Fits(j) ==
    j.msg.type = "enrolling" =>
        /\ j.msg.remaining = 0 <=> j.msg.fid # 0
        /\ j.msg.fid # 0 => j.msg.fid \in files[j.gid]

\* The count of samples never reaches zero before the template is on disk.
Announces(w) ==
    /\ Running(w) /\ job[w].op = "enroll" => job[w].remaining # 0
    /\ wpc[w] = "commit" => job[w].fid # 0 /\ job[w].fid \in files[job[w].gid]
    /\ wpc[w] \in {"good", "notify"} => Fits(job[w])

AnnounceInv == \A w \in Workers : Announces(w)

\* No file disappears while a worker runs.
LEMMA FilesKept ==
    ASSUME TypeOK, ThreadInv, [Next]_vars, ~Resets, NEW w \in Workers, Running(w)
    PROVE  \A g \in Gids : files[g] \subseteq files'[g]
<1>0. files \in [Gids -> SUBSET Fid]
  BY DEF TypeOK, GroupTypeOK
<1>1. CASE \E c \in Clients : fingerprint_remove(c)
  <2>1. worker_active
    BY DEF ThreadInv, OneSensorUser
  <2> QED BY <1>1, <2>1 DEF fingerprint_remove, RemoveAllowed, Refuse, diskVars
<1>2. CASE \E c \in Clients : fingerprint_set_active_group(c)
  BY <1>2 DEF fingerprint_set_active_group, Refuse, diskVars
<1>3. CASE \E v \in Workers : EnrollSave(v) \/ EnrollCommit(v)
  BY <1>0, <1>3 DEF EnrollSave, EnrollCommit
<1> QED BY <1>1, <1>2, <1>3, GroupFrame DEF diskVars

LEMMA WorkerAnnounces ==
    ASSUME TypeOK, ThreadInv, RequestInv, AnnounceInv, NEW w \in Workers,
           WorkerStep(w) \/ Clock(w), \A g \in Gids : files[g] \subseteq files'[g]
    PROVE  Announces(w)'
<1>0. /\ wpc \in [Workers -> {"free", "exited"} \cup RunningLabels] /\ job \in [Workers -> Job]
      /\ job[w] \in Job
  BY DEF TypeOK, WorkerTypeOK
<1>1. /\ Running(w) /\ job'[w].op = job[w].op /\ job'[w].gid = job[w].gid /\ job[w].gid \in Gids
      /\ job[w].op = "enroll" => job[w].remaining # 0
  BY <1>0, WorkerEffect DEF Job, AnnounceInv, Announces
<1>2. ASSUME NEW l, Goto(w, l), l \notin {"commit", "good", "notify"} PROVE Announces(w)'
  BY <1>1, <1>2, GotoEffect DEF Announces
<1>3. ASSUME NEW m, NEW l, Send(w, m, l), m.type # "enrolling" PROVE Announces(w)'
  BY <1>1, <1>3, SendEffect DEF Announces, Fits
<1>4. CASE Clock(w)
  BY <1>1, <1>4, ClockEffect DEF AnnounceInv, Announces, Fits
<1>5. CASE notify_message(w)
  <2>1. wpc'[w] = job[w].next
        /\ job'[w] = [job[w] EXCEPT !.told = @ \/ (notify /\ Terminal(job[w].msg))]
    BY <1>0, <1>5 DEF notify_message
  <2>2. job'[w].remaining = job[w].remaining /\ job[w].next \in {"loop", "post", "done"}
    BY <1>0, <2>1 DEF Job
  <2> QED BY <1>1, <2>1, <2>2 DEF Announces
<1>6. CASE EnrollScan(w)
  <2>1. ASSUME wpc' = [wpc EXCEPT ![w] = "notify"],
               job' = [job EXCEPT ![w].remaining = RemainingAfterPass(job[w].remaining),
                                  ![w].next = "loop",
                                  ![w].msg = Enrolling(active_gid, 0,
                                                       RemainingAfterPass(job[w].remaining))]
        PROVE  Announces(w)'
    <3> DEFINE n == RemainingAfterPass(job[w].remaining)
    <3>1. n # 0
      <4>1. job[w].remaining \in Nat /\ job[w].remaining # 0
        BY <1>0, <1>1, <1>6, ConstantsAssumption DEF Job, EnrollScan, At
      <4> QED BY <4>1 DEF RemainingAfterPass
    <3> HIDE DEF n
    <3>2. job'[w] = [job[w] EXCEPT !.remaining = n, !.next = "loop",
                                   !.msg = Enrolling(active_gid, 0, n)]
      BY <1>0, <2>1 DEF n
    <3>3. /\ wpc'[w] = "notify" /\ job'[w].remaining = n
          /\ job'[w].msg = Enrolling(active_gid, 0, n)
      BY <1>0, <2>1, <3>2 DEF Job
    <3> QED BY <3>1, <3>3 DEF Announces, Fits, Enrolling
  <2> QED BY <1>2, <1>3, <1>6, <2>1 DEF EnrollScan, Error, Acquired
<1>7. CASE EnrollFid(w)
  <2>1. CASE wpc' = [wpc EXCEPT ![w] = "save"] /\ job' = [job EXCEPT ![w].fid = find_free_fid]
    <3>1. job'[w] = [job[w] EXCEPT !.fid = find_free_fid] /\ wpc'[w] = "save"
      BY <1>0, <2>1
    <3>2. job'[w].remaining = job[w].remaining
      BY <1>0, <3>1 DEF Job
    <3> QED BY <1>1, <3>1, <3>2 DEF Announces
  <2> QED BY <1>3, <1>7, <2>1 DEF EnrollFid, Error
<1>8. CASE EnrollSave(w)
  <2>1. CASE Goto(w, "commit") /\ files' = [files EXCEPT ![store_path] = @ \cup {job[w].fid}]
    <3>1. wpc[w] = "save" /\ job[w].op = "enroll"
      BY <1>8 DEF EnrollSave, At
    <3>2. job[w].fid # 0 /\ store_path = job[w].gid
      BY <3>1 DEF TypeOK, WorkerTypeOK, RequestInv, Serves, Uncommitted
    <3>3. job[w].fid \in files'[job[w].gid]
      BY <1>1, <2>1, <3>2 DEF TypeOK, GroupTypeOK
    <3> QED BY <1>1, <2>1, <3>2, <3>3, GotoEffect DEF Announces
  <2> QED BY <1>3, <1>8, <2>1 DEF EnrollSave, Error
<1>9. CASE EnrollCommit(w)
  <2>1. wpc'[w] = "notify" /\ job'[w].msg = Enrolling(active_gid, job[w].fid, 0)
        /\ job'[w].remaining = job[w].remaining
    BY <1>9, SendEffect DEF EnrollCommit
  <2>2. job[w].fid # 0 /\ job[w].fid \in files'[job[w].gid]
    BY <1>1, <1>9 DEF EnrollCommit, At, AnnounceInv, Announces
  <2> QED BY <1>1, <2>1, <2>2 DEF Announces, Fits, Enrolling
<1>10. CASE AuthenticateScan(w)
  <2>1. CASE wpc' = [wpc EXCEPT ![w] = "match"]
    BY <1>0, <1>1, <1>10, <2>1 DEF AuthenticateScan, At, Announces
  <2> QED BY <1>2, <1>3, <1>10, <2>1 DEF AuthenticateScan, Error, Acquired, Authenticated
<1>11. CASE AuthenticateMatch(w)
  <2> DEFINE m == Authenticated(active_gid, templates[job[w].index], operation_id,
                                secure_user_id, authenticator_id)
  <2>1. job'[w] = [job[w] EXCEPT !.msg = m, !.next = "done"] /\ wpc'[w] = "good"
        /\ job[w].op = "authenticate"
    BY <1>0, <1>11 DEF AuthenticateMatch, At
  <2>2. m.type = "authenticated"
    BY DEF Authenticated
  <2> HIDE DEF m
  <2>3. job'[w].msg = m
    BY <1>0, <2>1 DEF Job
  <2> QED BY <1>1, <2>1, <2>2, <2>3 DEF Announces, Fits
<1>12. CASE NotifyGood(w)
  <2>1. wpc'[w] = "notify" /\ job'[w] = job[w] /\ wpc[w] = "good"
    BY <1>12, GotoEffect DEF NotifyGood
  <2> QED BY <1>1, <2>1 DEF AnnounceInv, Announces, Fits
<1>13. CASE EnrollLoop(w) \/ AuthenticateLoop(w) \/ finish_worker(w) \/ EnrollPost(w)
  BY <1>2, <1>3, <1>13 DEF EnrollLoop, AuthenticateLoop, finish_worker, EnrollPost, Error
<1> QED BY <1>4, <1>5, <1>6, <1>7, <1>8, <1>9, <1>10, <1>11, <1>12, <1>13
        DEF WorkerStep, enroll_worker, authenticate_worker

LEMMA AnnounceStep ==
    TypeOK /\ ThreadInv /\ RequestInv /\ AnnounceInv /\ [Next]_vars => AnnounceInv'
<1> SUFFICES ASSUME TypeOK, ThreadInv, RequestInv, AnnounceInv, [Next]_vars, NEW w \in Workers
             PROVE  Announces(w)'
  BY DEF AnnounceInv
<1>0. /\ wpc \in [Workers -> {"free", "exited"} \cup RunningLabels] /\ job \in [Workers -> Job]
      /\ job[w].gid \in Gids
  BY DEF TypeOK, WorkerTypeOK, Job
<1>1. CASE Resets
  <2>1. wpc'[w] = "free"
    BY <1>1, ResetEffect
  <2> QED BY <2>1 DEF Announces, Running, RunningLabels
<1>2. ASSUME ~Resets, wpc'[w] = wpc[w], job'[w] = job[w] PROVE Announces(w)'
  <2>1. Running(w)' => Running(w)
    BY <1>2 DEF Running
  <2>2. Running(w) => \A g \in Gids : files[g] \subseteq files'[g]
    BY <1>2, FilesKept
  <2> QED BY <1>0, <1>2, <2>1, <2>2 DEF AnnounceInv, Announces, Fits, Running, RunningLabels
<1>3. CASE ~Resets /\ (WorkerStep(w) \/ Clock(w))
  <2>1. Running(w)
    BY <1>3, WorkerEffect
  <2> QED BY <1>3, <2>1, FilesKept, WorkerAnnounces
<1>4. CASE ~Resets /\ \E v \in Workers \ {w} : WorkerStep(v) \/ Clock(v)
  BY <1>2, <1>4, WorkerEffect
<1>5. ASSUME NEW c \in Clients, ClientStep(c) \/ NewCall(c), ~Resets, ~fingerprint_close(c)
      PROVE  Announces(w)'
  <2>1. CASE wpc'[w] \notin {"free", "loop"}
    BY <1>2, <1>5, <2>1, ClientLeavesWorkers
  <2>2. CASE wpc'[w] = "free"
    BY <2>2 DEF Announces, Running, RunningLabels
  <2>3. CASE wpc'[w] = "loop" /\ wpc[w] = "loop"
    <3>1. Running(w)
      BY <2>3 DEF Running, RunningLabels
    <3>2. ~Starts(c)
      BY <3>1 DEF Starts, Busy, ThreadInv, OneSensorUser
    <3>3. job'[w] = job[w]
      BY <1>0, <1>5, <2>3, <3>2, ClientEffect DEF Join, stop_worker, workerVars
    <3> QED BY <1>2, <1>5, <2>3, <3>3
  <2>4. CASE wpc'[w] = "loop" /\ wpc[w] # "loop"
    <3>1. Starts(c)
      BY <1>0, <1>5, <2>4, ClientEffect DEF Join, stop_worker, workerVars
    <3>2. job'[w] = JobOf(req[c])
      BY <1>0, <2>4, <3>1 DEF Starts, start_worker, workerVars
    <3>3. job'[w].op = "enroll" => job'[w].remaining = Stages
      BY <3>1, <3>2 DEF JobOf, NoJob, Starts
    <3> QED BY <2>4, <3>3, ConstantsAssumption DEF Announces
  <2> QED BY <2>1, <2>2, <2>3, <2>4
<1>6. CASE UNCHANGED vars /\ ~Resets
  BY <1>2, <1>6 DEF vars, workerVars
<1> QED BY <1>1, <1>3, <1>4, <1>5, <1>6, StepCases DEF Resets

LEMMA AnnounceInit == Init => AnnounceInv
BY DEF Init, AnnounceInv, Announces, Running, RunningLabels

\* The free slot that enroll() saw is still free when the scan completes, and
\* the one then chosen when the template is written outside the lock, in the
\* directory of the group that the call named (lines 368-381).  The count of
\* remaining samples reaches zero in the message that names the finger, whose
\* template is then in that directory, and in no other (lines 357-366, 393).
THEOREM SlotsSound == Spec => []EnrollSlotSound
<1>1. TypeOK /\ RequestInv /\ AnnounceInv => EnrollSlotSound
  <2> SUFFICES ASSUME TypeOK, RequestInv, AnnounceInv, NEW w \in Workers
               PROVE  /\ wpc[w] = "fid" => find_free_fid # 0
                      /\ wpc[w] = "save" => job[w].fid \notin Range(templates)
                                            /\ store_path = job[w].gid
                      /\ wpc[w] = "notify" => Fits(job[w])
    BY DEF EnrollSlotSound, Fits
  <2> QED BY FreeSlot DEF RequestInv, Serves, Uncommitted, AnnounceInv, Announces
<1>2. Inv /\ RequestInv /\ AnnounceInv /\ [Next]_vars => AnnounceInv'
  BY AnnounceStep DEF Inv
<1> QED BY <1>1, <1>2, AnnounceInit, ResultInductive, PTL DEF Spec, Inv
-----------------------------------------------------------------------------
(* The gallery in memory, whatever fails. *)

\* What is loaded was in the directory.
LEMMA LoadedFromDisk ==
    ASSUME NEW present \in SUBSET Fid, NEW t \in load_templates(present)
    PROVE  Range(t) \subseteq present
<1>1. PICK n : t \in [1..n -> present]
  BY DEF load_templates
<1> QED BY <1>1 DEF Range

\* Without templates there is no id; what is matched against is on disk.
GalleryInv == NoTemplatesNoId /\ GalleryOnDisk

LEMMA GalleryInvStep ==
    TypeOK /\ ThreadInv /\ GalleryInv /\ [Next]_vars => GalleryInv'
<1> SUFFICES ASSUME TypeOK, ThreadInv, GalleryInv, [Next]_vars PROVE GalleryInv'
  OBVIOUS
<1>0. files \in [Gids -> SUBSET Fid] /\ store_path \in Gids \cup {NoPath} /\ NoPath \notin Gids
      /\ templates \in Seq(Fid)
  BY MarkersAssumption DEF TypeOK, GroupTypeOK
<1>1. ASSUME NEW user, NEW t, templates' = t, rotate_authenticator(t, store_path', user)
      PROVE  NoTemplatesNoId'
  BY <1>1 DEF rotate_authenticator, NoTemplatesNoId
<1>2. ASSUME NEW disk \in [Gids -> SUBSET Fid], files' = disk, lib_path' = store_path,
             templates' \in load_templates(Directory(disk, store_path))
      PROVE  GalleryOnDisk'
  <2>1. CASE store_path # NoPath
    <3>1. store_path \in Gids /\ Directory(disk, store_path) = disk[store_path]
      BY <1>0, <2>1 DEF Directory
    <3>2. Range(templates') \subseteq disk[store_path]
      BY <1>2, <3>1, LoadedFromDisk
    <3> QED BY <1>2, <3>2 DEF GalleryOnDisk
  <2> QED BY <1>2, <2>1 DEF GalleryOnDisk
<1>3. CASE Resets
  BY <1>3, ResetEffect DEF FreshMemory, GalleryInv, NoTemplatesNoId, GalleryOnDisk
<1>4. ASSUME NEW c \in Clients, fingerprint_remove(c) PROVE GalleryInv'
  <2>1. CASE Refuse(c)
    BY <2>1 DEF Refuse, groupVars, idVars, diskVars, GalleryInv, NoTemplatesNoId, GalleryOnDisk
  <2>2. CASE ~Refuse(c)
    <3>1. PICK gone \in Deletions(req[c].fid) :
            /\ files' = WithoutFiles(gone)
            /\ templates' \in load_templates(Directory(WithoutFiles(gone), store_path))
      BY <1>4, <2>2 DEF fingerprint_remove
    <3>2. gone \in SUBSET Fid
      BY <1>0 DEF Deletions, Range
    <3>3. WithoutFiles(gone) \in [Gids -> SUBSET Fid]
      BY <3>2, FilesTyped DEF TypeOK
    <3>4. lib_path' = store_path /\ UNCHANGED store_path
          /\ rotate_authenticator(templates', store_path, secure_user_id)
      BY <1>4, <2>2 DEF fingerprint_remove
    <3> QED BY <1>1, <1>2, <3>1, <3>3, <3>4 DEF GalleryInv
  <2> QED BY <2>1, <2>2
<1>5. ASSUME NEW c \in Clients, fingerprint_set_active_group(c) PROVE GalleryInv'
  <2>1. CASE GroupBusy \/ req[c].too_long
    BY <1>5, <2>1 DEF fingerprint_set_active_group, Refuse, groupVars, idVars, diskVars,
                      GalleryInv, NoTemplatesNoId, GalleryOnDisk
  <2>2. CASE ~GroupBusy /\ ~req[c].too_long
    <3> DEFINE g == req[c].gid
    <3>1. /\ store_path' = g /\ lib_path' = g /\ templates' \in load_templates(files[g])
          /\ UNCHANGED files
      BY <1>5, <2>2 DEF fingerprint_set_active_group, GroupBusy, Refuse
    <3>2. g \in Gids
      BY DEF TypeOK, ClientTypeOK, Args
    <3>3. Range(templates') \subseteq files[g]
      BY <1>0, <3>1, <3>2, LoadedFromDisk
    <3>4. GalleryOnDisk'
      BY <3>1, <3>3 DEF GalleryOnDisk
    <3>5. \/ authenticator_id' = 0
          \/ authenticator_id' = IF templates' = <<>> THEN 0 ELSE Stored(g).authenticator
          \/ rotate_authenticator(templates', g, Stored(g).user)
      BY <1>5, <2>2 DEF fingerprint_set_active_group, MetadataUnreadable, GroupBusy
    <3>6. NoTemplatesNoId'
      BY <1>1, <3>1, <3>5 DEF NoTemplatesNoId
    <3> QED BY <3>4, <3>6 DEF GalleryInv
  <2> QED BY <2>1, <2>2
<1>6. ASSUME NEW w \in Workers, EnrollSave(w) PROVE GalleryInv'
  <2>1. UNCHANGED <<groupVars, idVars>>
    BY <1>6 DEF EnrollSave
  <2>2. \A h \in Gids : files[h] \subseteq files'[h]
    BY <1>0, <1>6 DEF EnrollSave
  <2>3. lib_path \in Gids \cup {NoPath}
    BY DEF TypeOK, GroupTypeOK
  <2> QED BY <2>1, <2>2, <2>3 DEF groupVars, idVars, GalleryInv, NoTemplatesNoId, GalleryOnDisk
<1>7. ASSUME NEW w \in Workers, EnrollCommit(w) PROVE GalleryInv'
  BY <1>0, <1>1, <1>2, <1>7 DEF EnrollCommit, GalleryInv
<1>8. CASE UNCHANGED <<groupVars, diskVars, authenticator_id>>
  BY <1>8 DEF groupVars, diskVars, GalleryInv, NoTemplatesNoId, GalleryOnDisk
<1> QED BY <1>3, <1>4, <1>5, <1>6, <1>7, <1>8, GroupFrame

\* Both facts about the gallery below, which hold under every fault.
THEOREM GalleryInductive == Spec => []GalleryInv
<1>1. Init => GalleryInv
  BY DEF Init, GalleryInv, NoTemplatesNoId, GalleryOnDisk
<1>2. Inv /\ GalleryInv /\ [Next]_vars => GalleryInv'
  BY GalleryInvStep DEF Inv
<1> QED BY <1>1, <1>2, Inductive, PTL DEF Spec

\* Whatever file, random device or process failed: an empty gallery has the
\* authenticator id 0, which tells the framework that nothing is enrolled
\* (rotate_authenticator_locked, fingerprint_set_active_group).
THEOREM EmptyHasNoId == Spec => []NoTemplatesNoId
<1>1. GalleryInv => NoTemplatesNoId
  BY DEF GalleryInv
<1> QED BY <1>1, GalleryInductive, PTL

\* A finger is matched only against templates that the directory still holds,
\* also when a removal half failed or the path was lost (fingerprint_remove,
\* load_templates_locked).
THEOREM MatchesWhatIsStored == Spec => []GalleryOnDisk
<1>1. GalleryInv => GalleryOnDisk
  BY DEF GalleryInv
<1> QED BY <1>1, GalleryInductive, PTL

-----------------------------------------------------------------------------
(* CANCELED with one client. *)

\* From the moment cancel() has taken the handle no other is there, and at the
\* end no worker is.
QuietInv ==
    /\ \A c \in Clients : pc[c] \in {"stop", "canceled"} => ~worker_joinable
    /\ CanceledMeansIdle

LEMMA QuietStep ==
    ASSUME \A c, d \in Clients : c = d, TypeOK, ThreadInv, QuietInv, [Next]_vars
    PROVE  QuietInv'
<1>1. CASE Resets
  BY <1>1, ResetEffect DEF QuietInv, CanceledMeansIdle
<1>2. ASSUME NEW w \in Workers, WorkerStep(w) \/ Clock(w) PROVE QuietInv'
  <2>1. UNCHANGED <<pc, worker_joinable>> /\ Running(w)
    BY <1>2, WorkerEffect DEF clientVars
  <2>2. \A c \in Clients : pc[c] # "canceled"
    BY <2>1 DEF QuietInv, CanceledMeansIdle, ThreadInv, OneSensorUser
  <2> QED BY <2>1, <2>2 DEF QuietInv, CanceledMeansIdle
<1>3. ASSUME NEW c \in Clients, ClientStep(c) \/ NewCall(c), ~fingerprint_close(c) PROVE QuietInv'
  <2>0. ClientTypeOK
    BY DEF TypeOK
  <2>1. pc'[c] = "stop" => \/ pc[c] = "stop" /\ (worker_joinable' => worker_joinable)
                           \/ stop_worker(c) /\ worker_joinable' = FALSE
    BY <1>3, <2>0 DEF ClientStep, NewCall, ReapJoined, StopJoined, NotifyCanceled, Report,
        fingerprint_enroll, fingerprint_authenticate, stop_worker, fingerprint_enumerate,
        fingerprint_remove, fingerprint_set_active_group, Call, reap_finished_worker,
        fingerprint_pre_enroll, fingerprint_post_enroll, fingerprint_set_notify, Refuse, Return,
        ToReport, ClientTypeOK, clientVars, threadVars
  <2>2. pc'[c] = "canceled" =>
          \/ pc[c] = "canceled" /\ UNCHANGED threadVars
          \/ pc[c] = "stop" /\ Join(c) /\ UNCHANGED threadVars
    BY <1>3, <2>0 DEF ClientStep, NewCall, ReapJoined, StopJoined, NotifyCanceled, Report,
        fingerprint_enroll, fingerprint_authenticate, stop_worker, fingerprint_enumerate,
        fingerprint_remove, fingerprint_set_active_group, Call, reap_finished_worker,
        fingerprint_pre_enroll, fingerprint_post_enroll, fingerprint_set_notify, Refuse, Return,
        ToReport, ClientTypeOK, clientVars
  <2>3. pc[c] = "stop" /\ Join(c) => ~worker_active
    <3> SUFFICES ASSUME pc[c] = "stop", Join(c), worker_active PROVE FALSE
      OBVIOUS
    <3>1. PICK w \in Workers : Running(w)
      BY DEF ThreadInv, OneSensorUser
    <3>2. joins[c] = w
      BY <3>1 DEF QuietInv, ThreadInv, JoinOwnership, Running, RunningLabels
    <3> QED BY <3>1, <3>2 DEF Join, Running, RunningLabels
  <2>4. pc'[c] \in {"stop", "canceled"} => ~worker_joinable'
    BY <2>1, <2>2 DEF QuietInv, threadVars
  <2>5. pc'[c] = "canceled" => ~worker_active'
    BY <2>2, <2>3 DEF QuietInv, CanceledMeansIdle, threadVars
  <2> QED BY <2>4, <2>5 DEF QuietInv, CanceledMeansIdle
<1>4. CASE UNCHANGED vars
  BY <1>4 DEF vars, threadVars, clientVars, QuietInv, CanceledMeansIdle
<1> QED BY <1>1, <1>2, <1>3, <1>4, StepCases

\* A framework that has one call at a time in the HAL may start the next
\* operation as soon as it is told CANCELED: no worker runs and none is left
\* to be joined (stop_worker, fingerprint_cancel).
THEOREM CanceledIsIdle ==
    ASSUME \A c, d \in Clients : c = d
    PROVE  Spec => []CanceledMeansIdle
<1>1. Init => QuietInv
  BY DEF Init, QuietInv, CanceledMeansIdle
<1>2. Inv /\ QuietInv /\ [Next]_vars => QuietInv'
  BY QuietStep DEF Inv
<1>3. QuietInv => CanceledMeansIdle
  BY DEF QuietInv
<1> QED BY <1>1, <1>2, <1>3, Inductive, PTL DEF Spec
-----------------------------------------------------------------------------
(* The storage, when the disk, the random device and the process do not    *)
(* fail.                                                                   *)

\* Threads and the sensor may still fail, and the wall clock be set back.
Reliable == Faults \subseteq {"create", "sensor", "clock"}

Committing == \E w \in Workers : wpc[w] = "commit"

\* Every directory, except one between the write of a template and its commit:
\* templates have an owner and an id, and the id was drawn for them.
StoredSound(g) ==
    /\ files[g] # {} => meta[g] # NoMeta /\ meta[g].user # 0 /\ meta[g].authenticator # 0
    /\ meta[g] # NoMeta /\ meta[g].authenticator # 0 =>
         drawn_for[meta[g].authenticator] = files[g]

DiskSound == \A g \in Gids : ~(Committing /\ store_path = g) => StoredSound(g)

\* The gallery in memory belongs to the active directory and has an owner.
MemoryNamed ==
    /\ lib_path = store_path
    /\ templates # <<>> => store_path # NoPath /\ secure_user_id # 0 /\ authenticator_id # 0

\* Calls are formed as the framework forms them, and an enrolment has a user.
UserKnown ==
    /\ \A c \in Clients : /\ req[c].op = "enroll" => req[c].user # 0
                          /\ req[c].too_long => "path" \in Faults
    /\ \A w \in Workers : Running(w) /\ job[w].op = "enroll" => secure_user_id # 0

GallerySound == DiskSound /\ MemoryNamed /\ MemoryIsDisk /\ IdDescribesGallery

StoreInv == GallerySound /\ UserKnown /\ TokenNamesUser

\* Without read errors a directory is loaded completely.
LEMMA LoadComplete ==
    ASSUME Reliable, NEW present \in SUBSET Fid, NEW t \in load_templates(present)
    PROVE  Range(t) = present /\ (t = <<>> <=> present = {})
<1>1. IsFiniteSet(Fid) /\ Cardinality(Fid) = MaxTemplates /\ MaxTemplates \in Nat
  BY FS_Interval, ConstantsAssumption DEF Fid
<1>2. IsFiniteSet(present) /\ Cardinality(present) <= MaxTemplates
  BY <1>1, FS_Subset
<1>3. Cardinality(present) \in Nat
  BY <1>2, FS_CardinalityType
<1> DEFINE n == Cardinality(present)
<1>4. t \in [1..n -> present] /\ IsInjective(t)
  BY <1>1, <1>2, <1>3 DEF load_templates, Reliable
<1>5. IsFiniteSet(1..n) /\ Cardinality(1..n) = n
  BY <1>3, FS_Interval
<1>6. t \in Surjection(1..n, present)
  <2>1. t \in Injection(1..n, present)
    BY <1>4 DEF Injection
  <2> QED BY <1>2, <1>5, <2>1, FS_Injection
<1>7. Range(t) = present
  BY <1>4, <1>6 DEF Surjection, Range
<1>8. t = <<>> <=> present = {}
  <2>1. CASE present = {}
    <3>1. n = 0
      BY <2>1, FS_EmptySet
    <3> QED BY <1>4, <2>1, <3>1
  <2>2. CASE present # {}
    BY <1>7, <2>2 DEF Range
  <2> QED BY <2>1, <2>2
<1> QED BY <1>7, <1>8

\* A rotation that does not fail draws a new id for the gallery and stores it;
\* ids in use elsewhere keep their galleries.
LEMMA RotateStores ==
    ASSUME Reliable, TypeOK, NEW t, NEW dir \in Gids, NEW user, rotate_authenticator(t, dir, user)
    PROVE  /\ meta' = [meta EXCEPT ![dir] = [user |-> user, authenticator |-> authenticator_id']]
           /\ t = <<>> <=> authenticator_id' = 0
           /\ authenticator_id' # 0 => drawn_for'[authenticator_id'] = Range(t)
           /\ \A i \in AuthIds : i \in LiveIds => drawn_for'[i] = drawn_for[i]
<1>0. dir # NoPath /\ 0 \notin AuthIds /\ "disk" \notin Faults /\ "random" \notin Faults
  BY MarkersAssumption, ConstantsAssumption DEF Reliable
<1>1. \A auth : save_metadata(dir, user, auth) =>
          meta' = [meta EXCEPT ![dir] = [user |-> user, authenticator |-> auth]]
  BY <1>0 DEF save_metadata
<1>2. CASE t = <<>>
  BY <1>1, <1>2 DEF rotate_authenticator
<1>3. CASE t # <<>>
  <2> DEFINE id == CHOOSE i \in AuthIds : i \notin LiveIds
  <2>1. id \in AuthIds /\ id \notin LiveIds /\ id # 0
    BY <1>0, FreshId
  <2>2. random_u64 = {id}
    BY <1>0 DEF random_u64
  <2> HIDE DEF id
  <2>3. /\ authenticator_id' = id /\ save_metadata(dir, user, id)
        /\ drawn_for' = [i \in AuthIds |-> IF i = id THEN Range(t)
                           ELSE IF i \in LiveIds THEN drawn_for[i] ELSE {}]
    BY <1>3, <2>1, <2>2 DEF rotate_authenticator
  <2> QED BY <1>1, <1>3, <2>1, <2>3
<1> QED BY <1>2, <1>3

\* The id of a directory is in use.
LEMMA StoredIsLive ==
    ASSUME TypeOK, NEW g \in Gids, meta[g] # NoMeta, meta[g].authenticator # 0
    PROVE  meta[g].authenticator \in AuthIds /\ meta[g].authenticator \in LiveIds
BY DEF TypeOK, IdTypeOK, Metadata, LiveIds

\* After a load and a rotation of directory dir everything fits again.
LEMMA RotatedSound ==
    ASSUME Reliable, TypeOK, TypeOK', NEW dir \in Gids, store_path' = dir, lib_path' = dir,
           ~Committing', \A g \in Gids \ {dir} : files'[g] = files[g] /\ StoredSound(g),
           templates' \in load_templates(files'[dir]),
           rotate_authenticator(templates', dir, secure_user_id'),
           files'[dir] # {} => secure_user_id' # 0
    PROVE  GallerySound'
<1>0. dir # NoPath /\ meta \in [Gids -> Metadata \cup {NoMeta}] /\ files' \in [Gids -> SUBSET Fid]
      /\ NoMeta \notin Metadata /\ meta' \in [Gids -> Metadata \cup {NoMeta}]
  BY MarkersAssumption DEF TypeOK, IdTypeOK, GroupTypeOK
<1>1. Range(templates') = files'[dir] /\ (templates' = <<>> <=> files'[dir] = {})
  BY <1>0, LoadComplete
<1>2. /\ meta' = [meta EXCEPT ![dir] = [user |-> secure_user_id', authenticator |-> authenticator_id']]
      /\ templates' = <<>> <=> authenticator_id' = 0
      /\ authenticator_id' # 0 => drawn_for'[authenticator_id'] = Range(templates')
      /\ \A i \in AuthIds : i \in LiveIds => drawn_for'[i] = drawn_for[i]
  BY RotateStores
<1>3. meta'[dir] = [user |-> secure_user_id', authenticator |-> authenticator_id']
      /\ meta'[dir] # NoMeta
  <2>1. meta'[dir] = [user |-> secure_user_id', authenticator |-> authenticator_id']
    BY <1>0, <1>2
  <2>2. secure_user_id' \in Users \cup {0} /\ authenticator_id' \in AuthIds \cup {0}
    BY DEF TypeOK, IdTypeOK
  <2>3. meta'[dir] \in Metadata
    BY <2>1, <2>2 DEF Metadata
  <2> QED BY <1>0, <2>1, <2>3
<1>4. StoredSound(dir)'
  BY <1>1, <1>2, <1>3 DEF StoredSound
<1>5. ASSUME NEW g \in Gids \ {dir} PROVE StoredSound(g)'
  <2>1. meta'[g] = meta[g] /\ files'[g] = files[g] /\ StoredSound(g)
    BY <1>0, <1>2
  <2> QED BY <1>2, <2>1, StoredIsLive DEF StoredSound
<1>6. DiskSound'
  BY <1>4, <1>5 DEF DiskSound
<1>7. MemoryNamed' /\ IdDescribesGallery'
  BY <1>0, <1>1, <1>2 DEF MemoryNamed, IdDescribesGallery
<1>8. MemoryIsDisk'
  BY <1>1, <1>3 DEF MemoryIsDisk
<1> QED BY <1>6, <1>7, <1>8 DEF GallerySound
\* Only the save and the commit of an enrolment enter or leave the commit.
LEMMA CommitStays ==
    ASSUME TypeOK, [Next]_vars, ~Resets, \A w \in Workers : ~EnrollSave(w) /\ ~EnrollCommit(w)
    PROVE  Committing' <=> Committing
<1>0. wpc \in [Workers -> {"free", "exited"} \cup RunningLabels] /\ job \in [Workers -> Job]
  BY DEF TypeOK, WorkerTypeOK
<1> SUFFICES \A v \in Workers : wpc'[v] = "commit" <=> wpc[v] = "commit"
  BY DEF Committing
<1>1. ASSUME NEW w \in Workers, WorkerStep(w) \/ Clock(w)
      PROVE  wpc'[w] = "commit" <=> wpc[w] = "commit"
  <2>1. job[w].next # "commit"
    BY <1>0 DEF Job
  <2> QED BY <1>0, <1>1, <2>1 DEF WorkerStep, enroll_worker, authenticate_worker, notify_message,
        Clock, DeadlinePasses, ClockSetBack,
        EnrollLoop, EnrollScan, EnrollFid, EnrollPost, AuthenticateLoop,
        AuthenticateScan, AuthenticateMatch, NotifyGood, finish_worker, At, Goto, Send
<1>2. ASSUME NEW c \in Clients, ClientStep(c) \/ NewCall(c), ~fingerprint_close(c), NEW v \in Workers
      PROVE  wpc'[v] = "commit" <=> wpc[v] = "commit"
  BY <1>0, <1>2, ClientEffect DEF Join, stop_worker, Starts, start_worker, workerVars
<1>3. CASE UNCHANGED vars
  BY <1>3 DEF vars, workerVars
<1> QED BY <1>1, <1>2, <1>3, StepCases, WorkerEffect

\* Steps that touch neither the gallery nor the disk.
LEMMA SoundFrame ==
    ASSUME GallerySound, UNCHANGED <<groupVars, diskVars, authenticator_id, drawn_for>>,
           Committing' <=> Committing, secure_user_id # 0 => secure_user_id' # 0
    PROVE  GallerySound'
<1>1. UNCHANGED <<files, meta, drawn_for, authenticator_id, store_path, lib_path, templates>>
  BY DEF groupVars, diskVars
<1>2. DiskSound'
  BY <1>1 DEF GallerySound, DiskSound, StoredSound
<1>3. MemoryNamed' /\ IdDescribesGallery'
  BY <1>1 DEF GallerySound, MemoryNamed, IdDescribesGallery
<1>4. MemoryIsDisk'
  BY <1>1 DEF GallerySound, MemoryIsDisk, Committing
<1> QED BY <1>2, <1>3, <1>4 DEF GallerySound

\* While nothing runs nothing is being committed.
LEMMA IdleCommitsNothing ==
    ASSUME ThreadInv, ~worker_active PROVE ~Committing
BY DEF ThreadInv, OneSensorUser, Running, RunningLabels, Committing

\* remove() deletes, loads what is left and rotates.
LEMMA RemoveSound ==
    ASSUME Reliable, TypeOK, TypeOK', ThreadInv, StoreInv, NEW c \in Clients,
           fingerprint_remove(c), ~Refuse(c)
    PROVE  GallerySound'
<1>0. files \in [Gids -> SUBSET Fid] /\ store_path \in Gids \cup {NoPath} /\ NoPath \notin Gids
      /\ templates \in Seq(Fid) /\ files' \in [Gids -> SUBSET Fid]
  BY MarkersAssumption DEF TypeOK, GroupTypeOK
<1>1. ~worker_active /\ UNCHANGED <<store_path, secure_user_id, workerVars>>
      /\ lib_path' = store_path /\ rotate_authenticator(templates', store_path, secure_user_id)
  BY DEF fingerprint_remove, RemoveAllowed
<1>2. ~Committing /\ ~Committing'
  BY <1>1, IdleCommitsNothing DEF workerVars, Committing
<1>3. PICK gone \in Deletions(req[c].fid) :
        /\ files' = WithoutFiles(gone)
        /\ templates' \in load_templates(Directory(WithoutFiles(gone), store_path))
  BY DEF fingerprint_remove
<1>4. lib_path = store_path /\ DiskSound /\ MemoryIsDisk /\ MemoryNamed
  BY DEF StoreInv, GallerySound, MemoryNamed
<1>5. CASE store_path # NoPath
  <2> DEFINE dir == store_path
  <2>1. dir \in Gids /\ files' = [files EXCEPT ![dir] = @ \ gone]
    BY <1>0, <1>3, <1>4, <1>5 DEF WithoutFiles
  <2>2. templates' \in load_templates(files'[dir])
    BY <1>3, <1>5 DEF Directory
  <2>3. files'[dir] # {} => secure_user_id' # 0
    <3>1. files'[dir] \subseteq files[dir] /\ files[dir] = Range(templates)
      BY <1>0, <1>2, <1>4, <1>5, <2>1 DEF MemoryIsDisk, Committing
    <3>2. templates # <<>> => secure_user_id # 0
      BY <1>4 DEF MemoryNamed
    <3>3. Range(<<>>) = {}
      BY DEF Range
    <3> QED BY <1>1, <3>1, <3>2, <3>3
  <2>4. \A g \in Gids \ {dir} : files'[g] = files[g] /\ StoredSound(g)
    BY <1>0, <1>2, <1>4, <2>1 DEF DiskSound
  <2> HIDE DEF dir
  <2>5. store_path' = dir /\ lib_path' = dir /\ rotate_authenticator(templates', dir, secure_user_id')
    BY <1>1 DEF dir
  <2> QED BY <1>2, <2>1, <2>2, <2>3, <2>4, <2>5, RotatedSound
<1>6. CASE store_path = NoPath
  <2>1. files' = files /\ templates' \in load_templates({})
    BY <1>3, <1>4, <1>6 DEF WithoutFiles, Directory
  <2>2. templates' = <<>>
    BY <2>1, LoadComplete
  <2>3. UNCHANGED <<meta, drawn_for>> /\ authenticator_id' = 0
    BY <1>1, <1>6, <2>2 DEF rotate_authenticator, save_metadata
  <2>4. DiskSound'
    BY <1>2, <1>4, <2>1, <2>3 DEF DiskSound, StoredSound
  <2> QED BY <1>1, <1>6, <2>2, <2>3, <2>4
          DEF GallerySound, MemoryNamed, MemoryIsDisk, IdDescribesGallery
<1> QED BY <1>5, <1>6
\* set_active_group() loads a directory with the ids stored beside it.
LEMMA SwitchSound ==
    ASSUME Reliable, TypeOK, TypeOK', ThreadInv, StoreInv, NEW c \in Clients,
           fingerprint_set_active_group(c), ~Refuse(c)
    PROVE  GallerySound'
<1> DEFINE g == req[c].gid
<1>0. files \in [Gids -> SUBSET Fid] /\ NoPath \notin Gids /\ g \in Gids
      /\ meta \in [Gids -> Metadata \cup {NoMeta}]
  BY MarkersAssumption DEF TypeOK, GroupTypeOK, IdTypeOK, ClientTypeOK, Args
<1>1. ~req[c].too_long /\ ~MetadataUnreadable /\ ~worker_active
  BY DEF StoreInv, UserKnown, Reliable, MetadataUnreadable, GroupBusy, fingerprint_set_active_group
<1>2. /\ store_path' = g /\ lib_path' = g /\ templates' \in load_templates(files[g])
      /\ UNCHANGED <<files, workerVars>> /\ secure_user_id' = Stored(g).user
      /\ \/ /\ templates' = <<>> \/ Stored(g).authenticator # 0
            /\ authenticator_id' = IF templates' = <<>> THEN 0 ELSE Stored(g).authenticator
            /\ UNCHANGED <<meta, drawn_for>>
         \/ /\ templates' # <<>> /\ Stored(g).authenticator = 0
            /\ rotate_authenticator(templates', g, Stored(g).user)
  BY <1>1 DEF fingerprint_set_active_group
<1>3. ~Committing /\ ~Committing'
  BY <1>1, <1>2, IdleCommitsNothing DEF workerVars, Committing
<1>4. \A h \in Gids : StoredSound(h)
  BY <1>3 DEF StoreInv, GallerySound, DiskSound
<1>5. Range(templates') = files[g] /\ (templates' = <<>> <=> files[g] = {})
  BY <1>0, <1>2, LoadComplete
<1>6. templates' # <<>> => /\ meta[g] # NoMeta /\ meta[g].user # 0 /\ meta[g].authenticator # 0
                           /\ Stored(g) = meta[g]
  BY <1>0, <1>4, <1>5 DEF StoredSound, Stored
<1>7. /\ authenticator_id' = IF templates' = <<>> THEN 0 ELSE Stored(g).authenticator
      /\ UNCHANGED <<meta, drawn_for>>
  BY <1>2, <1>6
<1> HIDE DEF g
<1>8. DiskSound'
  BY <1>2, <1>4, <1>7 DEF DiskSound, StoredSound
<1>9. MemoryNamed'
  BY <1>0, <1>2, <1>6, <1>7 DEF MemoryNamed
<1>10. MemoryIsDisk'
  BY <1>2, <1>5, <1>6, <1>7 DEF MemoryIsDisk
<1>11. IdDescribesGallery'
  BY <1>0, <1>4, <1>5, <1>6, <1>7 DEF IdDescribesGallery, StoredSound
<1> QED BY <1>8, <1>9, <1>10, <1>11 DEF GallerySound

\* The new template is written: its directory waits for the commit.
LEMMA SaveSound ==
    ASSUME Reliable, TypeOK, ThreadInv, RequestInv, StoreInv, NEW w \in Workers, EnrollSave(w)
    PROVE  GallerySound'
<1>0. files \in [Gids -> SUBSET Fid] /\ wpc \in [Workers -> {"free", "exited"} \cup RunningLabels]
      /\ store_path \in Gids \cup {NoPath}
  BY DEF TypeOK, GroupTypeOK, WorkerTypeOK
<1>1. wpc[w] = "save" /\ job[w].op = "enroll"
  BY DEF EnrollSave, At
<1>2. store_path = job[w].gid /\ job[w].gid \in Gids /\ NoPath \notin Gids
  BY <1>1, MarkersAssumption DEF RequestInv, Serves, Uncommitted, TypeOK, WorkerTypeOK, Job
<1>3. /\ files' = [files EXCEPT ![store_path] = @ \cup {job[w].fid}]
      /\ wpc' = [wpc EXCEPT ![w] = "commit"]
      /\ UNCHANGED <<groupVars, idVars, meta>>
  BY <1>2 DEF EnrollSave, Reliable, Goto
<1>4. Committing' /\ wpc'[w] = "commit"
  BY <1>0, <1>3 DEF Committing
<1>5. ~Committing
  <2>1. \A v \in Workers : wpc[v] = "commit" => Running(v) /\ Running(w)
    BY <1>1 DEF Running, RunningLabels
  <2> QED BY <1>1, <2>1 DEF Committing, ThreadInv, OneSensorUser
<1>6. DiskSound'
  <2>1. ASSUME NEW g \in Gids, g # store_path PROVE StoredSound(g)'
    <3>1. files'[g] = files[g] /\ StoredSound(g) /\ UNCHANGED <<meta, drawn_for>>
      BY <1>0, <1>3, <1>5, <2>1 DEF StoreInv, GallerySound, DiskSound, idVars
    <3> QED BY <3>1 DEF StoredSound
  <2> QED BY <1>3, <1>4, <2>1 DEF DiskSound, groupVars
<1>7. MemoryNamed' /\ IdDescribesGallery'
  BY <1>3 DEF StoreInv, GallerySound, MemoryNamed, IdDescribesGallery, groupVars, idVars
<1>8. MemoryIsDisk'
  BY <1>3, <1>4 DEF StoreInv, GallerySound, MemoryIsDisk, groupVars, idVars
<1> QED BY <1>6, <1>7, <1>8 DEF GallerySound

\* The commit loads the directory with the new template and rotates.
LEMMA CommitSound ==
    ASSUME Reliable, TypeOK, TypeOK', ThreadInv, RequestInv, StoreInv, NEW w \in Workers,
           EnrollCommit(w)
    PROVE  GallerySound'
<1>0. files \in [Gids -> SUBSET Fid] /\ wpc \in [Workers -> {"free", "exited"} \cup RunningLabels]
  BY DEF TypeOK, GroupTypeOK, WorkerTypeOK
<1>1. wpc[w] = "commit" /\ job[w].op = "enroll" /\ Running(w)
  BY DEF EnrollCommit, At, Running, RunningLabels
<1> DEFINE dir == store_path
<1>2. dir = job[w].gid /\ dir \in Gids /\ NoPath \notin Gids
  BY <1>1, MarkersAssumption DEF RequestInv, Serves, Uncommitted, TypeOK, WorkerTypeOK, Job
<1>3. /\ UNCHANGED <<files, secure_user_id, store_path>> /\ lib_path' = dir
      /\ templates' \in load_templates(files'[dir])
      /\ rotate_authenticator(templates', dir, secure_user_id)
      /\ wpc' = [wpc EXCEPT ![w] = "notify"]
  BY <1>2 DEF EnrollCommit, Directory, Send
<1>4. ~Committing'
  <2>1. \A v \in Workers : wpc[v] = "commit" => v = w
    BY <1>1 DEF Running, RunningLabels, ThreadInv, OneSensorUser
  <2> QED BY <1>0, <1>3, <2>1 DEF Committing
<1>5. secure_user_id' # 0
  BY <1>1, <1>3 DEF StoreInv, UserKnown
<1>6. \A g \in Gids \ {dir} : files'[g] = files[g] /\ StoredSound(g)
  BY <1>3 DEF StoreInv, GallerySound, DiskSound
<1> HIDE DEF dir
<1>7. store_path' = dir /\ rotate_authenticator(templates', dir, secure_user_id')
  BY <1>3 DEF dir
<1> QED BY <1>2, <1>3, <1>4, <1>5, <1>6, <1>7, RotatedSound
\* Closing and opening lose the memory only; nothing crashes.
LEMMA ResetSound ==
    ASSUME Reliable, TypeOK, ThreadInv, StoreInv, Resets
    PROVE  GallerySound'
<1>1. FreshMemory /\ ~Committing'
  BY ResetEffect DEF Committing
<1>2. UNCHANGED <<drawn_for, diskVars>> /\ ~Crash
  BY DEF Resets, fingerprint_open, fingerprint_close, Crash, Reliable
<1>3. ~Committing
  <2>1. CASE fingerprint_open
    BY <2>1, QuietDevice DEF fingerprint_open, Committing
  <2>2. ASSUME NEW c \in Clients, fingerprint_close(c) PROVE ~Committing
    BY <2>2, QuietDevice DEF fingerprint_close, Committing
  <2> QED BY <1>2, <2>1, <2>2 DEF Resets
<1>4. DiskSound'
  BY <1>2, <1>3 DEF StoreInv, GallerySound, DiskSound, StoredSound, diskVars
<1> QED BY <1>1, <1>4
        DEF FreshMemory, GallerySound, MemoryNamed, MemoryIsDisk, IdDescribesGallery

\* A client has the request that its call brought, or none.
LEMMA RequestsKept ==
    ASSUME TypeOK, NEW c \in Clients, ClientStep(c) \/ NewCall(c), NEW d \in Clients
    PROVE  req'[d] = req[d] \/ req'[d] = NoRequest \/ req'[d] \in Request
<1>0. req \in [Clients -> Args]
  BY DEF TypeOK, ClientTypeOK
<1>1. CASE Call(c)
  BY <1>0, <1>1 DEF Call
<1>2. CASE ~Call(c)
  <2>1. UNCHANGED req \/ req' = [req EXCEPT ![c] = NoRequest]
    BY <1>2 DEF ClientStep, NewCall, ReapJoined, StopJoined, NotifyCanceled, Report,
        fingerprint_enroll, fingerprint_authenticate, stop_worker, fingerprint_enumerate,
        fingerprint_remove, fingerprint_set_active_group, fingerprint_close,
        fingerprint_pre_enroll, fingerprint_post_enroll, fingerprint_set_notify, Refuse, Return,
        ToReport, clientVars
  <2> QED BY <1>0, <2>1
<1> QED BY <1>1, <1>2

LEMMA UserStep ==
    ASSUME TypeOK, ThreadInv, UserKnown, [Next]_vars
    PROVE  UserKnown'
<1>0. NoRequest.op = "none" /\ NoRequest.too_long = FALSE
  BY DEF NoRequest
<1>1. CASE Resets
  <2>1. \A c \in Clients : pc'[c] = "idle" /\ req'[c].op = "none"
    BY <1>1, ResetEffect
  <2>2. \A c \in Clients : req'[c] = req[c] \/ req'[c] = NoRequest
    BY <1>1 DEF Resets, fingerprint_open, fingerprint_close, Crash, Return, clientVars, TypeOK,
                ClientTypeOK
  <2>3. \A w \in Workers : ~Running(w)'
    BY <1>1, ResetEffect DEF Running, RunningLabels
  <2> QED BY <1>0, <2>1, <2>2, <2>3 DEF UserKnown
<1>2. ASSUME NEW w \in Workers, WorkerStep(w) \/ Clock(w) PROVE UserKnown'
  <2>1. UNCHANGED req
    BY <1>2, WorkerEffect DEF clientVars
  <2>2. UNCHANGED secure_user_id
    BY <1>2 DEF WorkerStep, enroll_worker, authenticate_worker, notify_message, finish_worker,
      Clock, DeadlinePasses, ClockSetBack,
      EnrollLoop, EnrollScan, EnrollFid, EnrollSave, EnrollCommit, EnrollPost,
      AuthenticateLoop, AuthenticateScan, AuthenticateMatch, NotifyGood, OnlyWorker, idVars
  <2>3. \A v \in Workers : Running(v)' => Running(v) /\ job'[v].op = job[v].op
    BY <1>2, WorkerEffect DEF Running
  <2> QED BY <2>1, <2>2, <2>3 DEF UserKnown
<1>3. ASSUME NEW c \in Clients, ClientStep(c) \/ NewCall(c), ~fingerprint_close(c) PROVE UserKnown'
  <2>1. \A d \in Clients : /\ req'[d].op = "enroll" => req'[d].user # 0
                           /\ req'[d].too_long => "path" \in Faults
    BY <1>0, <1>3, RequestsKept DEF UserKnown, Request
  <2>2. ASSUME NEW w \in Workers, Running(w)', job'[w].op = "enroll" PROVE secure_user_id' # 0
    <3>1. CASE fingerprint_enroll(c) /\ ~Refuse(c)
      BY <3>1 DEF fingerprint_enroll, UserKnown
    <3>2. CASE fingerprint_authenticate(c) /\ ~Refuse(c)
      <4>1. ~worker_active /\ start_worker(JobOf(req[c])) /\ req[c].op = "authenticate"
        BY <3>2 DEF fingerprint_authenticate, Busy, JobOf
      <4>2. JobOf(req[c]).op = "authenticate"
        BY <4>1 DEF JobOf, NoJob
      <4>3. ~Running(w)
        BY <4>1 DEF ThreadInv, OneSensorUser
      <4> QED BY <2>2, <4>1, <4>2, <4>3
              DEF start_worker, Running, workerVars, TypeOK, WorkerTypeOK
    <3>3. CASE fingerprint_set_active_group(c) /\ ~Refuse(c)
      <4>1. ~worker_active /\ UNCHANGED workerVars
        BY <3>3 DEF fingerprint_set_active_group, GroupBusy
      <4> QED BY <2>2, <4>1 DEF ThreadInv, OneSensorUser, Running, workerVars
    <3>4. CASE Refuse(c)
      BY <2>2, <3>4 DEF Refuse, idVars, workerVars, UserKnown, Running
    <3>5. CASE ~fingerprint_enroll(c) /\ ~fingerprint_authenticate(c)
               /\ ~fingerprint_set_active_group(c)
      <4>1. UNCHANGED secure_user_id
        BY <1>3, <3>5 DEF ClientStep, NewCall, ReapJoined, StopJoined, NotifyCanceled, Report,
          stop_worker, fingerprint_enumerate, fingerprint_remove, Call, fingerprint_pre_enroll,
          fingerprint_post_enroll, fingerprint_set_notify, Refuse, idVars
      <4>2. ~Starts(c)
        BY <1>3, <3>5 DEF Starts, ClientStep, NewCall, ReapJoined, StopJoined, NotifyCanceled,
          Report, stop_worker, fingerprint_enumerate, fingerprint_remove, Call,
          fingerprint_pre_enroll, fingerprint_post_enroll, fingerprint_set_notify, MayCall
      <4>3. UNCHANGED workerVars \/ Join(c)
        BY <1>3, <4>2, ClientEffect DEF stop_worker, workerVars
      <4>4. Running(w) /\ job'[w] = job[w]
        BY <2>2, <4>3 DEF Join, Running, RunningLabels, workerVars, TypeOK, WorkerTypeOK
      <4> QED BY <2>2, <4>1, <4>4 DEF UserKnown
    <3> QED BY <3>1, <3>2, <3>3, <3>4, <3>5
  <2> QED BY <2>1, <2>2 DEF UserKnown
<1>4. CASE UNCHANGED vars
  BY <1>4 DEF vars, clientVars, workerVars, idVars, UserKnown, Running
<1> QED BY <1>1, <1>2, <1>3, <1>4, StepCases
\* A token is filled in from a gallery that is not empty.
LEMMA TokenStep ==
    ASSUME TypeOK, ThreadInv, MatchInBounds, MemoryNamed, TokenNamesUser, [Next]_vars
    PROVE  TokenNamesUser'
<1>0. wpc \in [Workers -> {"free", "exited"} \cup RunningLabels] /\ job \in [Workers -> Job]
  BY DEF TypeOK, WorkerTypeOK
<1> SUFFICES ASSUME NEW w \in Workers, wpc'[w] = "good"
             PROVE  job'[w].msg.user # 0 /\ job'[w].msg.authenticator # 0
  BY DEF TokenNamesUser
<1>1. CASE AuthenticateMatch(w)
  <2> DEFINE m == Authenticated(active_gid, templates[job[w].index], operation_id,
                                secure_user_id, authenticator_id)
  <2>1. templates # <<>>
    BY <1>1 DEF MatchInBounds, AuthenticateMatch, At
  <2>2. m.user = secure_user_id /\ m.authenticator = authenticator_id
    BY DEF Authenticated
  <2>3. job'[w] = [job[w] EXCEPT !.msg = m, !.next = "done"]
    BY <1>0, <1>1 DEF AuthenticateMatch
  <2> HIDE DEF m
  <2>4. job'[w].msg = m
    BY <1>0, <2>3 DEF Job
  <2> QED BY <2>1, <2>2, <2>4 DEF MemoryNamed
<1>2. CASE Clock(w)
  BY <1>0, <1>2, ClockEffect DEF TokenNamesUser
<1>3. CASE WorkerStep(w) /\ ~AuthenticateMatch(w)
  <2>1. job[w].next # "good"
    BY <1>0 DEF Job
  <2> QED BY <1>0, <1>3, <2>1 DEF WorkerStep, enroll_worker, authenticate_worker, notify_message,
        EnrollLoop, EnrollScan, EnrollFid, EnrollSave, EnrollCommit, EnrollPost, AuthenticateLoop,
        AuthenticateScan, NotifyGood, finish_worker, Goto, Send
<1>4. CASE UNCHANGED vars \/ \E v \in Workers \ {w} : WorkerStep(v) \/ Clock(v)
  <2>1. wpc'[w] = wpc[w] /\ job'[w] = job[w]
    BY <1>4, WorkerEffect DEF vars, workerVars
  <2> QED BY <2>1 DEF TokenNamesUser
<1>5. ASSUME NEW c \in Clients, ClientStep(c) \/ NewCall(c), ~fingerprint_close(c)
      PROVE  wpc'[w] = wpc[w] /\ job'[w] = job[w]
  BY <1>0, <1>5, ClientLeavesWorkers
<1>6. ~Resets
  BY ResetEffect
<1> QED BY <1>1, <1>2, <1>3, <1>4, <1>5, <1>6, StepCases DEF TokenNamesUser

LEMMA StoreStep ==
    ASSUME Reliable, Inv, Inv', RequestInv, StoreInv, [Next]_vars
    PROVE  StoreInv'
<1>0. TypeOK /\ TypeOK' /\ ThreadInv /\ MatchInBounds
  BY DEF Inv
<1>1. UserKnown' /\ TokenNamesUser'
  BY <1>0, UserStep, TokenStep DEF StoreInv, GallerySound
<1> SUFFICES GallerySound'
  BY <1>1 DEF StoreInv
<1>2. CASE Resets
  BY <1>0, <1>2, ResetSound
<1>3. CASE \E w \in Workers : EnrollSave(w) \/ EnrollCommit(w)
  BY <1>0, <1>3, SaveSound, CommitSound
<1>4. CASE \E c \in Clients : (fingerprint_remove(c) \/ fingerprint_set_active_group(c)) /\ ~Refuse(c)
  BY <1>0, <1>4, RemoveSound, SwitchSound
<1>5. CASE /\ ~Resets /\ \A w \in Workers : ~EnrollSave(w) /\ ~EnrollCommit(w)
           /\ \A c \in Clients : fingerprint_remove(c) \/ fingerprint_set_active_group(c) => Refuse(c)
  <2>1. Committing' <=> Committing
    BY <1>0, <1>5, CommitStays
  <2>2. CASE \E c \in Clients : Refuse(c)
    BY <2>1, <2>2, SoundFrame DEF Refuse, idVars, StoreInv
  <2>3. CASE \A c \in Clients : ~Refuse(c)
    <3>1. /\ UNCHANGED <<groupVars, diskVars, authenticator_id, drawn_for>>
          /\ UNCHANGED secure_user_id \/ \E c \in Clients : fingerprint_enroll(c)
      BY <1>5, <2>3, GroupFrame
    <3>2. secure_user_id # 0 => secure_user_id' # 0
      BY <2>3, <3>1 DEF fingerprint_enroll, StoreInv, UserKnown
    <3> QED BY <2>1, <3>1, <3>2, SoundFrame DEF StoreInv
  <2> QED BY <2>2, <2>3
<1> QED BY <1>2, <1>3, <1>4, <1>5

LEMMA StoreInit == Init => StoreInv
<1> SUFFICES ASSUME Init PROVE StoreInv
  OBVIOUS
<1>1. DiskSound
  BY DEF Init, DiskSound, StoredSound
<1>2. UserKnown /\ TokenNamesUser
  BY DEF Init, UserKnown, NoRequest, Running, RunningLabels, TokenNamesUser
<1> QED BY <1>1, <1>2
        DEF Init, StoreInv, GallerySound, MemoryNamed, MemoryIsDisk, IdDescribesGallery

\* Memory, directories and ids agree through enrolments, removals, switches of
\* the group and openings: what the three theorems below rest on (enroll_worker,
\* fingerprint_remove, fingerprint_set_active_group).
THEOREM StoreInductive == ASSUME Reliable PROVE Spec => []StoreInv
<1>1. Inv /\ Inv' /\ RequestInv /\ StoreInv /\ [Next]_vars => StoreInv'
  BY StoreStep
<1> QED BY <1>1, StoreInit, Inductive, ResultInductive, PTL DEF Spec

\* The id that the framework reads was drawn for the very fingers in memory:
\* a change of the enrolled set is always seen as another id
\* (rotate_authenticator_locked, load_metadata_locked).
THEOREM IdNamesGallery == ASSUME Reliable PROVE Spec => []IdDescribesGallery
<1>1. StoreInv => IdDescribesGallery
  BY DEF StoreInv, GallerySound
<1> QED BY <1>1, StoreInductive, PTL

\* Every token of a match names a user and an authenticator, also across
\* switches of the group and openings of the device
\* (send_authentication_success).
THEOREM TokensNameUser == ASSUME Reliable PROVE Spec => []TokenNamesUser
<1>1. StoreInv => TokenNamesUser
  BY DEF StoreInv
<1> QED BY <1>1, StoreInductive, PTL

\* What the HAL holds is what a restarted one would load, but for the moment
\* between the write of a template and its commit (enroll_worker,
\* fingerprint_remove, fingerprint_set_active_group).
THEOREM MemoryMirrorsDisk == ASSUME Reliable PROVE Spec => []MemoryIsDisk
<1>1. StoreInv => MemoryIsDisk
  BY DEF StoreInv, GallerySound
<1> QED BY <1>1, StoreInductive, PTL
=============================================================================
