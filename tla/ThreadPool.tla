----------------------------- MODULE ThreadPool ------------------------------
(***************************************************************************)
(* ThreadPool: an owner thread sends jobs into a channel, workers take     *)
(* them out under a mutex that they hold while they wait for a message     *)
(* (the guard of receiver.lock() lives to the end of the statement), and   *)
(* drop() sends one Terminate per worker and joins the threads in order.   *)
(***************************************************************************)
EXTENDS Integers, Sequences, FiniteSets

CONSTANTS Workers,       \* number of workers, size
          MaxJobs,       \* bound: jobs the owner submits
          JobsMayPanic,  \* may a job panic?
          Terminate      \* Message::Terminate; Message::NewJob is the job's number

ASSUME PoolAssumption ==
  Workers \in Nat \ {0} /\ MaxJobs \in Nat /\ JobsMayPanic \in BOOLEAN /\ Terminate \notin Nat

VARIABLES queue,    \* the channel
          state,    \* worker -> "lock", "recv" (holds the mutex), "run", "exited" or "dead"
          job,      \* worker -> the job it runs, or 0
          owner,    \* "open", "terminating", "joining", "closed" or "panicked"
          sent,     \* jobs submitted; then Terminate messages sent or threads joined
          step,     \* ... by drop()
          started,  \* the jobs, in the order they were taken
          finished  \* the jobs that ran to their end or panicked

vars == <<queue, state, job, owner, sent, step, started, finished>>

W == 1..Workers

\* The receiver lives as long as a worker has a clone of its Arc.
ReceiverAlive == \E w \in W : state[w] \notin {"exited", "dead"}
------------------------------------------------------------------------------
Init ==
  /\ queue = <<>>
  /\ state = [w \in W |-> "lock"] /\ job = [w \in W |-> 0]
  /\ owner = "open" /\ sent = 0 /\ step = 0
  /\ started = <<>> /\ finished = {}

\* execute: sender.send(...).unwrap()
Execute ==
  /\ owner = "open" /\ sent < MaxJobs
  /\ IF ReceiverAlive
     THEN queue' = Append(queue, sent + 1) /\ sent' = sent + 1 /\ UNCHANGED owner
     ELSE owner' = "panicked" /\ UNCHANGED <<queue, sent>>
  /\ UNCHANGED <<state, job, step, started, finished>>

\* drop begins, at any time.
Drop ==
  /\ owner = "open"
  /\ owner' = "terminating"
  /\ UNCHANGED <<queue, state, job, sent, step, started, finished>>

\* Mutant of SendTerminate: one Terminate too few.
SendTerminateLess ==
  /\ owner = "terminating"
  /\ IF ReceiverAlive
     THEN IF step + 1 = Workers
          THEN owner' = "joining" /\ step' = 0 /\ UNCHANGED queue
          ELSE queue' = Append(queue, Terminate) /\ step' = step + 1 /\ UNCHANGED owner
     ELSE owner' = "panicked" /\ UNCHANGED <<queue, step>>
  /\ UNCHANGED <<state, job, sent, started, finished>>

\* drop: one Terminate for each worker, sender.send(...).unwrap()
SendTerminate ==
  /\ owner = "terminating"
  /\ IF ReceiverAlive
     THEN /\ queue' = Append(queue, Terminate)
          /\ owner' = IF step + 1 = Workers THEN "joining" ELSE owner
          /\ step' = IF step + 1 = Workers THEN 0 ELSE step + 1
     ELSE owner' = "panicked" /\ UNCHANGED <<queue, step>>
  /\ UNCHANGED <<state, job, sent, started, finished>>

\* Mutant of Join: the last worker is not waited for.
JoinLess ==
  /\ owner = "joining" /\ state[step + 1] \in {"exited", "dead"}
  /\ owner' = IF state[step + 1] = "dead" THEN "panicked"
              ELSE IF step + 2 >= Workers THEN "closed" ELSE owner
  /\ step' = step + 1
  /\ UNCHANGED <<queue, state, job, sent, started, finished>>

\* thread.join().unwrap() of the next worker
Join ==
  /\ owner = "joining" /\ state[step + 1] \in {"exited", "dead"}
  /\ owner' = IF state[step + 1] = "dead" THEN "panicked"
              ELSE IF step + 1 = Workers THEN "closed" ELSE owner
  /\ step' = step + 1
  /\ UNCHANGED <<queue, state, job, sent, started, finished>>

Lock(w) ==
  /\ state[w] = "lock" /\ \A v \in W : state[v] # "recv"
  /\ state' = [state EXCEPT ![w] = "recv"]
  /\ UNCHANGED <<queue, job, owner, sent, step, started, finished>>

\* Mutant of Recv: the newest message first.
RecvNewest(w) ==
  /\ state[w] = "recv" /\ queue # <<>>
  /\ queue' = SubSeq(queue, 1, Len(queue) - 1)
  /\ LET msg == queue[Len(queue)]
     IN  IF msg = Terminate
         THEN state' = [state EXCEPT ![w] = "exited"] /\ UNCHANGED <<job, started>>
         ELSE /\ state' = [state EXCEPT ![w] = "run"] /\ job' = [job EXCEPT ![w] = msg]
              /\ started' = Append(started, msg)
  /\ UNCHANGED <<owner, sent, step, finished>>

\* recv() returns; the guard is dropped before the job runs.
Recv(w) ==
  /\ state[w] = "recv" /\ queue # <<>>
  /\ queue' = Tail(queue)
  /\ LET msg == Head(queue)
     IN  IF msg = Terminate
         THEN state' = [state EXCEPT ![w] = "exited"] /\ UNCHANGED <<job, started>>
         ELSE /\ state' = [state EXCEPT ![w] = "run"] /\ job' = [job EXCEPT ![w] = msg]
              /\ started' = Append(started, msg)
  /\ UNCHANGED <<owner, sent, step, finished>>

\* job.call_box() returns, or panics and ends the thread.
Finish(w) ==
  /\ state[w] = "run"
  /\ finished' = finished \cup {job[w]} /\ job' = [job EXCEPT ![w] = 0]
  /\ \/ state' = [state EXCEPT ![w] = "lock"]
     \/ JobsMayPanic /\ state' = [state EXCEPT ![w] = "dead"]
  /\ UNCHANGED <<queue, owner, sent, step, started>>

OwnerStep == Execute \/ Drop \/ SendTerminate \/ Join
WorkerStep(w) == Lock(w) \/ Recv(w) \/ Finish(w)

Next == OwnerStep \/ \E w \in W : WorkerStep(w)

Spec == Init /\ [][Next]_vars

\* Every thread runs; who gets the mutex is up to the scheduler.
FairSpec == Spec /\ WF_vars(SendTerminate \/ Join) /\ \A w \in W : WF_vars(WorkerStep(w))
------------------------------------------------------------------------------
(* Properties *)

(***************************************************************************)
(* Jobs are taken in the order of execute, each by one worker: the jobs    *)
(* taken, then those in the channel, are the jobs submitted, and the       *)
(* Terminate messages come after them.  With several workers at one        *)
(* channel no job is taken twice, skipped or lost.                         *)
(***************************************************************************)
JobsAreTakenInOrder ==
  /\ \A i \in 1..Len(started) : started[i] = i
  /\ \A i \in 1..Len(queue) :
       queue[i] = IF Len(started) + i <= sent THEN Len(started) + i ELSE Terminate
  /\ Len(started) <= sent /\ sent <= Len(started) + Len(queue)

(***************************************************************************)
(* drop() returns only when every job submitted has run, because the       *)
(* Terminate messages queue up behind the jobs and drop joins every        *)
(* worker.  A worker that a job killed makes drop panic instead.           *)
(***************************************************************************)
CloseWaitsForJobs ==
  owner = "closed" =>
    finished = 1..sent /\ queue = <<>> /\ \A w \in W : state[w] = "exited"

(***************************************************************************)
(* drop() comes to its end, even with workers that died of a panic: a      *)
(* worker that waits in recv() with the mutex held never blocks the        *)
(* others for ever.                                                        *)
(***************************************************************************)
DropReturns == owner = "terminating" ~> owner \in {"closed", "panicked"}

------------------------------------------------------------------------------
(* The inductive invariant behind the first two properties. *)

PoolTypes ==
  /\ queue \in Seq(Nat \cup {Terminate}) /\ started \in Seq(Nat) /\ finished \in SUBSET Nat
  /\ state \in [W -> {"lock", "recv", "run", "exited", "dead"}] /\ job \in [W -> Nat]
  /\ owner \in {"open", "terminating", "joining", "closed", "panicked"}
  /\ sent \in Nat /\ step \in 0..Workers

Exited == {w \in W : state[w] = "exited"}

\* A job that was taken is finished or run by a worker.
TakenJobsAreRun ==
  /\ finished \subseteq 1..Len(started)
  /\ \A w \in W : state[w] = "run" => job[w] \in 1..Len(started)
  /\ \A j \in 1..Len(started) : j \in finished \/ \E w \in W : state[w] = "run" /\ job[w] = j

TerminatesSent == IF owner = "open" THEN 0 ELSE IF owner = "terminating" THEN step ELSE Workers

\* A Terminate is in the channel or has ended a worker, which happens when
\* all jobs are taken.
TerminatesAreCounted ==
  /\ owner # "panicked" =>
       Cardinality(Exited) + Len(started) + Len(queue) = TerminatesSent + sent
  /\ Exited # {} => owner # "open" /\ Len(started) = sent

\* The threads that drop() has joined have exited.
JoinedHaveExited ==
  /\ owner = "open" => step = 0
  /\ owner \in {"terminating", "joining"} => step < Workers
  /\ owner = "joining" => \A w \in 1..step : w \in Exited
  /\ owner = "closed" => Exited = W

PoolInv ==
  PoolTypes /\ JobsAreTakenInOrder /\ TakenJobsAreRun /\ TerminatesAreCounted /\ JoinedHaveExited
==============================================================================
