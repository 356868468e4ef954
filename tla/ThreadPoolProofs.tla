-------------------------- MODULE ThreadPoolProofs ---------------------------
(***************************************************************************)
(* The order of the jobs and the wait of drop(), for every number of       *)
(* workers and jobs.                                                       *)
(***************************************************************************)
EXTENDS ThreadPool, FiniteSetTheorems, TLAPS

\* A step that leaves the channel and what was sent and taken alone leaves the
\* order of the jobs alone.
LEMMA SameJobs ==
  ASSUME JobsAreTakenInOrder, UNCHANGED <<queue, started, sent>>
  PROVE  JobsAreTakenInOrder'
BY DEF JobsAreTakenInOrder

\* The workers are finitely many, and so are those that have exited.
LEMMA ExitedIsFinite ==
  ASSUME PoolTypes
  PROVE  /\ IsFiniteSet(W) /\ Cardinality(W) = Workers
         /\ IsFiniteSet(Exited) /\ Cardinality(Exited) \in Nat
         /\ Cardinality(Exited) = Workers => Exited = W
<1>1. IsFiniteSet(W) /\ Cardinality(W) = Workers
  BY PoolAssumption, FS_Interval DEF W
<1>2. Exited \in SUBSET W
  BY DEF Exited
<1> QED
  BY <1>1, <1>2, FS_Subset, FS_CardinalityType

\* At the start there are no jobs.
LEMMA PoolInit == Init => PoolInv
<1> SUFFICES ASSUME Init PROVE PoolInv
  OBVIOUS
<1>1. PoolTypes
  BY PoolAssumption DEF Init, PoolTypes
<1>2. Exited = {}
  BY DEF Init, Exited
<1>3. JobsAreTakenInOrder /\ TakenJobsAreRun /\ JoinedHaveExited
  BY DEF Init, JobsAreTakenInOrder, TakenJobsAreRun, JoinedHaveExited
<1>4. TerminatesAreCounted
  BY <1>2, FS_EmptySet DEF Init, TerminatesAreCounted, TerminatesSent
<1> QED
  BY <1>1, <1>3, <1>4 DEF PoolInv

\* execute() puts the next job behind the others.
LEMMA ExecuteInv == PoolInv /\ Execute => PoolInv'
<1> SUFFICES ASSUME PoolInv, Execute PROVE PoolInv'
  OBVIOUS
<1> USE DEF PoolInv
<1>0. owner = "open" /\ Exited' = Exited /\ state' = state /\ started' = started
      /\ finished' = finished /\ job' = job /\ step' = step
  BY DEF Execute, Exited
<1>1. Exited = {} /\ Cardinality(Exited) = 0
  BY <1>0, FS_EmptySet DEF TerminatesAreCounted
<1>2. Len(started) + Len(queue) = sent
  BY <1>0, <1>1 DEF TerminatesAreCounted, TerminatesSent, PoolTypes
<1>3. PoolTypes'
  <2>1. sent + 1 \in Nat /\ queue' \in Seq(Nat \cup {Terminate}) /\ sent' \in Nat
    <3>1. sent + 1 \in Nat
      BY DEF PoolTypes
    <3>2. Append(queue, sent + 1) \in Seq(Nat \cup {Terminate})
      BY <3>1 DEF PoolTypes
    <3> QED
      BY Zenon, <3>1, <3>2 DEF Execute, PoolTypes
  <2>2. owner' \in {"open", "terminating", "joining", "closed", "panicked"}
    BY DEF PoolTypes, Execute
  <2> QED
    BY <1>0, <2>1, <2>2 DEF PoolTypes
<1>4. TakenJobsAreRun' /\ JoinedHaveExited'
  BY <1>0 DEF TakenJobsAreRun, JoinedHaveExited, Execute
<1>5. CASE ReceiverAlive
  <2>1. queue' = Append(queue, sent + 1) /\ sent' = sent + 1 /\ owner' = owner
    BY <1>5 DEF Execute
  <2>2. /\ Len(queue') = Len(queue) + 1 /\ queue'[Len(queue) + 1] = sent + 1
        /\ \A i \in 1..Len(queue) : queue'[i] = queue[i]
    BY <2>1 DEF PoolTypes
  <2>3. \A i \in 1..Len(queue) : queue[i] = Len(started) + i
    BY <1>2 DEF JobsAreTakenInOrder, PoolTypes
  <2>4. JobsAreTakenInOrder'
    BY <1>0, <1>2, <2>1, <2>2, <2>3 DEF JobsAreTakenInOrder, PoolTypes
  <2>5. Exited' = {} /\ Cardinality(Exited') = 0 /\ TerminatesSent' = 0
    BY <1>0, <1>1, <2>1 DEF TerminatesSent
  <2>6. 0 + Len(started') + Len(queue') = 0 + sent'
    BY <1>0, <1>2, <2>1, <2>2 DEF PoolTypes
  <2>7. TerminatesAreCounted'
    BY <2>5, <2>6 DEF TerminatesAreCounted
  <2> QED
    BY <1>3, <1>4, <2>4, <2>7
<1>6. CASE ~ReceiverAlive
  <2>1. UNCHANGED <<queue, sent, started>> /\ owner' = "panicked"
    BY <1>6, <1>0 DEF Execute
  <2>2. JobsAreTakenInOrder'
    BY <2>1, SameJobs
  <2>3. TerminatesAreCounted'
    BY <1>0, <1>1, <2>1 DEF TerminatesAreCounted
  <2> QED
    BY <1>3, <1>4, <2>2, <2>3
<1> QED
  BY <1>5, <1>6

\* drop() begins.
LEMMA DropInv == PoolInv /\ Drop => PoolInv'
<1> SUFFICES ASSUME PoolInv, Drop PROVE PoolInv'
  OBVIOUS
<1> USE DEF PoolInv
<1>1. Exited' = Exited /\ JobsAreTakenInOrder' /\ PoolTypes' /\ TakenJobsAreRun'
  BY SameJobs DEF Drop, Exited, PoolTypes, TakenJobsAreRun
<1>2. step = 0 /\ step' = 0 /\ owner = "open" /\ owner' = "terminating"
  BY DEF Drop, JoinedHaveExited
<1>3. TerminatesSent' = TerminatesSent /\ UNCHANGED <<queue, started, sent>>
  BY <1>2 DEF Drop, TerminatesSent
<1>4. TerminatesAreCounted'
  BY <1>1, <1>2, <1>3 DEF TerminatesAreCounted
<1>5. JoinedHaveExited'
  BY <1>2, PoolAssumption DEF JoinedHaveExited
<1> QED
  BY <1>1, <1>4, <1>5

\* drop() puts a Terminate behind the jobs and the other Terminates.
LEMMA SendTerminateInv == PoolInv /\ SendTerminate => PoolInv'
<1> SUFFICES ASSUME PoolInv, SendTerminate PROVE PoolInv'
  OBVIOUS
<1> USE DEF PoolInv
<1>0. owner = "terminating" /\ Exited' = Exited /\ state' = state /\ started' = started
      /\ finished' = finished /\ job' = job /\ sent' = sent
  BY DEF SendTerminate, Exited
<1>1. TakenJobsAreRun'
  BY <1>0 DEF TakenJobsAreRun
<1>2. step < Workers /\ step \in Nat
  BY <1>0 DEF JoinedHaveExited, PoolTypes
<1>3. PoolTypes'
  <2>1. Append(queue, Terminate) \in Seq(Nat \cup {Terminate})
    BY DEF PoolTypes
  <2>2. queue' \in Seq(Nat \cup {Terminate})
    BY Zenon, <2>1 DEF PoolTypes, SendTerminate
  <2>3. step' \in 0..Workers
    BY <1>2, PoolAssumption DEF SendTerminate
  <2>4. owner' \in {"open", "terminating", "joining", "closed", "panicked"}
    BY DEF PoolTypes, SendTerminate
  <2> QED
    BY <1>0, <2>2, <2>3, <2>4 DEF PoolTypes
<1>4. JoinedHaveExited'
  BY <1>0, <1>2, PoolAssumption DEF JoinedHaveExited, SendTerminate
<1>5. CASE ReceiverAlive
  <2>1. queue' = Append(queue, Terminate)
    BY <1>5 DEF SendTerminate
  <2>2. /\ Len(queue') = Len(queue) + 1 /\ queue'[Len(queue) + 1] = Terminate
        /\ \A i \in 1..Len(queue) : queue'[i] = queue[i]
    BY <2>1 DEF PoolTypes
  <2>3. JobsAreTakenInOrder'
    BY SMTT(30), <1>0, <2>2 DEF JobsAreTakenInOrder, PoolTypes
  <2>4. TerminatesSent' = TerminatesSent + 1
    BY Zenon, <1>0, <1>2, <1>5, PoolAssumption DEF SendTerminate, TerminatesSent
  <2>5. TerminatesSent \in Nat
    BY <1>0, <1>2 DEF TerminatesSent
  <2>6. owner' # "open" /\ owner' # "panicked"
    BY <1>0, <1>5 DEF SendTerminate
  <2>7. TerminatesAreCounted'
    BY <1>0, <2>2, <2>4, <2>5, <2>6, ExitedIsFinite DEF TerminatesAreCounted, PoolTypes
  <2> QED
    BY <1>1, <1>3, <1>4, <2>3, <2>7
<1>6. CASE ~ReceiverAlive
  <2>1. UNCHANGED <<queue, sent, started>> /\ owner' = "panicked"
    BY <1>6, <1>0 DEF SendTerminate
  <2>2. JobsAreTakenInOrder'
    BY <2>1, SameJobs
  <2>3. TerminatesAreCounted'
    BY <1>0, <2>1 DEF TerminatesAreCounted
  <2> QED
    BY <1>1, <1>3, <1>4, <2>2, <2>3
<1> QED
  BY <1>5, <1>6

\* A join that succeeds adds a worker to those that have exited.
LEMMA JoinInv == PoolInv /\ Join => PoolInv'
<1> SUFFICES ASSUME PoolInv, Join PROVE PoolInv'
  OBVIOUS
<1> USE DEF PoolInv
<1>0. owner = "joining" /\ Exited' = Exited /\ step' = step + 1
      /\ UNCHANGED <<queue, state, job, sent, started, finished>>
  BY DEF Join, Exited
<1>1. JobsAreTakenInOrder' /\ TakenJobsAreRun'
  BY <1>0, SameJobs DEF TakenJobsAreRun
<1>2. step < Workers /\ step \in Nat /\ step + 1 \in W
  BY <1>0, PoolAssumption DEF JoinedHaveExited, PoolTypes, W
<1>3. PoolTypes'
  BY <1>2, PoolAssumption DEF PoolTypes, Join
<1>4. TerminatesAreCounted'
  BY <1>0 DEF Join, TerminatesAreCounted, TerminatesSent
<1>5. JoinedHaveExited'
  <2>1. CASE state[step + 1] = "dead"
    BY <2>1 DEF Join, JoinedHaveExited
  <2>2. CASE state[step + 1] = "exited"
    <3>1. step + 1 \in Exited
      BY <1>2, <2>2 DEF Exited
    <3>2. \A w \in 1..(step + 1) : w \in Exited
      BY <1>0, <1>2, <3>1 DEF JoinedHaveExited
    <3>3. owner' = IF step + 1 = Workers THEN "closed" ELSE "joining"
      BY <1>0, <2>2 DEF Join
    <3>4. step + 1 = Workers => Exited = W
      BY <3>2 DEF W, Exited
    <3> QED
      BY <1>0, <1>2, <3>2, <3>3, <3>4, PoolAssumption DEF JoinedHaveExited
  <2> QED
    BY <2>1, <2>2 DEF Join
<1> QED
  BY <1>1, <1>3, <1>4, <1>5

\* A worker takes the mutex.
LEMMA LockInv == ASSUME NEW w \in W, PoolInv, Lock(w) PROVE PoolInv'
<1> USE DEF PoolInv
<1>0. state[w] = "lock" /\ state' = [state EXCEPT ![w] = "recv"]
      /\ UNCHANGED <<queue, job, owner, sent, step, started, finished>>
  BY DEF Lock
<1>1. \A v \in W : state'[v] = IF v = w THEN "recv" ELSE state[v]
  BY <1>0 DEF PoolTypes
<1>2. Exited' = Exited
  BY <1>0, <1>1 DEF Exited
<1>3. JobsAreTakenInOrder' /\ PoolTypes'
  BY <1>0, SameJobs DEF PoolTypes
<1>4. TakenJobsAreRun'
  BY <1>0, <1>1 DEF TakenJobsAreRun
<1>5. TerminatesAreCounted' /\ JoinedHaveExited'
  BY <1>0, <1>2 DEF TerminatesAreCounted, TerminatesSent, JoinedHaveExited
<1> QED
  BY <1>3, <1>4, <1>5

\* A job ends: it is finished, and its worker goes on or dies.
LEMMA FinishInv == ASSUME NEW w \in W, PoolInv, Finish(w) PROVE PoolInv'
<1> USE DEF PoolInv
<1>0. /\ state[w] = "run" /\ job' = [job EXCEPT ![w] = 0]
      /\ state' = [state EXCEPT ![w] = "lock"] \/ state' = [state EXCEPT ![w] = "dead"]
      /\ finished' = finished \cup {job[w]}
      /\ UNCHANGED <<queue, owner, sent, step, started>>
  BY DEF Finish
<1>1. /\ \A v \in W \ {w} : state'[v] = state[v] /\ job'[v] = job[v]
      /\ state'[w] \in {"lock", "dead"}
  BY <1>0 DEF PoolTypes
<1>2. Exited' = Exited
  BY <1>0, <1>1 DEF Exited
<1>3. JobsAreTakenInOrder'
  BY <1>0, SameJobs
<1>4. PoolTypes'
  <2>1. job[w] \in Nat /\ finished' \in SUBSET Nat
    BY Zenon, <1>0 DEF PoolTypes
  <2>2. job' \in [W -> Nat]
    BY <1>0 DEF PoolTypes
  <2>3. state' \in [W -> {"lock", "recv", "run", "exited", "dead"}]
    BY Zenon, <1>0 DEF PoolTypes
  <2> QED
    BY <1>0, <2>1, <2>2, <2>3 DEF PoolTypes
<1>5. TakenJobsAreRun'
  <2>1. finished' \subseteq 1..Len(started')
    BY Zenon, <1>0 DEF TakenJobsAreRun
  <2>2. \A v \in W : state'[v] = "run" => job'[v] \in 1..Len(started')
    BY <1>0, <1>1 DEF TakenJobsAreRun
  <2>3. ASSUME NEW j \in 1..Len(started')
        PROVE  j \in finished' \/ \E v \in W : state'[v] = "run" /\ job'[v] = j
    <3>1. CASE j \in finished
      BY <1>0, <3>1
    <3>2. CASE \E v \in W : state[v] = "run" /\ job[v] = j
      <4>1. PICK v \in W : state[v] = "run" /\ job[v] = j
        BY <3>2
      <4>2. CASE v = w
        BY <1>0, <4>1, <4>2
      <4>3. CASE v # w
        BY <1>1, <4>1, <4>3
      <4> QED
        BY <4>2, <4>3
    <3> QED
      BY <1>0, <3>1, <3>2 DEF TakenJobsAreRun
  <2> QED
    BY <2>1, <2>2, <2>3 DEF TakenJobsAreRun
<1>6. TerminatesAreCounted' /\ JoinedHaveExited'
  BY <1>0, <1>2 DEF TerminatesAreCounted, TerminatesSent, JoinedHaveExited
<1> QED
  BY <1>3, <1>4, <1>5, <1>6

\* The head of the channel is the next job, or a Terminate when none is left.
LEMMA HeadOfChannel ==
  ASSUME PoolInv, queue # <<>>
  PROVE  /\ Len(queue) \in Nat \ {0} /\ Len(started) \in Nat
         /\ Head(queue) = IF Len(started) < sent THEN Len(started) + 1 ELSE Terminate
         /\ Tail(queue) \in Seq(Nat \cup {Terminate}) /\ Len(Tail(queue)) = Len(queue) - 1
         /\ \A i \in 1..(Len(queue) - 1) : Tail(queue)[i] = queue[i + 1]
<1> USE DEF PoolInv
<1>1. queue \in Seq(Nat \cup {Terminate}) /\ started \in Seq(Nat) /\ sent \in Nat
  BY DEF PoolTypes
<1>2. Len(queue) \in Nat \ {0} /\ Len(started) \in Nat
  BY <1>1
<1>3. Head(queue) = queue[1] /\ Tail(queue) \in Seq(Nat \cup {Terminate})
      /\ Len(Tail(queue)) = Len(queue) - 1
  BY <1>1
<1>4. \A i \in 1..(Len(queue) - 1) : Tail(queue)[i] = queue[i + 1]
  BY <1>1, <1>2
<1>5. queue[1] = IF Len(started) + 1 <= sent THEN Len(started) + 1 ELSE Terminate
  BY <1>2 DEF JobsAreTakenInOrder
<1> QED
  BY <1>1, <1>2, <1>3, <1>4, <1>5

\* A worker takes the next job.
LEMMA RecvJobInv ==
  ASSUME NEW w \in W, PoolInv, Recv(w), Head(queue) # Terminate
  PROVE  PoolInv'
<1> USE DEF PoolInv
<1> DEFINE n == Len(started)
<1>0. /\ state[w] = "recv" /\ queue # <<>> /\ queue' = Tail(queue)
      /\ state' = [state EXCEPT ![w] = "run"] /\ job' = [job EXCEPT ![w] = Head(queue)]
      /\ started' = Append(started, Head(queue))
      /\ UNCHANGED <<owner, sent, step, finished>>
  BY DEF Recv
<1>1. n \in Nat /\ sent \in Nat /\ n < sent /\ Head(queue) = n + 1 /\ n + 1 \in Nat
  BY <1>0, HeadOfChannel DEF PoolTypes
<1>2. /\ started' \in Seq(Nat) /\ Len(started') = n + 1 /\ started'[n + 1] = n + 1
      /\ \A i \in 1..n : started'[i] = started[i]
  BY <1>0, <1>1 DEF PoolTypes
<1>3. /\ \A v \in W \ {w} : state'[v] = state[v] /\ job'[v] = job[v]
      /\ state'[w] = "run" /\ job'[w] = n + 1
  BY <1>0, <1>1 DEF PoolTypes
<1>4. Exited' = Exited /\ Exited = {}
  BY <1>0, <1>1, <1>3 DEF Exited, TerminatesAreCounted
<1>5. PoolTypes'
  <2>1. job' \in [W -> Nat]
    BY <1>0, <1>1 DEF PoolTypes
  <2>2. state' \in [W -> {"lock", "recv", "run", "exited", "dead"}]
    BY <1>0 DEF PoolTypes
  <2> QED
    BY <1>0, <1>2, <2>1, <2>2, HeadOfChannel DEF PoolTypes
<1>6. JobsAreTakenInOrder'
  <2>1. \A i \in 1..Len(started') : started'[i] = i
    BY <1>1, <1>2 DEF JobsAreTakenInOrder
  <2>2. Len(queue') = Len(queue) - 1 /\ Len(queue) \in Nat
    BY <1>0, HeadOfChannel
  <2>3. ASSUME NEW i \in 1..Len(queue')
        PROVE  queue'[i] = IF n + 1 + i <= sent THEN n + 1 + i ELSE Terminate
    <3>1. i + 1 \in 1..Len(queue) /\ i \in 1..(Len(queue) - 1)
      BY <2>2
    <3>2. queue'[i] = queue[i + 1]
      BY <1>0, <3>1, HeadOfChannel
    <3>3. queue[i + 1] = IF n + (i + 1) <= sent THEN n + (i + 1) ELSE Terminate
      BY <3>1 DEF JobsAreTakenInOrder
    <3> QED
      BY <1>1, <3>1, <3>2, <3>3
  <2>4. Len(started') <= sent' /\ sent' <= Len(started') + Len(queue')
    BY <1>0, <1>1, <1>2, <2>2 DEF JobsAreTakenInOrder
  <2> QED
    BY <1>0, <1>2, <2>1, <2>3, <2>4 DEF JobsAreTakenInOrder
<1>7. TakenJobsAreRun'
  <2>1. finished' \subseteq 1..Len(started')
    BY <1>0, <1>1, <1>2 DEF TakenJobsAreRun
  <2>2. \A v \in W : state'[v] = "run" => job'[v] \in 1..Len(started')
    BY <1>1, <1>2, <1>3 DEF TakenJobsAreRun
  <2>3. ASSUME NEW j \in 1..Len(started')
        PROVE  j \in finished' \/ \E v \in W : state'[v] = "run" /\ job'[v] = j
    <3>1. CASE j = n + 1
      BY <1>3, <3>1
    <3>2. CASE j \in 1..n
      BY <1>0, <1>3, <3>2 DEF TakenJobsAreRun
    <3> QED
      BY <1>1, <1>2, <3>1, <3>2
  <2> QED
    BY <2>1, <2>2, <2>3 DEF TakenJobsAreRun
<1>8. TerminatesAreCounted'
  <2>1. Len(started') + Len(queue') = n + Len(queue) /\ TerminatesSent' = TerminatesSent
    BY <1>0, <1>1, <1>2, HeadOfChannel DEF TerminatesSent
  <2>2. Cardinality(Exited) \in Nat /\ Len(queue') \in Nat /\ Len(started') \in Nat
        /\ Len(queue) \in Nat
    BY <1>0, <1>1, <1>2, ExitedIsFinite, HeadOfChannel
  <2> QED
    BY <1>0, <1>1, <1>4, <2>1, <2>2 DEF TerminatesAreCounted
<1>9. JoinedHaveExited'
  BY <1>0, <1>4 DEF JoinedHaveExited
<1> QED
  BY <1>5, <1>6, <1>7, <1>8, <1>9

\* A worker takes a Terminate and exits.
LEMMA RecvTerminateInv ==
  ASSUME NEW w \in W, PoolInv, Recv(w), Head(queue) = Terminate
  PROVE  PoolInv'
<1> USE DEF PoolInv
<1> DEFINE n == Len(started)
<1>0. /\ state[w] = "recv" /\ queue # <<>> /\ queue' = Tail(queue)
      /\ state' = [state EXCEPT ![w] = "exited"]
      /\ UNCHANGED <<job, started, owner, sent, step, finished>>
  BY DEF Recv
<1>1. n \in Nat /\ sent \in Nat /\ n = sent
  <2>1. n \in Nat /\ sent \in Nat /\ n <= sent
    BY DEF PoolTypes, JobsAreTakenInOrder
  <2>2. ~(n < sent)
    BY <1>0, <2>1, HeadOfChannel, PoolAssumption
  <2> QED
    BY <2>1, <2>2
<1>2. /\ \A v \in W \ {w} : state'[v] = state[v]
      /\ state'[w] = "exited"
  BY <1>0 DEF PoolTypes
<1>3. Exited' = Exited \cup {w} /\ w \notin Exited
  BY <1>0, <1>2 DEF Exited
<1>4. Cardinality(Exited') = Cardinality(Exited) + 1 /\ Cardinality(Exited) \in Nat
  BY Zenon, <1>3, ExitedIsFinite, FS_AddElement
<1>5. Len(queue') = Len(queue) - 1 /\ Len(queue) \in Nat \ {0} /\ Len(queue') \in Nat
  BY <1>0, HeadOfChannel
<1>6. PoolTypes'
  <2>1. state' \in [W -> {"lock", "recv", "run", "exited", "dead"}]
    BY <1>0 DEF PoolTypes
  <2> QED
    BY <1>0, <2>1, HeadOfChannel DEF PoolTypes
<1>7. JobsAreTakenInOrder'
  <2>1. ASSUME NEW i \in 1..Len(queue')
        PROVE  queue'[i] = IF n + i <= sent THEN n + i ELSE Terminate
    <3>1. i + 1 \in 1..Len(queue) /\ i \in 1..(Len(queue) - 1)
      BY <1>5
    <3>2. queue'[i] = queue[i + 1]
      BY <1>0, <3>1, HeadOfChannel
    <3>3. queue[i + 1] = IF n + (i + 1) <= sent THEN n + (i + 1) ELSE Terminate
      BY <3>1 DEF JobsAreTakenInOrder
    <3> QED
      BY <1>1, <3>1, <3>2, <3>3
  <2> QED
    BY <1>0, <1>1, <1>5, <2>1 DEF JobsAreTakenInOrder
<1>8. TakenJobsAreRun'
  BY <1>0, <1>2 DEF TakenJobsAreRun
<1>9. TerminatesAreCounted'
  <2>1. owner # "open"
    <3>1. SUFFICES ASSUME owner = "open" PROVE FALSE
      OBVIOUS
    <3>2. Cardinality(Exited) + n + Len(queue) = 0 + sent
      BY <3>1 DEF TerminatesAreCounted, TerminatesSent
    <3> QED
      BY <1>1, <1>4, <1>5, <3>2
  <2>2. TerminatesSent' = TerminatesSent
    BY <1>0 DEF TerminatesSent
  <2>3. Cardinality(Exited') + Len(started') + Len(queue') = Cardinality(Exited) + n + Len(queue)
    BY <1>0, <1>1, <1>4, <1>5
  <2> QED
    BY <1>0, <1>1, <2>1, <2>2, <2>3 DEF TerminatesAreCounted
<1>10. JoinedHaveExited'
  BY <1>0, <1>3 DEF JoinedHaveExited, Exited
<1> QED
  BY <1>6, <1>7, <1>8, <1>9, <1>10

\* PoolInv holds in every state of the pool.
LEMMA PoolInvariant == Spec => []PoolInv
<1>1. ASSUME PoolInv, [Next]_vars PROVE PoolInv'
  <2>1. CASE OwnerStep
    BY <1>1, <2>1, ExecuteInv, DropInv, SendTerminateInv, JoinInv DEF OwnerStep
  <2>2. ASSUME NEW w \in W, WorkerStep(w) PROVE PoolInv'
    BY <1>1, <2>2, LockInv, RecvJobInv, RecvTerminateInv, FinishInv DEF WorkerStep
  <2>3. CASE UNCHANGED vars
    <3>1. Exited' = Exited /\ JobsAreTakenInOrder'
      BY <1>1, <2>3, SameJobs DEF vars, Exited, PoolInv
    <3>2. PoolTypes' /\ TakenJobsAreRun'
      BY <1>1, <2>3 DEF vars, PoolTypes, TakenJobsAreRun, PoolInv
    <3>3. TerminatesAreCounted' /\ JoinedHaveExited'
      BY <1>1, <2>3, <3>1
      DEF vars, TerminatesAreCounted, TerminatesSent, JoinedHaveExited, PoolInv
    <3> QED
      BY <3>1, <3>2, <3>3 DEF PoolInv
  <2> QED
    BY <1>1, <2>1, <2>2, <2>3 DEF Next
<1> QED
  BY <1>1, PoolInit, PTL DEF Spec

(***************************************************************************)
(* Jobs are taken in the order of execute(), each by one worker, and the   *)
(* Terminate messages stay behind them, whatever the number of workers and *)
(* jobs and whether or not jobs panic.                                     *)
(***************************************************************************)
THEOREM PoolTakesJobsInOrder == Spec => []JobsAreTakenInOrder
<1>1. PoolInv => JobsAreTakenInOrder
  BY DEF PoolInv
<1> QED
  BY <1>1, PoolInvariant, PTL

(***************************************************************************)
(* When drop() returns every job submitted has run, the channel is empty   *)
(* and every worker has exited.  The Terminate messages are counted: as    *)
(* many were sent as there are workers, each of which took one.            *)
(***************************************************************************)
THEOREM PoolCloseWaits == Spec => []CloseWaitsForJobs
<1>1. ASSUME PoolInv, owner = "closed"
      PROVE  finished = 1..sent /\ queue = <<>> /\ \A w \in W : state[w] = "exited"
  <2> USE <1>1 DEF PoolInv
  <2>1. Exited = W /\ \A w \in W : state[w] = "exited"
    BY DEF JoinedHaveExited, Exited
  <2>2. W # {}
    BY PoolAssumption DEF W
  <2>3. Len(started) = sent
    BY <2>1, <2>2 DEF TerminatesAreCounted
  <2>4. finished = 1..sent
    BY Zenon, <2>1, <2>3 DEF TakenJobsAreRun
  <2>5. Cardinality(Exited) = Workers
    BY <2>1, ExitedIsFinite
  <2>6. Workers + sent + Len(queue) = Workers + sent
    BY <2>3, <2>5 DEF TerminatesAreCounted, TerminatesSent
  <2>7. queue = <<>>
    BY <2>6, PoolAssumption DEF PoolTypes
  <2> QED
    BY <2>1, <2>4, <2>7
<1>2. PoolInv => CloseWaitsForJobs
  BY <1>1 DEF CloseWaitsForJobs
<1> QED
  BY <1>2, PoolInvariant, PTL
=============================================================================
