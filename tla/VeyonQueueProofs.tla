------------------------- MODULE VeyonQueueProofs -------------------------
(* That the journal covers every activation of the Hub, that the newest       *)
(* command is the one obeyed, and that stops always fit in the queue, for any *)
(* computers, features, queue bounds and number of workers.                   *)
EXTENDS VeyonQueue, FiniteSetTheorems, TLAPS

\* A change of the queue that starts no write and changes no job with a write in flight.
NoNewWrite ==
    \A i \in Ids, h \in Hosts :
        task'[<<i, h>>].pc = "execute" =>
            /\ task[<<i, h>>].pc = "execute"
            /\ job'[i].active = job[i].active /\ job'[i].feature = job[i].feature

\* The blank values are values of their types.
LEMMA Blanks == BlankJob \in Job /\ NoTask \in Task /\ Done \in Task /\ NoIntent \in Intent
  <1>1. \E f \in Features : TRUE
    BY QueueAssumption DEF Features
  <1>2. BlankJob \in Job
    BY <1>1 DEF BlankJob, Job
  <1>3. 0 \in 0..MaxAttempts
    BY QueueAssumption
  <1>5. NoTask \in Task
    BY <1>3 DEF NoTask, Task, TaskStates, Pending, Waiting, PCs
  <1>6. Done \in Task
    BY <1>5 DEF Done, Task, TaskStates
  <1>4. NoIntent \in Intent
    BY DEF NoIntent, Intent
  <1> QED BY <1>2, <1>4, <1>5, <1>6

\* Accepting a job keeps the bookkeeping and starts no write.
LEMMA AcceptQueue ==
  ASSUME QueueInv, intents \in [Keys -> Intent],
         NEW f \in Features, NEW active \in BOOLEAN, NEW targets \in SUBSET Hosts,
         NEW recovery \in BOOLEAN, NEW internal \in BOOLEAN, NEW observe \in BOOLEAN, NEW old,
         Accept(f, active, targets, recovery, internal, observe, old)
  PROVE  /\ QueueInv' /\ NoNewWrite
         /\ intents' \in [Keys -> Intent]
         /\ activeModes' \subseteq activeModes
  <1> DEFINE gone == Prunable(task, old)
             id == CHOOSE i \in Ids : i \notin Referenced
             wanted == NewIntents(id, f, active, targets, recovery, internal)
             sup == Superseded(f, active, targets, internal)
             prior == DropTasks(sup, gone)
  <1>1. id \in Ids /\ id \notin queue
    BY DEF Accept, Referenced
  <1>2. wanted \in [Keys -> Intent]
    BY <1>1 DEF NewIntents, Intent
  <1>3. sup \in [Ids \X Hosts -> Task]
    BY Blanks DEF Superseded, QueueInv, QueueTypeOK, Task
  <1>4. \A i \in Ids, h \in Hosts :
          \/ sup[<<i, h>>] = task[<<i, h>>]
          \/ task[<<i, h>>].state \in Waiting /\ sup[<<i, h>>] = Done
          \/ sup[<<i, h>>] = [task[<<i, h>>] EXCEPT !.stop = TRUE]
    BY DEF Superseded
  <1>5. /\ queue' = (queue \ gone) \cup {id}
        /\ before' = DropOrder(gone) \cup ((queue \ gone) \X {id})
        /\ job' = [DropJobs(job, gone) EXCEPT ![id] =
                     [feature |-> f, active |-> active, recovery |-> recovery,
                      observe |-> observe, internal |-> internal, expired |-> FALSE]]
        /\ intents' = wanted
        /\ task' = [p \in Ids \X Hosts |->
                      IF p[1] = id /\ p[2] \in targets
                        THEN [NoTask EXCEPT !.state = "queued", !.intent = wanted[<<p[2], f>>].id]
                        ELSE prior[p]]
        /\ activeModes' \subseteq activeModes
    BY DEF Accept
  <1> HIDE DEF gone, id, wanted, sup
  <1>6. job' \in [Ids -> Job]
    BY <1>1, <1>5, Blanks DEF DropJobs, QueueInv, QueueTypeOK, Job
  <1>7. \A i \in Ids, h \in Hosts :
          \/ i = id /\ h \in targets /\ task'[<<i, h>>].pc = "none" /\ task'[<<i, h>>].state = "queued"
             /\ task'[<<i, h>>] \in Task /\ task'[<<i, h>>].attempts = 0
          \/ ~(i = id /\ h \in targets) /\ i \in gone /\ task'[<<i, h>>] = NoTask
          \/ ~(i = id /\ h \in targets) /\ i \notin gone /\ task'[<<i, h>>] = sup[<<i, h>>]
    <2> SUFFICES ASSUME NEW i \in Ids, NEW h \in Hosts
                 PROVE  \/ i = id /\ h \in targets /\ task'[<<i, h>>].pc = "none"
                           /\ task'[<<i, h>>].state = "queued"
                           /\ task'[<<i, h>>] \in Task /\ task'[<<i, h>>].attempts = 0
                        \/ ~(i = id /\ h \in targets) /\ i \in gone /\ task'[<<i, h>>] = NoTask
                        \/ ~(i = id /\ h \in targets) /\ i \notin gone /\ task'[<<i, h>>] = sup[<<i, h>>]
      OBVIOUS
    <2>1. CASE i = id /\ h \in targets
      <3>1. task'[<<i, h>>] = [NoTask EXCEPT !.state = "queued", !.intent = wanted[<<h, f>>].id]
        BY <1>5, <2>1
      <3>2. wanted[<<h, f>>].id \in Ids \cup {NoId}
        BY <1>2 DEF Keys, Intent
      <3>3. NoTask \in Task /\ NoTask.pc = "none" /\ NoTask.attempts = 0
        BY Blanks DEF NoTask
      <3>4. "queued" \in TaskStates
        BY DEF TaskStates, Pending, Waiting
      <3> QED
        BY <2>1, <3>1, <3>2, <3>3, <3>4 DEF Task
    <2>2. CASE ~(i = id /\ h \in targets)
      <3>1. task'[<<i, h>>] = prior[<<i, h>>]
        BY <1>5, <2>2
      <3> QED
        BY <2>2, <3>1 DEF DropTasks
    <2> QED
      BY <2>1, <2>2
  <1>8. task' \in [Ids \X Hosts -> Task]
    <2>1. \A i \in Ids, h \in Hosts : task'[<<i, h>>] \in Task
      BY <1>3, <1>7, Blanks
    <2>2. DOMAIN task' = Ids \X Hosts /\ task' = [p \in Ids \X Hosts |-> task'[p]]
      BY <1>5
    <2> QED
      BY <2>1, <2>2
  <1>9. QueueTypeOK'
    <2>1. queue' \subseteq Ids
      BY <1>1, <1>5 DEF QueueInv, QueueTypeOK
    <2>2. before' \subseteq queue' \X queue'
      BY <1>5 DEF QueueInv, QueueTypeOK, DropOrder
    <2> QED
      BY <2>1, <2>2, <1>6, <1>8 DEF QueueTypeOK
  <1>10. \A i \in Ids, h \in Hosts :
           /\ task'[<<i, h>>].state = "running" => task[<<i, h>>].state = "running" /\ i \notin gone
           /\ task'[<<i, h>>].pc # "none" => task[<<i, h>>].pc = task'[<<i, h>>].pc /\ i \notin gone
           /\ i \notin queue' => task'[<<i, h>>].state = "none"
           /\ task'[<<i, h>>].state \in Waiting => task'[<<i, h>>].attempts < MaxAttempts
    <2> SUFFICES ASSUME NEW i \in Ids, NEW h \in Hosts
                 PROVE  /\ task'[<<i, h>>].state = "running" => task[<<i, h>>].state = "running" /\ i \notin gone
                        /\ task'[<<i, h>>].pc # "none" => task[<<i, h>>].pc = task'[<<i, h>>].pc /\ i \notin gone
                        /\ i \notin queue' => task'[<<i, h>>].state = "none"
                        /\ task'[<<i, h>>].state \in Waiting => task'[<<i, h>>].attempts < MaxAttempts
      OBVIOUS
    <2>1. NoTask.state = "none" /\ NoTask.pc = "none" /\ Done.state = "done" /\ Done.pc = "none"
      BY DEF NoTask, Done
    <2>2. "none" \notin Waiting /\ "done" \notin Waiting /\ "running" \notin Waiting
      BY DEF Waiting
    <2>3. 0 < MaxAttempts
      BY QueueAssumption
    <2>4. task[<<i, h>>] \in Task /\ [task[<<i, h>>] EXCEPT !.stop = TRUE].state = task[<<i, h>>].state
          /\ [task[<<i, h>>] EXCEPT !.stop = TRUE].pc = task[<<i, h>>].pc
          /\ [task[<<i, h>>] EXCEPT !.stop = TRUE].attempts = task[<<i, h>>].attempts
      BY DEF QueueInv, QueueTypeOK, Task
    <2>5. /\ i \notin queue => task[<<i, h>>].state = "none"
          /\ task[<<i, h>>].state \in Waiting => task[<<i, h>>].attempts < MaxAttempts
      BY DEF QueueInv
    <2>6. i \in queue' <=> i = id \/ (i \in queue /\ i \notin gone)
      BY <1>5
    <2>7. CASE i = id /\ h \in targets /\ task'[<<i, h>>].pc = "none" /\ task'[<<i, h>>].state = "queued"
               /\ task'[<<i, h>>].attempts = 0
      BY <2>7, <2>3, <2>6
    <2>8. CASE i \in gone /\ task'[<<i, h>>] = NoTask
      BY <2>8, <2>1, <2>2
    <2>9. CASE i \notin gone /\ task'[<<i, h>>] = sup[<<i, h>>]
      <3>1. CASE task'[<<i, h>>] = task[<<i, h>>]
        BY <3>1, <2>9, <2>5, <2>6
      <3>2. CASE task[<<i, h>>].state \in Waiting /\ task'[<<i, h>>] = Done
        BY <3>2, <2>9, <2>1, <2>2, <2>5, <2>6
      <3>3. CASE task'[<<i, h>>] = [task[<<i, h>>] EXCEPT !.stop = TRUE]
        <4>1. /\ task'[<<i, h>>].state = task[<<i, h>>].state
              /\ task'[<<i, h>>].pc = task[<<i, h>>].pc
              /\ task'[<<i, h>>].attempts = task[<<i, h>>].attempts
          BY <3>3, <2>4
        <4> QED
          BY <4>1, <2>9, <2>5, <2>6
      <3> QED
        BY <2>9, <1>4, <3>1, <3>2, <3>3
    <2> QED
      BY <1>7, <2>7, <2>8, <2>9
  <1>11. QueueInv'
    <2>1. \A i \in Ids, h \in Hosts : task'[<<i, h>>].pc # "none" => task'[<<i, h>>].state = "running"
      <3> SUFFICES ASSUME NEW i \in Ids, NEW h \in Hosts, task'[<<i, h>>].pc # "none"
                   PROVE  task'[<<i, h>>].state = "running"
        OBVIOUS
      <3>1. task[<<i, h>>].pc # "none" /\ task[<<i, h>>].state = "running"
        BY <1>10 DEF QueueInv
      <3>2. Done.pc = "none" /\ NoTask.pc = "none"
        BY DEF Done, NoTask
      <3>3. [task[<<i, h>>] EXCEPT !.stop = TRUE].state = task[<<i, h>>].state
        BY DEF QueueInv, QueueTypeOK, Task
      <3> QED
        BY <1>4, <1>7, <3>1, <3>2, <3>3
    <2> QED
      BY <1>9, <1>10, <2>1 DEF QueueInv
  <1>12. NoNewWrite
    <2> SUFFICES ASSUME NEW i \in Ids, NEW h \in Hosts, task'[<<i, h>>].pc = "execute"
                 PROVE  /\ task[<<i, h>>].pc = "execute"
                        /\ job'[i].active = job[i].active /\ job'[i].feature = job[i].feature
      BY DEF NoNewWrite
    <2>1. task[<<i, h>>].pc = "execute" /\ i \notin gone
      BY <1>10
    <2>2. i \in queue
      BY <2>1 DEF QueueInv
    <2>3. job'[i] = job[i]
      BY <1>1, <1>5, <2>1, <2>2 DEF DropJobs, QueueInv, QueueTypeOK
    <2> QED
      BY <2>1, <2>3
  <1> QED
    BY <1>2, <1>5, <1>11, <1>12

\* Dropping jobs, as a refused enqueue() does, is harmless to those that stay.
LEMMA PruneQueue ==
  ASSUME QueueInv, NEW gone,
         queue' = queue \ gone, before' = DropOrder(gone),
         job' = DropJobs(job, gone), task' = DropTasks(task, gone)
  PROVE  QueueInv' /\ NoNewWrite
  <1>1. /\ queue' = queue \ gone /\ before' = DropOrder(gone)
        /\ job' = DropJobs(job, gone) /\ task' = DropTasks(task, gone)
    OBVIOUS
  <1>2. \A i \in Ids, h \in Hosts :
          \/ i \in gone /\ task'[<<i, h>>] = NoTask
          \/ i \notin gone /\ task'[<<i, h>>] = task[<<i, h>>]
    BY <1>1 DEF DropTasks
  <1>3. NoTask.state = "none" /\ NoTask.pc = "none" /\ "none" \notin Waiting
    BY DEF NoTask, Waiting
  <1>4. QueueTypeOK'
    BY <1>1, Blanks DEF QueueInv, QueueTypeOK, DropOrder, DropJobs, DropTasks
  <1>5. QueueInv'
    BY <1>1, <1>2, <1>3, <1>4 DEF QueueInv
  <1>6. NoNewWrite
    <2> SUFFICES ASSUME NEW i \in Ids, NEW h \in Hosts, task'[<<i, h>>].pc = "execute"
                 PROVE  /\ task[<<i, h>>].pc = "execute"
                        /\ job'[i].active = job[i].active /\ job'[i].feature = job[i].feature
      BY DEF NoNewWrite
    <2>1. i \notin gone /\ task[<<i, h>>].pc = "execute"
      BY <1>2, <1>3
    <2>2. job'[i] = job[i]
      BY <1>1, <2>1 DEF DropJobs
    <2> QED
      BY <2>1, <2>2
  <1> QED
    BY <1>5, <1>6

\* enqueue(), accepted or refused.
LEMMA EnqueueQueue ==
  ASSUME QueueInv, intents \in [Keys -> Intent],
         NEW f \in Features, NEW active \in BOOLEAN, NEW targets \in SUBSET Hosts,
         NEW recovery \in BOOLEAN, NEW internal \in BOOLEAN, NEW observe \in BOOLEAN,
         Enqueue(f, active, targets, recovery, internal, observe)
  PROVE  /\ QueueInv' /\ NoNewWrite
         /\ intents' \in [Keys -> Intent]
         /\ activeModes' \subseteq activeModes
  <1>1. PICK old : \/ Accept(f, active, targets, recovery, internal, observe, old)
                   \/ Refuse(targets, old)
    BY DEF Enqueue
  <1>2. CASE Accept(f, active, targets, recovery, internal, observe, old)
    BY <1>2, AcceptQueue
  <1>3. CASE Refuse(targets, old)
    BY <1>3, PruneQueue DEF Refuse
  <1> QED
    BY <1>1, <1>2, <1>3

\* A running task leaves run(), finished or to be retried.
LEMMA LeaveQueue ==
  ASSUME QueueInv, NEW i \in queue, NEW h \in Hosts, NEW t \in Task, Leave(i, h, t),
         task[<<i, h>>].state = "running",
         t.pc = "none", t.state # "running",
         t.state \in Waiting => t.attempts < MaxAttempts
  PROVE  /\ QueueInv' /\ NoNewWrite /\ at' = "tick"
         /\ task'[<<i, h>>].pc = "none"
  <1> DEFINE over == [task EXCEPT ![<<i, h>>] = t]
  <1>1. PICK old : LET gone == Prunable(over, old)
                   IN  /\ queue' = queue \ gone /\ before' = DropOrder(gone)
                       /\ job' = DropJobs(job, gone) /\ task' = DropTasks(over, gone)
                       /\ at' = "tick"
    BY DEF Leave
  <1> DEFINE gone == Prunable(over, old)
  <1>2. /\ queue' = queue \ gone /\ before' = DropOrder(gone)
        /\ job' = DropJobs(job, gone) /\ task' = DropTasks(over, gone)
        /\ at' = "tick"
    BY <1>1
  <1>3. over \in [Ids \X Hosts -> Task] /\ i \in Ids
    BY DEF QueueInv, QueueTypeOK
  <1>4. \A j \in Ids, g \in Hosts :
          over[<<j, g>>] = IF j = i /\ g = h THEN t ELSE task[<<j, g>>]
    BY DEF QueueInv, QueueTypeOK
  <1> HIDE DEF gone, over
  <1>5. \A j \in Ids, g \in Hosts :
          \/ j \in gone /\ task'[<<j, g>>] = NoTask
          \/ j \notin gone /\ j = i /\ g = h /\ task'[<<j, g>>] = t
          \/ j \notin gone /\ ~(j = i /\ g = h) /\ task'[<<j, g>>] = task[<<j, g>>]
    BY <1>2, <1>4 DEF DropTasks
  <1>6. NoTask.state = "none" /\ NoTask.pc = "none" /\ "none" \notin Waiting
    BY DEF NoTask, Waiting
  <1>7. QueueTypeOK'
    BY <1>2, <1>3, Blanks DEF QueueInv, QueueTypeOK, DropOrder, DropJobs, DropTasks
  <1>8. QueueInv'
    <2>1. \A j \in Ids, g \in Hosts :
            /\ j \notin queue' => task'[<<j, g>>].state = "none"
            /\ task'[<<j, g>>].state \in Waiting => task'[<<j, g>>].attempts < MaxAttempts
            /\ task'[<<j, g>>].pc # "none" => task'[<<j, g>>].state = "running"
            /\ task'[<<j, g>>].state = "running" => task[<<j, g>>].state = "running"
      <3> SUFFICES ASSUME NEW j \in Ids, NEW g \in Hosts
                   PROVE  /\ j \notin queue' => task'[<<j, g>>].state = "none"
                          /\ task'[<<j, g>>].state \in Waiting => task'[<<j, g>>].attempts < MaxAttempts
                          /\ task'[<<j, g>>].pc # "none" => task'[<<j, g>>].state = "running"
                          /\ task'[<<j, g>>].state = "running" => task[<<j, g>>].state = "running"
        OBVIOUS
      <3>1. CASE j \in gone /\ task'[<<j, g>>] = NoTask
        BY <3>1, <1>6
      <3>2. CASE j \notin gone /\ j = i /\ g = h /\ task'[<<j, g>>] = t
        BY <3>2, <1>2
      <3>3. CASE j \notin gone /\ task'[<<j, g>>] = task[<<j, g>>]
        BY <3>3, <1>2 DEF QueueInv
      <3> QED
        BY <1>5, <3>1, <3>2, <3>3
    <2> QED
      BY <1>7, <2>1 DEF QueueInv
  <1>9. NoNewWrite
    <2> SUFFICES ASSUME NEW j \in Ids, NEW g \in Hosts, task'[<<j, g>>].pc = "execute"
                 PROVE  /\ task[<<j, g>>].pc = "execute"
                        /\ job'[j].active = job[j].active /\ job'[j].feature = job[j].feature
      BY DEF NoNewWrite
    <2>1. j \notin gone /\ task[<<j, g>>].pc = "execute"
      BY <1>5, <1>6
    <2>2. job'[j] = job[j]
      BY <1>2, <2>1 DEF DropJobs
    <2> QED
      BY <2>1, <2>2
  <1>10. task'[<<i, h>>].pc = "none"
    BY <1>3, <1>5, <1>6
  <1> QED
    BY <1>2, <1>8, <1>9, <1>10

\* The two ways out of run(): finished, or to be retried by the catch.
LEMMA EndQueue ==
  ASSUME QueueInv, intents \in [Keys -> Intent], NEW i \in queue, NEW h \in Hosts,
         task[<<i, h>>].state = "running",
         \/ Leave(i, h, Done) /\ UNCHANGED intents
         \/ \E revoked \in BOOLEAN : End(i, h, revoked)
         \/ \E retryable \in BOOLEAN : Fail(i, h, retryable)
  PROVE  /\ QueueInv' /\ NoNewWrite /\ at' = "tick"
         /\ task'[<<i, h>>].pc = "none" /\ intents' \in [Keys -> Intent]
  <1>1. Done \in Task /\ Done.pc = "none" /\ Done.state = "done" /\ Done.state \notin Waiting
    BY Blanks DEF Done, NoTask, Waiting
  <1>2. ASSUME NEW revoked, End(i, h, revoked)
        PROVE  Leave(i, h, Done) /\ intents' \in [Keys -> Intent]
    BY <1>2, Blanks DEF End
  <1>3. CASE Leave(i, h, Done) /\ intents' \in [Keys -> Intent]
    BY <1>1, <1>3, LeaveQueue
  <1>4. ASSUME NEW retryable, Fail(i, h, retryable), ~ End(i, h, FALSE)
        PROVE  /\ QueueInv' /\ NoNewWrite /\ at' = "tick"
               /\ task'[<<i, h>>].pc = "none" /\ intents' \in [Keys -> Intent]
    <2> DEFINE t == [task[<<i, h>>] EXCEPT !.state = "retrying", !.pc = "none", !.backoff = TRUE]
    <2>1. /\ task[<<i, h>>].attempts < MaxAttempts
          /\ Leave(i, h, t) /\ UNCHANGED intents
      BY <1>4 DEF Fail, MayRetry
    <2>2. task[<<i, h>>] \in Task
      BY DEF QueueInv, QueueTypeOK
    <2>3. /\ t \in Task /\ t.pc = "none" /\ t.state # "running"
          /\ t.attempts = task[<<i, h>>].attempts
      BY <2>2 DEF Task, TaskStates, Pending, Waiting, PCs
    <2> HIDE DEF t
    <2> QED
      BY <2>1, <2>3, LeaveQueue
  <1> QED
    BY <1>2, <1>3, <1>4

\* A task goes on to the next await.
LEMMA StepQueue ==
  ASSUME QueueInv, NEW i \in queue, NEW h \in Hosts, NEW pc \in PCs, Step(i, h, pc),
         task[<<i, h>>].state = "running"
  PROVE  /\ QueueInv'
         /\ \A j \in Ids, g \in Hosts :
              /\ ~(j = i /\ g = h) => task'[<<j, g>>] = task[<<j, g>>]
              /\ job'[j] = job[j]
         /\ task'[<<i, h>>].pc = pc
         /\ pc # "execute" => NoNewWrite
  <1>1. /\ task' = [task EXCEPT ![<<i, h>>].pc = pc]
        /\ UNCHANGED <<queue, before, job>> /\ i \in Ids
    BY DEF Step, QueueInv, QueueTypeOK
  <1>2. task[<<i, h>>] \in Task
    BY <1>1 DEF QueueInv, QueueTypeOK
  <1>3. \A j \in Ids, g \in Hosts :
          \/ j = i /\ g = h /\ task'[<<j, g>>] = [task[<<j, g>>] EXCEPT !.pc = pc]
          \/ ~(j = i /\ g = h) /\ task'[<<j, g>>] = task[<<j, g>>]
    BY <1>1 DEF QueueInv, QueueTypeOK
  <1>4. /\ [task[<<i, h>>] EXCEPT !.pc = pc] \in Task
        /\ [task[<<i, h>>] EXCEPT !.pc = pc].pc = pc
        /\ [task[<<i, h>>] EXCEPT !.pc = pc].state = "running"
    BY <1>2 DEF Task
  <1>5. QueueTypeOK'
    BY <1>1, <1>4 DEF QueueInv, QueueTypeOK
  <1>6. QueueInv'
    <2>1. \A j \in Ids, g \in Hosts :
            /\ task'[<<j, g>>].state = task[<<j, g>>].state
            /\ task'[<<j, g>>].pc # "none" => task'[<<j, g>>].state = "running"
            /\ task'[<<j, g>>].state \in Waiting => task'[<<j, g>>] = task[<<j, g>>]
      <3>1. "running" \notin Waiting
        BY DEF Waiting
      <3> SUFFICES ASSUME NEW j \in Ids, NEW g \in Hosts
                   PROVE  /\ task'[<<j, g>>].state = task[<<j, g>>].state
                          /\ task'[<<j, g>>].pc # "none" => task'[<<j, g>>].state = "running"
                          /\ task'[<<j, g>>].state \in Waiting => task'[<<j, g>>] = task[<<j, g>>]
        OBVIOUS
      <3>2. CASE j = i /\ g = h
        <4>1. task'[<<j, g>>].state = "running" /\ task[<<j, g>>].state = "running"
          BY <3>2, <1>3, <1>4
        <4> QED
          BY <4>1, <3>1
      <3>3. CASE ~(j = i /\ g = h)
        <4>1. task'[<<j, g>>] = task[<<j, g>>]
          BY <3>3, <1>3
        <4>2. task[<<j, g>>].pc # "none" => task[<<j, g>>].state = "running"
          BY DEF QueueInv
        <4> QED
          BY <4>1, <4>2
      <3> QED
        BY <3>2, <3>3
    <2> QED
      BY <1>1, <1>5, <2>1 DEF QueueInv
  <1> QED
    BY <1>1, <1>3, <1>4, <1>6 DEF NoNewWrite

----------------------------------------------------------------------------

\* As long as nothing is given up, no write in flight loses its owner.
LEMMA KeepsWritesOwned ==
  ASSUME WritesAreOwned, NoNewWrite, owned \subseteq owned'
  PROVE  WritesAreOwned'
  BY DEF WritesAreOwned, NoNewWrite, KeyOf

\* The handlers and loops that enqueue, cancel or expire: ownership is untouched.
LEMMA CommandPreserves ==
  ASSUME JournalInv, NEW f \in Features, NEW active \in BOOLEAN, NEW targets \in SUBSET Hosts,
         Command(f, active, targets)
  PROVE  JournalInv'
  <1>1. /\ QueueInv' /\ NoNewWrite /\ intents' \in [Keys -> Intent]
        /\ activeModes' \subseteq activeModes
    BY EnqueueQueue DEF Command, JournalInv, TypeOK
  <1>2. WritesAreOwned' /\ OursAreOwned'
    BY <1>1, KeepsWritesOwned DEF Command, JournalInv, OursAreOwned
  <1>3. wish' \in [Keys -> BOOLEAN]
    BY DEF Command, JournalInv, TypeOK
  <1>4. TypeOK'
    BY <1>1, <1>3 DEF Command, JournalInv, TypeOK, QueueInv
  <1> QED
    BY <1>1, <1>2, <1>4 DEF JournalInv

\* One stop of a mode cleanup, or one release owed after a restart.
LEMMA EnqueueStopsPreserves ==
  ASSUME JournalInv, NEW f \in Stateful, EnqueueStops(f)
  PROVE  JournalInv'
  <1>1. /\ QueueInv' /\ NoNewWrite /\ intents' \in [Keys -> Intent]
        /\ activeModes' \subseteq activeModes
    BY EnqueueQueue DEF EnqueueStops, JournalInv, TypeOK, Features, Stateful
  <1>2. WritesAreOwned' /\ OursAreOwned'
    BY <1>1, KeepsWritesOwned DEF EnqueueStops, JournalInv, OursAreOwned
  <1>3. wish' \in [Keys -> BOOLEAN]
    BY DEF EnqueueStops, JournalInv, TypeOK
  <1>4. TypeOK'
    BY <1>1, <1>3 DEF EnqueueStops, JournalInv, TypeOK, QueueInv
  <1> QED
    BY <1>1, <1>2, <1>4 DEF JournalInv

\* One iteration of reconcile().
LEMMA ReconcileKeyPreserves ==
  ASSUME JournalInv, NEW k \in Keys, ReconcileKey(k)
  PROVE  JournalInv'
  <1>1. k[1] \in Hosts /\ k[2] \in Features
    BY DEF Keys
  <1>2. /\ QueueInv' /\ NoNewWrite /\ intents' \in [Keys -> Intent]
        /\ activeModes' \subseteq activeModes
    <2>1. intents[k].recovery \in BOOLEAN /\ intents \in [Keys -> Intent] /\ QueueInv
      BY DEF JournalInv, TypeOK, Intent
    <2>2. CASE Enqueue(k[2], TRUE, {k[1]}, intents[k].recovery, TRUE, FALSE)
      BY <1>1, <2>1, <2>2, EnqueueQueue
    <2>3. CASE Enqueue(k[2], TRUE, {k[1]}, TRUE, TRUE, TRUE)
      BY <1>1, <2>1, <2>3, EnqueueQueue
    <2>4. CASE Enqueue(k[2], FALSE, {k[1]}, TRUE, FALSE, FALSE)
      BY <1>1, <2>1, <2>4, EnqueueQueue
    <2> QED
      BY <2>2, <2>3, <2>4 DEF ReconcileKey
  <1>3. WritesAreOwned' /\ OursAreOwned'
    BY <1>2, KeepsWritesOwned DEF ReconcileKey, JournalInv, OursAreOwned
  <1>4. TypeOK'
    BY <1>2 DEF ReconcileKey, JournalInv, TypeOK, QueueInv
  <1> QED
    BY <1>2, <1>3, <1>4 DEF JournalInv

\* enqueueModeCleanup() up to its loop: it only prunes.
LEMMA ModeCleanupPreserves ==
  ASSUME JournalInv, NEW targets \in SUBSET Hosts, ModeCleanup(targets)
  PROVE  JournalInv'
  <1>1. QueueInv' /\ NoNewWrite
    <2>1. PICK old : LET gone == Prunable(task, old)
                     IN  /\ queue' = queue \ gone /\ before' = DropOrder(gone)
                         /\ job' = DropJobs(job, gone) /\ task' = DropTasks(task, gone)
      BY DEF ModeCleanup
    <2> QED
      BY <2>1, PruneQueue DEF JournalInv
  <1>2. WritesAreOwned' /\ OursAreOwned'
    BY <1>1, KeepsWritesOwned DEF ModeCleanup, world, JournalInv, OursAreOwned
  <1>3. TypeOK'
    BY <1>1 DEF ModeCleanup, world, JournalInv, TypeOK, QueueInv, Stateful
  <1> QED
    BY <1>1, <1>2, <1>3 DEF JournalInv

\* A blanket change of waiting tasks to Done, as cancel() and tick() make it.
LEMMA DropWaiting ==
  ASSUME QueueInv, NEW S, UNCHANGED <<queue, before, job>>,
         task' = [p \in Ids \X Hosts |->
                    IF p \in S /\ task[p].state \in Waiting THEN Done ELSE task[p]]
  PROVE  QueueInv' /\ NoNewWrite
  <1>1. /\ Done \in Task /\ Done.pc = "none" /\ Done.state = "done" /\ Done.state \notin Waiting
        /\ "none" \notin Waiting
    BY Blanks DEF Done, NoTask, Waiting
  <1>2. \A i \in Ids, h \in Hosts :
          \/ task[<<i, h>>].state \in Waiting /\ task'[<<i, h>>] = Done
          \/ task'[<<i, h>>] = task[<<i, h>>]
    OBVIOUS
  <1>3. QueueTypeOK'
    BY <1>1 DEF QueueInv, QueueTypeOK
  <1>4. QueueInv'
    BY <1>1, <1>2, <1>3 DEF QueueInv
  <1> QED
    BY <1>1, <1>2, <1>4 DEF NoNewWrite

\* cancel(): waiting tasks end; nothing that is being written is given up.
LEMMA CancelPreserves ==
  ASSUME JournalInv, NEW i \in queue, Cancel(i)
  PROVE  JournalInv'
  <1>1. task' = [p \in Ids \X Hosts |->
                   IF p \in {i} \X Hosts /\ task[p].state \in Waiting THEN Done ELSE task[p]]
    BY DEF Cancel
  <1>2. QueueInv' /\ NoNewWrite
    <2> DEFINE S == {i} \X Hosts
    <2>1. UNCHANGED <<queue, before, job>> /\ QueueInv
      BY DEF Cancel, JournalInv
    <2>2. task' = [p \in Ids \X Hosts |->
                     IF p \in S /\ task[p].state \in Waiting THEN Done ELSE task[p]]
      BY <1>1
    <2> HIDE DEF S
    <2> QED
      BY <2>1, <2>2, DropWaiting
  <1>3. WritesAreOwned' /\ OursAreOwned'
    BY <1>2, KeepsWritesOwned DEF Cancel, world, JournalInv, OursAreOwned
  <1>4. intents' \in [Keys -> Intent]
    BY Blanks DEF Cancel, JournalInv, TypeOK
  <1>5. TypeOK'
    BY <1>2, <1>4 DEF Cancel, world, JournalInv, TypeOK, QueueInv
  <1> QED
    BY <1>2, <1>3, <1>5 DEF JournalInv

\* tick(): expired tasks end; nothing that is being written is given up.
LEMMA TickPreserves ==
  ASSUME JournalInv, NEW due \in BOOLEAN, Tick(due)
  PROVE  JournalInv'
  <1>1. CASE CanRun
    <2> DEFINE expired == {p \in queue \X Hosts : task[p].state \in Waiting /\ job[p[1]].expired}
    <2>1. task' = [p \in Ids \X Hosts |->
                     IF p \in expired /\ task[p].state \in Waiting THEN Done ELSE task[p]]
      BY <1>1 DEF Tick
    <2>2. QueueInv' /\ NoNewWrite
      <3> HIDE DEF expired
      <3> QED
        BY <2>1, DropWaiting DEF Tick, JournalInv
    <2>3. intents' \in [Keys -> Intent]
      BY <1>1, Blanks DEF Tick, JournalInv, TypeOK
    <2>4. left' \subseteq Hosts \X Stateful /\ at' \in {"start", "reconcile"}
      BY <1>1 DEF Tick
    <2>5. WritesAreOwned' /\ OursAreOwned'
      BY <2>2, KeepsWritesOwned DEF Tick, world, JournalInv, OursAreOwned
    <2>6. TypeOK'
      BY <2>2, <2>3, <2>4 DEF Tick, world, JournalInv, TypeOK, QueueInv
    <2> QED
      BY <2>2, <2>5, <2>6 DEF JournalInv
  <1>2. CASE ~CanRun
    <2>1. at' = "idle" /\ UNCHANGED <<task, intents, left, queue, before, job, owned, activeModes, world>>
      BY <1>2 DEF Tick
    <2> QED
      BY <2>1 DEF world, JournalInv, TypeOK, QueueInv, QueueTypeOK, WritesAreOwned, OursAreOwned, KeyOf
  <1> QED
    BY <1>1, <1>2

\* A task starts on a computer that is not busy, with one attempt fewer left.
LEMMA StartPreserves ==
  ASSUME JournalInv, NEW i \in queue, NEW h \in Hosts, Start(i, h)
  PROVE  JournalInv'
  <1> DEFINE t == [task[<<i, h>>] EXCEPT !.state = "running", !.pc = "eligible", !.attempts = @ + 1]
  <1>1. /\ task[<<i, h>>].state \in Waiting /\ h \notin Busy
        /\ UNCHANGED <<queue, before, job, intents, owned, activeModes, at, left, world>>
        /\ i \in Ids /\ task[<<i, h>>] \in Task /\ task[<<i, h>>].attempts < MaxAttempts
    BY DEF Start, Runnable, JournalInv, QueueInv, QueueTypeOK
  <1>2. t \in Task /\ t.pc = "eligible" /\ t.state = "running"
    <2>1. task[<<i, h>>].attempts + 1 \in 0..MaxAttempts
      BY <1>1, QueueAssumption DEF Task
    <2> QED
      BY <1>1, <2>1 DEF Task, TaskStates, Pending, PCs
  <1>3. task' = [task EXCEPT ![<<i, h>>] = t]
    BY <1>1 DEF Start, JournalInv, QueueInv, QueueTypeOK
  <1> HIDE DEF t
  <1>4. \A j \in Ids, g \in Hosts :
          \/ j = i /\ g = h /\ task'[<<j, g>>] = t
          \/ ~(j = i /\ g = h) /\ task'[<<j, g>>] = task[<<j, g>>]
    BY <1>3 DEF JournalInv, QueueInv, QueueTypeOK
  <1>5. QueueTypeOK'
    BY <1>1, <1>2, <1>3 DEF JournalInv, QueueInv, QueueTypeOK
  <1>6. \A j \in Ids : task[<<j, h>>].state # "running"
    BY <1>1 DEF Busy, JournalInv, QueueInv
  <1>7. QueueInv'
    <2>1. \A j \in Ids, g \in Hosts :
            /\ j \notin queue' => task'[<<j, g>>].state = "none"
            /\ task'[<<j, g>>].state \in Waiting => task'[<<j, g>>].attempts < MaxAttempts
            /\ task'[<<j, g>>].pc # "none" => task'[<<j, g>>].state = "running"
            /\ task'[<<j, g>>].state = "running" =>
                 (j = i /\ g = h) \/ (g # h /\ task[<<j, g>>].state = "running")
      <3> SUFFICES ASSUME NEW j \in Ids, NEW g \in Hosts
                   PROVE  /\ j \notin queue' => task'[<<j, g>>].state = "none"
                          /\ task'[<<j, g>>].state \in Waiting => task'[<<j, g>>].attempts < MaxAttempts
                          /\ task'[<<j, g>>].pc # "none" => task'[<<j, g>>].state = "running"
                          /\ task'[<<j, g>>].state = "running" =>
                               (j = i /\ g = h) \/ (g # h /\ task[<<j, g>>].state = "running")
        OBVIOUS
      <3>1. CASE j = i /\ g = h
        <4>1. task'[<<j, g>>] = t /\ j \in queue' /\ "running" \notin Waiting
          BY <3>1, <1>1, <1>4 DEF Waiting
        <4> QED
          BY <4>1, <3>1, <1>2
      <3>2. CASE ~(j = i /\ g = h)
        BY <3>2, <1>1, <1>4, <1>6 DEF JournalInv, QueueInv
      <3> QED
        BY <3>1, <3>2
    <2> QED
      BY <1>5, <2>1 DEF JournalInv, QueueInv
  <1>8. NoNewWrite
    BY <1>1, <1>2, <1>4 DEF NoNewWrite
  <1>9. WritesAreOwned' /\ OursAreOwned'
    BY <1>1, <1>8, KeepsWritesOwned DEF world, JournalInv, OursAreOwned
  <1>10. TypeOK'
    BY <1>1, <1>7 DEF world, JournalInv, TypeOK, QueueInv
  <1> QED
    BY <1>7, <1>9, <1>10 DEF JournalInv

\* Actions that leave the queue, the ownership and the computers alone.
LEMMA OthersPreserve ==
  ASSUME JournalInv,
         \/ \E h \in Hosts : ReconcileHost(h)
         \/ EndTick \/ Freeze
         \/ \E i \in queue : Expire(i)
         \/ \E i \in queue, h \in Hosts : BackoffEnds(i, h)
         \/ \E k \in Hosts \X Stateful : Outside(k)
         \/ UNCHANGED vars
  PROVE  JournalInv'
  <1> USE DEF JournalInv
  <1>1. ASSUME NEW h \in Hosts, ReconcileHost(h) PROVE JournalInv'
    <2>1. left' \subseteq Hosts \X Stateful /\ at' = "reconcileHost"
      BY <1>1 DEF ReconcileHost
    <2> QED
      BY <1>1, <2>1 DEF ReconcileHost, world, TypeOK, QueueInv, QueueTypeOK, WritesAreOwned,
                        OursAreOwned, KeyOf
  <1>2. CASE EndTick
    BY <1>2 DEF EndTick, world, TypeOK, QueueInv, QueueTypeOK, WritesAreOwned, OursAreOwned, KeyOf
  <1>3. CASE Freeze
    BY <1>3 DEF Freeze, hub, TypeOK, QueueInv, QueueTypeOK, WritesAreOwned, OursAreOwned, KeyOf
  <1>4. ASSUME NEW i \in queue, Expire(i) PROVE JournalInv'
    <2>1. /\ job' = [job EXCEPT ![i].expired = TRUE]
          /\ UNCHANGED <<queue, before, task, intents, owned, activeModes, at, left, world>>
      BY <1>4 DEF Expire
    <2>2. job' \in [Ids -> Job]
      BY <2>1 DEF TypeOK, QueueTypeOK, Job
    <2>3. QueueInv'
      BY <2>1, <2>2 DEF QueueInv, QueueTypeOK
    <2>4. NoNewWrite
      BY <2>1 DEF NoNewWrite, TypeOK, QueueTypeOK, Job
    <2>5. WritesAreOwned' /\ OursAreOwned'
      BY <2>1, <2>4, KeepsWritesOwned DEF world, OursAreOwned
    <2>6. TypeOK'
      BY <2>1, <2>3 DEF world, TypeOK, QueueInv
    <2> QED
      BY <2>3, <2>5, <2>6
  <1>5. ASSUME NEW i \in queue, NEW h \in Hosts, BackoffEnds(i, h) PROVE JournalInv'
    <2> DEFINE t == [task[<<i, h>>] EXCEPT !.backoff = FALSE]
    <2>1. /\ task' = [task EXCEPT ![<<i, h>>] = t]
          /\ UNCHANGED <<queue, before, job, intents, owned, activeModes, at, left, world>>
      BY <1>5 DEF BackoffEnds
    <2>2. /\ t \in Task /\ t.pc = task[<<i, h>>].pc /\ t.state = task[<<i, h>>].state
          /\ t.attempts = task[<<i, h>>].attempts
      <3>1. task[<<i, h>>] \in Task
        BY DEF TypeOK, QueueTypeOK
      <3> QED
        BY <3>1 DEF Task
    <2>3. \A j \in Ids, g \in Hosts :
            /\ task'[<<j, g>>].pc = task[<<j, g>>].pc
            /\ task'[<<j, g>>].state = task[<<j, g>>].state
            /\ task'[<<j, g>>].attempts = task[<<j, g>>].attempts
      BY <2>1, <2>2 DEF TypeOK, QueueTypeOK
    <2>4. QueueTypeOK'
      BY <2>1, <2>2 DEF TypeOK, QueueTypeOK
    <2>5. QueueInv' /\ NoNewWrite
      BY <2>1, <2>3, <2>4 DEF QueueInv, NoNewWrite
    <2>6. WritesAreOwned' /\ OursAreOwned'
      BY <2>1, <2>5, KeepsWritesOwned DEF world, OursAreOwned
    <2>7. TypeOK'
      BY <2>1, <2>5 DEF world, TypeOK, QueueInv
    <2> QED
      BY <2>5, <2>6, <2>7
  <1>6. ASSUME NEW k \in Hosts \X Stateful, Outside(k) PROVE JournalInv'
    <2>1. /\ endpoint' = [endpoint EXCEPT ![k] = ~@] /\ ours' = ours \ {k}
          /\ UNCHANGED hub /\ UNCHANGED <<journal, paused, wish>>
      BY <1>6 DEF Outside
    <2>2. OursAreOwned'
      BY <2>1 DEF OursAreOwned, hub, TypeOK
    <2>3. TypeOK' /\ QueueInv' /\ WritesAreOwned'
      BY <2>1 DEF hub, TypeOK, QueueInv, QueueTypeOK, WritesAreOwned, KeyOf
    <2> QED
      BY <2>2, <2>3
  <1>7. CASE UNCHANGED vars
    BY <1>7 DEF vars, TypeOK, QueueInv, QueueTypeOK, WritesAreOwned, OursAreOwned, KeyOf
  <1> QED
    BY <1>1, <1>2, <1>3, <1>4, <1>5, <1>6, <1>7

\* A restart: whatever was being written was owned, so it is in the journal that is
\* loaded, and nothing is in flight afterwards.
LEMMA RestartPreserves ==
  ASSUME JournalInv, Restart
  PROVE  JournalInv'
  <1> DEFINE flying == {p \in queue \X Hosts : task[p].pc = "execute" /\ job[p[1]].feature \in Stateful}
  <1>1. PICK made \in SUBSET flying :
          LET written == {KeyOf(p[1], p[2]) : p \in made}
              on == {KeyOf(p[1], p[2]) : p \in {q \in made : job[q[1]].active}}
          IN  /\ endpoint' = [k \in Keys |-> IF k \in on THEN TRUE ELSE IF k \in written THEN FALSE ELSE endpoint[k]]
              /\ ours' = (ours \ written) \cup on
    BY DEF Restart
  <1> DEFINE written == {KeyOf(p[1], p[2]) : p \in made}
             on == {KeyOf(p[1], p[2]) : p \in {q \in made : job[q[1]].active}}
  <1>2. /\ endpoint' = [k \in Keys |-> IF k \in on THEN TRUE ELSE IF k \in written THEN FALSE ELSE endpoint[k]]
        /\ ours' = (ours \ written) \cup on
    BY <1>1
  <1>3. /\ queue' = {} /\ before' = {} /\ job' = [i \in Ids |-> BlankJob]
        /\ task' = [p \in Ids \X Hosts |-> NoTask] /\ intents' = [k \in Keys |-> NoIntent]
        /\ owned' = journal /\ activeModes' = {} /\ left' = journal
        /\ at' \in {"idle", "boot"}
        /\ paused' = FALSE /\ wish' = [k \in Keys |-> FALSE] /\ journal' = journal
    BY DEF Restart
  <1>4. on \subseteq owned /\ on \subseteq written
    <2>1. \A p \in queue \X Hosts : p = <<p[1], p[2]>> /\ p[1] \in Ids /\ p[2] \in Hosts
      BY DEF JournalInv, QueueInv, QueueTypeOK
    <2>2. \A p \in flying : job[p[1]].active => KeyOf(p[1], p[2]) \in owned
      BY <2>1 DEF JournalInv, WritesAreOwned
    <2> QED
      BY <2>2
  <1> HIDE DEF on, written
  <1>5. QueueInv'
    BY <1>3, Blanks DEF QueueInv, QueueTypeOK, NoTask, Waiting
  <1>6. WritesAreOwned'
    BY <1>3 DEF WritesAreOwned, NoTask
  <1>7. OursAreOwned'
    <2>1. ours' \subseteq journal
      BY <1>2, <1>4 DEF JournalInv, OursAreOwned
    <2>2. \A k \in ours' : endpoint'[k]
      <3>1. ours \subseteq Keys /\ owned \subseteq Keys /\ \A k \in ours : endpoint[k]
        BY DEF JournalInv, TypeOK, OursAreOwned, Keys, Features, Stateful
      <3> QED
        BY <1>2, <1>4, <3>1
    <2> QED
      BY <1>3, <2>1, <2>2 DEF OursAreOwned
  <1>8. TypeOK'
    <2>1. ours' \subseteq Keys
      BY <1>2, <1>4 DEF JournalInv, TypeOK, Keys, Features, Stateful
    <2>2. endpoint' \in [Keys -> BOOLEAN]
      <3>1. endpoint \in [Keys -> BOOLEAN]
        BY DEF JournalInv, TypeOK
      <3> QED
        BY <1>2, <3>1
    <2>3. intents' \in [Keys -> Intent]
      BY <1>3, Blanks
    <2> QED
      BY <1>3, <1>5, <2>1, <2>2, <2>3 DEF JournalInv, TypeOK, QueueInv
  <1> QED
    BY <1>5, <1>6, <1>7, <1>8 DEF JournalInv

----------------------------------------------------------------------------
(* The answers run() waits for.                                              *)

\* A running task and the key it is about.
LEMMA AtAwait ==
  ASSUME JournalInv, NEW i \in queue, NEW h \in Hosts, NEW pc, Awaits(i, h, pc)
  PROVE  /\ i \in Ids /\ task[<<i, h>>].state = "running" /\ task[<<i, h>>].pc = pc
         /\ job[i] \in Job /\ KeyOf(i, h) \in Keys /\ KeyOf(i, h)[1] = h
         /\ LockLike(job[i]) => job[i].feature \in Stateful
         /\ job[i].feature \in Stateful => KeyOf(i, h) \in Hosts \X Stateful
         /\ QueueInv /\ intents \in [Keys -> Intent]
  BY DEF JournalInv, QueueInv, QueueTypeOK, TypeOK, Awaits, KeyOf, Keys, Job, LockLike, Stateful

\* Giving up the key of a task that is not writing takes no write's owner away.
LEMMA ReleaseKeepsWrites ==
  ASSUME JournalInv, NEW i \in queue, NEW h \in Hosts, NoNewWrite,
         task[<<i, h>>].state = "running", task[<<i, h>>].pc # "execute",
         owned' = owned \ {KeyOf(i, h)}
  PROVE  WritesAreOwned'
  <1> SUFFICES ASSUME NEW j \in Ids, NEW g \in Hosts, task'[<<j, g>>].pc = "execute",
                      job'[j].active, job'[j].feature \in Stateful
               PROVE  <<g, job'[j].feature>> \in owned'
    BY DEF WritesAreOwned, KeyOf
  <1>1. /\ task[<<j, g>>].pc = "execute" /\ job[j].active /\ job[j].feature \in Stateful
        /\ job'[j].feature = job[j].feature
    BY DEF NoNewWrite
  <1>2. task[<<j, g>>].state = "running" /\ <<g, job[j].feature>> \in owned /\ i \in Ids
    BY <1>1 DEF JournalInv, WritesAreOwned, QueueInv, QueueTypeOK, KeyOf
  <1>3. g # h
    BY <1>1, <1>2 DEF JournalInv, QueueInv
  <1> QED
    BY <1>1, <1>2, <1>3 DEF KeyOf

\* A task that only ends: refused, failed, superseded, expired or not confirmed.
LEMMA EndingPreserves ==
  ASSUME JournalInv, NEW i \in queue, NEW h \in Hosts,
         NotEligible(i, h) \/ NotRead(i, h) \/ NotConfirmed(i, h)
  PROVE  JournalInv'
  <1>1. /\ task[<<i, h>>].state = "running"
        /\ \/ \E revoked \in BOOLEAN : End(i, h, revoked)
           \/ \E retryable \in BOOLEAN : Fail(i, h, retryable)
        /\ UNCHANGED <<owned, journal, activeModes, left, paused, endpoint, ours, wish>>
    BY DEF NotEligible, NotRead, NotConfirmed, Barred, Awaits
  <1>2. /\ QueueInv' /\ NoNewWrite /\ at' = "tick" /\ intents' \in [Keys -> Intent]
    BY <1>1, EndQueue DEF JournalInv, TypeOK
  <1>3. WritesAreOwned' /\ OursAreOwned'
    BY <1>1, <1>2, KeepsWritesOwned DEF JournalInv, OursAreOwned
  <1>4. TypeOK'
    BY <1>1, <1>2 DEF JournalInv, TypeOK, QueueInv
  <1> QED
    BY <1>2, <1>3, <1>4 DEF JournalInv

LEMMA ReadPreserves ==
  ASSUME JournalInv, NEW i \in queue, NEW h \in Hosts, Read(i, h)
  PROVE  JournalInv'
  <1> DEFINE k == KeyOf(i, h)
             pc == IF endpoint[k] = job[i].active THEN "confirm" ELSE "execute"
  <1>1. /\ Awaits(i, h, "read") /\ Step(i, h, pc)
        /\ IF job[i].active /\ ~endpoint[k] THEN Journaled(k) ELSE UNCHANGED <<owned, journal>>
        /\ UNCHANGED <<intents, activeModes, left, paused, endpoint, ours, wish>>
    BY DEF Read
  <1>2. /\ i \in Ids /\ task[<<i, h>>].state = "running" /\ job[i] \in Job
        /\ k \in Keys /\ QueueInv
    BY <1>1, AtAwait
  <1>3. pc \in PCs
    BY DEF PCs
  <1> HIDE DEF pc
  <1>4. /\ QueueInv'
        /\ \A j \in Ids, g \in Hosts :
             /\ ~(j = i /\ g = h) => task'[<<j, g>>] = task[<<j, g>>]
             /\ job'[j] = job[j]
        /\ task'[<<i, h>>].pc = pc /\ at' = at
    BY <1>1, <1>2, <1>3, StepQueue DEF Step
  <1>5. /\ owned \subseteq owned' /\ OursAreOwned'
        /\ job[i].active /\ pc = "execute" => k \in owned'
    <2>1. endpoint[k] \in BOOLEAN /\ job[i].active \in BOOLEAN
      BY <1>2 DEF JournalInv, TypeOK, Job
    <2>2. CASE job[i].active /\ ~endpoint[k]
      BY <1>1, <2>2 DEF Journaled, JournalInv, OursAreOwned
    <2>3. CASE ~(job[i].active /\ ~endpoint[k])
      BY <1>1, <2>1, <2>3 DEF JournalInv, OursAreOwned, pc
    <2> QED
      BY <2>2, <2>3
  <1>6. WritesAreOwned'
    <2> SUFFICES ASSUME NEW j \in Ids, NEW g \in Hosts, task'[<<j, g>>].pc = "execute",
                        job'[j].active, job'[j].feature \in Stateful
                 PROVE  <<g, job'[j].feature>> \in owned'
      BY DEF WritesAreOwned, KeyOf
    <2>1. CASE j = i /\ g = h
      BY <2>1, <1>4, <1>5 DEF KeyOf
    <2>2. CASE ~(j = i /\ g = h)
      BY <2>2, <1>4, <1>5 DEF JournalInv, WritesAreOwned, KeyOf
    <2> QED
      BY <2>1, <2>2
  <1>7. owned' \subseteq Hosts \X Stateful /\ journal' \subseteq Hosts \X Stateful
    <2>1. k \in Hosts \X Stateful
      BY <1>1, AtAwait DEF Read
    <2> QED
      BY <1>1, <2>1 DEF Journaled, JournalInv, TypeOK
  <1>8. TypeOK'
    BY <1>1, <1>4, <1>7 DEF JournalInv, TypeOK, QueueInv
  <1> QED
    BY <1>4, <1>5, <1>6, <1>8 DEF JournalInv

\* A command that is not read back: a broadcast is journaled before it is written.
LEMMA EligiblePreserves ==
  ASSUME JournalInv, NEW i \in queue, NEW h \in Hosts, Eligible(i, h)
  PROVE  JournalInv'
  <1> DEFINE k == KeyOf(i, h)
  <1>1. /\ Awaits(i, h, "eligible")
        /\ UNCHANGED <<left, paused, endpoint, ours, wish, intents>>
    BY DEF Eligible
  <1>2. /\ i \in Ids /\ task[<<i, h>>].state = "running" /\ job[i] \in Job /\ QueueInv
    BY <1>1, AtAwait
  <1>3. \/ /\ Step(i, h, "read") /\ UNCHANGED <<owned, journal, activeModes>>
        \/ /\ Step(i, h, "execute") /\ job[i].feature \in Modes /\ Journaled(k)
           /\ activeModes' = activeModes \ {k} \/ activeModes' = activeModes \cup {k}
        \/ /\ Step(i, h, "execute") /\ job[i].feature \notin Modes /\ ~LockLike(job[i])
           /\ UNCHANGED <<owned, journal, activeModes>>
    BY DEF Eligible
  <1>4. PICK pc \in {"read", "execute"} : Step(i, h, pc)
    BY <1>3
  <1>5. /\ QueueInv'
        /\ \A j \in Ids, g \in Hosts :
             /\ ~(j = i /\ g = h) => task'[<<j, g>>] = task[<<j, g>>]
             /\ job'[j] = job[j]
        /\ task'[<<i, h>>].pc = pc /\ at' = at
    BY <1>2, <1>4, StepQueue DEF Step, PCs
  <1>6. job[i].feature \in Modes => k \in Hosts \X Modes
    BY DEF KeyOf
  <1>7. /\ owned \subseteq owned' /\ OursAreOwned'
        /\ owned' \subseteq Hosts \X Stateful /\ journal' \subseteq Hosts \X Stateful
        /\ activeModes' \subseteq Hosts \X Modes
    <2>1. CASE UNCHANGED <<owned, journal, activeModes>>
      BY <1>1, <2>1 DEF JournalInv, TypeOK, OursAreOwned
    <2>2. CASE /\ job[i].feature \in Modes /\ Journaled(k)
               /\ activeModes' = activeModes \ {k} \/ activeModes' = activeModes \cup {k}
      BY <1>1, <1>6, <2>2 DEF Journaled, JournalInv, TypeOK, OursAreOwned, Stateful
    <2> QED
      BY <1>3, <2>1, <2>2
  <1>8. pc = "execute" /\ job[i].feature \in Stateful => k \in owned'
    <2>1. CASE job[i].feature \in Modes /\ Journaled(k)
      BY <2>1 DEF Journaled
    <2>2. CASE Step(i, h, "read")
      <3>1. task'[<<i, h>>].pc = "read"
        BY <1>2, <2>2, StepQueue DEF PCs
      <3> QED
        BY <3>1, <1>5
    <2>3. CASE job[i].feature \notin Modes /\ ~LockLike(job[i])
      BY <2>3 DEF LockLike, Stateful
    <2> QED
      BY <1>3, <2>1, <2>2, <2>3
  <1>9. WritesAreOwned'
    <2> SUFFICES ASSUME NEW j \in Ids, NEW g \in Hosts, task'[<<j, g>>].pc = "execute",
                        job'[j].active, job'[j].feature \in Stateful
                 PROVE  <<g, job'[j].feature>> \in owned'
      BY DEF WritesAreOwned, KeyOf
    <2>1. CASE j = i /\ g = h
      BY <2>1, <1>5, <1>8 DEF KeyOf
    <2>2. CASE ~(j = i /\ g = h)
      BY <2>2, <1>5, <1>7 DEF JournalInv, WritesAreOwned, KeyOf
    <2> QED
      BY <2>1, <2>2
  <1>10. TypeOK'
    BY <1>1, <1>5, <1>7 DEF JournalInv, TypeOK, QueueInv
  <1> QED
    BY <1>5, <1>7, <1>9, <1>10 DEF JournalInv

\* A watched broadcast that has ended is given up.
LEMMA ObservePreserves ==
  ASSUME JournalInv, NEW i \in queue, NEW h \in Hosts, Observe(i, h)
  PROVE  JournalInv'
  <1> DEFINE k == KeyOf(i, h)
  <1>1. Awaits(i, h, "read") /\ UNCHANGED <<left, paused, endpoint, ours, wish>>
    BY DEF Observe
  <1>2. /\ task[<<i, h>>].state = "running" /\ task[<<i, h>>].pc = "read"
        /\ QueueInv /\ intents \in [Keys -> Intent]
    BY <1>1, AtAwait
  <1>3. \/ Leave(i, h, Done) /\ UNCHANGED intents
        \/ \E revoked \in BOOLEAN : End(i, h, revoked)
    BY DEF Observe
  <1>4. /\ QueueInv' /\ NoNewWrite /\ at' = "tick" /\ intents' \in [Keys -> Intent]
    BY <1>2, <1>3, EndQueue
  <1>5. CASE UNCHANGED <<activeModes, owned, journal>>
    <2>1. WritesAreOwned' /\ OursAreOwned'
      BY <1>1, <1>4, <1>5, KeepsWritesOwned DEF JournalInv, OursAreOwned
    <2>2. TypeOK'
      BY <1>1, <1>4, <1>5 DEF JournalInv, TypeOK, QueueInv
    <2> QED
      BY <1>4, <2>1, <2>2 DEF JournalInv
  <1>6. CASE /\ ~endpoint[k] /\ activeModes' = activeModes \ {k} /\ owned' = owned \ {k}
             /\ journal' = owned' \/ journal' = journal
    <2>1. WritesAreOwned'
      BY <1>2, <1>4, <1>6, ReleaseKeepsWrites
    <2>2. OursAreOwned'
      BY <1>1, <1>6 DEF JournalInv, OursAreOwned
    <2>3. TypeOK'
      BY <1>1, <1>4, <1>6 DEF JournalInv, TypeOK, QueueInv
    <2> QED
      BY <1>4, <2>1, <2>2, <2>3 DEF JournalInv
  <1> QED
    BY <1>5, <1>6 DEF Observe

\* A write: it activates owned features only.
LEMMA ExecutePreserves ==
  ASSUME JournalInv, NEW i \in queue, NEW h \in Hosts, Execute(i, h)
  PROVE  JournalInv'
  <1> DEFINE k == KeyOf(i, h)
  <1>1. /\ Awaits(i, h, "execute") /\ UNCHANGED <<owned, journal, activeModes, left, paused, wish>>
        /\ \/ job[i].feature \in Stateful /\ Apply(k, job[i].active)
           \/ UNCHANGED <<endpoint, ours>>
    BY DEF Execute
  <1>2. /\ i \in Ids /\ task[<<i, h>>].state = "running" /\ task[<<i, h>>].pc = "execute"
        /\ job[i] \in Job /\ k \in Keys /\ QueueInv /\ intents \in [Keys -> Intent]
    BY <1>1, AtAwait
  <1>3. /\ QueueInv' /\ NoNewWrite /\ intents' \in [Keys -> Intent]
        /\ at' \in {"idle", "tick"}
    <2>1. CASE Step(i, h, "confirm") /\ UNCHANGED intents
      <3>1. "confirm" \in PCs /\ "confirm" # "execute"
        BY DEF PCs
      <3>2. QueueInv' /\ NoNewWrite
        BY <1>2, <2>1, <3>1, StepQueue
      <3> QED
        BY <1>1, <1>2, <2>1, <3>2 DEF Step, Awaits
    <2>2. CASE \/ Leave(i, h, Done) /\ UNCHANGED intents
               \/ \E retryable \in BOOLEAN : Fail(i, h, retryable)
      BY <1>2, <2>2, EndQueue
    <2> QED
      BY <2>1, <2>2 DEF Execute
  <1>4. WritesAreOwned'
    BY <1>1, <1>3, KeepsWritesOwned DEF JournalInv
  <1>5. /\ OursAreOwned' /\ endpoint' \in [Keys -> BOOLEAN] /\ ours' \subseteq Keys
    <2>1. endpoint \in [Keys -> BOOLEAN] /\ ours \subseteq Keys /\ job[i].active \in BOOLEAN
      BY <1>2 DEF JournalInv, TypeOK, Job
    <2>2. CASE UNCHANGED <<endpoint, ours>>
      BY <1>1, <2>1, <2>2 DEF JournalInv, OursAreOwned
    <2>3. CASE job[i].feature \in Stateful /\ Apply(k, job[i].active) /\ job[i].active
      <3>1. k \in owned
        BY <1>2, <2>3 DEF JournalInv, WritesAreOwned
      <3>2. ours' = ours \cup {k} /\ endpoint' = [endpoint EXCEPT ![k] = job[i].active]
        BY <2>3 DEF Apply
      <3> QED
        BY <1>1, <1>2, <2>1, <2>3, <3>1, <3>2 DEF JournalInv, OursAreOwned
    <2>4. CASE job[i].feature \in Stateful /\ Apply(k, job[i].active) /\ ~job[i].active
      <3>1. ours' = ours \ {k} /\ endpoint' = [endpoint EXCEPT ![k] = job[i].active]
        BY <2>4 DEF Apply
      <3> QED
        BY <1>1, <1>2, <2>1, <2>4, <3>1 DEF JournalInv, OursAreOwned
    <2> QED
      BY <1>1, <2>2, <2>3, <2>4
  <1>6. TypeOK'
    BY <1>1, <1>3, <1>5 DEF JournalInv, TypeOK, QueueInv
  <1> QED
    BY <1>3, <1>4, <1>5, <1>6 DEF JournalInv

\* A confirmed release is the only way an inactive key leaves the journal.
LEMMA ConfirmPreserves ==
  ASSUME JournalInv, NEW i \in queue, NEW h \in Hosts, Confirm(i, h)
  PROVE  JournalInv'
  <1> DEFINE k == KeyOf(i, h)
  <1>1. /\ Awaits(i, h, "confirm") /\ endpoint[k] = job[i].active
        /\ UNCHANGED <<left, paused, endpoint, ours, wish>>
    BY DEF Confirm
  <1>2. /\ task[<<i, h>>].state = "running" /\ task[<<i, h>>].pc = "confirm" /\ job[i] \in Job
        /\ QueueInv /\ intents \in [Keys -> Intent]
    BY <1>1, AtAwait
  <1>3. Settled(i, h) \in [Keys -> Intent]
    BY <1>2, Blanks DEF Settled, Intent
  <1>4. /\ QueueInv' /\ NoNewWrite /\ at' = "tick" /\ intents' \in [Keys -> Intent]
    <2>1. CASE Leave(i, h, Done) /\ intents' \in [Keys -> Intent]
      <3>1. Done \in Task /\ Done.pc = "none" /\ Done.state = "done" /\ Done.state \notin Waiting
        BY Blanks DEF Done, NoTask, Waiting
      <3> QED
        BY <1>2, <2>1, <3>1, LeaveQueue
    <2>2. CASE Fail(i, h, FALSE)
      BY <1>2, <2>2, EndQueue
    <2> QED
      BY <1>2, <1>3, <2>1, <2>2 DEF Confirm
  <1>5. CASE UNCHANGED <<owned, journal, activeModes>>
    <2>1. WritesAreOwned' /\ OursAreOwned'
      BY <1>1, <1>4, <1>5, KeepsWritesOwned DEF JournalInv, OursAreOwned
    <2>2. TypeOK'
      BY <1>1, <1>4, <1>5 DEF JournalInv, TypeOK, QueueInv
    <2> QED
      BY <1>4, <2>1, <2>2 DEF JournalInv
  <1>6. CASE /\ ~job[i].active /\ activeModes' = activeModes \ {k} /\ owned' = owned \ {k}
             /\ journal' = owned' \/ journal' = journal
    <2>1. WritesAreOwned'
      BY <1>2, <1>4, <1>6, ReleaseKeepsWrites
    <2>2. OursAreOwned'
      <3>1. k \notin ours
        BY <1>1, <1>6 DEF JournalInv, OursAreOwned
      <3> QED
        BY <1>1, <1>6, <3>1 DEF JournalInv, OursAreOwned
    <2>3. TypeOK'
      BY <1>1, <1>4, <1>6 DEF JournalInv, TypeOK, QueueInv
    <2> QED
      BY <1>4, <2>1, <2>2, <2>3 DEF JournalInv
  <1> QED
    BY <1>5, <1>6 DEF Confirm

----------------------------------------------------------------------------

\* The initial state satisfies the inductive invariant.
LEMMA InitHolds == Init => JournalInv
  <1> SUFFICES ASSUME Init PROVE JournalInv
    OBVIOUS
  <1>1. QueueInv
    BY Blanks DEF Init, QueueInv, QueueTypeOK, NoTask, Waiting
  <1>2. WritesAreOwned /\ OursAreOwned
    BY DEF Init, WritesAreOwned, OursAreOwned, NoTask
  <1>3. TypeOK
    BY <1>1, Blanks DEF Init, TypeOK, QueueInv
  <1> QED
    BY <1>1, <1>2, <1>3 DEF JournalInv

\* Every step keeps the inductive invariant.
LEMMA NextPreserves == JournalInv /\ [Next]_vars => JournalInv'
  <1> SUFFICES ASSUME JournalInv, [Next]_vars PROVE JournalInv'
    OBVIOUS
  <1>1. ASSUME NEW f \in Features, NEW active \in BOOLEAN, NEW targets \in SUBSET Hosts,
               Command(f, active, targets)
        PROVE  JournalInv'
    BY <1>1, CommandPreserves
  <1>2. ASSUME NEW targets \in SUBSET Hosts, ModeCleanup(targets) PROVE JournalInv'
    BY <1>2, ModeCleanupPreserves
  <1>3. ASSUME NEW f \in Stateful, EnqueueStops(f) PROVE JournalInv'
    BY <1>3, EnqueueStopsPreserves
  <1>4. ASSUME NEW i \in queue, Cancel(i) PROVE JournalInv'
    BY <1>4, CancelPreserves
  <1>5. ASSUME NEW k \in Keys, ReconcileKey(k) PROVE JournalInv'
    BY <1>5, ReconcileKeyPreserves
  <1>6. ASSUME NEW due \in BOOLEAN, Tick(due) PROVE JournalInv'
    BY <1>6, TickPreserves
  <1>7. ASSUME NEW i \in queue, NEW h \in Hosts, Start(i, h) PROVE JournalInv'
    BY <1>7, StartPreserves
  <1>8. ASSUME NEW i \in queue, NEW h \in Hosts, Answer(i, h) PROVE JournalInv'
    BY <1>8, EligiblePreserves, EndingPreserves, ReadPreserves, ObservePreserves,
       ExecutePreserves, ConfirmPreserves DEF Answer
  <1>9. CASE Restart
    BY <1>9, RestartPreserves
  <1>10. CASE \/ \E h \in Hosts : ReconcileHost(h)
              \/ EndTick \/ Freeze
              \/ \E i \in queue : Expire(i)
              \/ \E i \in queue, h \in Hosts : BackoffEnds(i, h)
              \/ \E k \in Hosts \X Stateful : Outside(k)
              \/ UNCHANGED vars
    BY <1>10, OthersPreserve
  <1> QED
    BY <1>1, <1>2, <1>3, <1>4, <1>5, <1>6, <1>7, <1>8, <1>9, <1>10 DEF Next

\* The inductive invariant of the queue holds throughout.
THEOREM JournalInvariant == Spec => []JournalInv
  <1>1. Init => JournalInv
    BY InitHolds
  <1>2. JournalInv /\ [Next]_vars => JournalInv'
    BY NextPreserves
  <1> QED
    BY <1>1, <1>2, PTL DEF Spec

\* Every variable keeps its type; in particular no task is ever started more than
\* MaxAttempts times, whatever mixture of failures its retries went through.
THEOREM TypeCorrect == Spec => []TypeOK
  <1>1. JournalInv => TypeOK
    BY DEF JournalInv
  <1> QED
    BY <1>1, JournalInvariant, PTL

\* Whatever the Hub has activated on a computer is in the durable journal for as long as
\* it is active there, so a Hub that crashes at any await finds it when it starts again.
THEOREM JournalCovers == Spec => []JournalCoversOurs
  <1>1. JournalInv => JournalCoversOurs
    BY DEF JournalInv, OursAreOwned, JournalCoversOurs
  <1> QED
    BY <1>1, JournalInvariant, PTL

\* A computer is never given two commands at once: at most one of its tasks runs.
THEOREM OneTaskPerComputer ==
  Spec => [](\A i, j \in Ids, h \in Hosts :
               task[<<i, h>>].state = "running" /\ task[<<j, h>>].state = "running" => i = j)
  <1>1. JournalInv => \A i, j \in Ids, h \in Hosts :
                        task[<<i, h>>].state = "running" /\ task[<<j, h>>].state = "running" => i = j
    BY DEF JournalInv, QueueInv
  <1> QED
    BY <1>1, JournalInvariant, PTL

----------------------------------------------------------------------------
(* What becomes of the tasks in a step that queues none.                     *)

\* Its task for h is as pending as it was, for the same command and the same intent;
\* a lock is tried again only while its intent is the newest.
Carried(i, h) ==
    /\ task[<<i, h>>].state \in Pending
    /\ task'[<<i, h>>].intent = task[<<i, h>>].intent
    /\ task[<<i, h>>].stop => task'[<<i, h>>].stop
    /\ job'[i].feature = job[i].feature /\ job'[i].active = job[i].active
    /\ job'[i].recovery = job[i].recovery /\ job'[i].internal = job[i].internal
    /\ job'[i].observe = job[i].observe
    /\ task'[<<i, h>>].state \in Waiting /\ job[i].feature \in Locks =>
         task[<<i, h>>].state \in Waiting \/ intents[KeyOf(i, h)].id = task[<<i, h>>].intent

\* Nothing is queued.
Calm ==
    /\ \A i \in Ids, h \in Hosts : task'[<<i, h>>].state \in Pending => Carried(i, h)
    /\ queue' \subseteq queue /\ before' \subseteq before

\* Nothing begins to run.
NothingStarts ==
    \A i \in Ids, h \in Hosts : task'[<<i, h>>].state = "running" => task[<<i, h>>].state = "running"

\* Intents end, at most.
IntentsEnd == \A k \in Keys : intents'[k] = intents[k] \/ intents'[k] = NoIntent

\* A task that is not in the queue is not pending.
LEMMA PendingIsQueued ==
  ASSUME QueueInv, NEW i \in Ids, NEW h \in Hosts, task[<<i, h>>].state \in Pending
  PROVE  i \in queue
  BY DEF QueueInv, Pending, Waiting

\* A task without a state has no command that is pending.
LEMMA NotPending ==
  /\ NoTask.state \notin Pending /\ Done.state \notin Pending
  /\ NoTask.state # "running" /\ Done.state # "running"
  BY DEF NoTask, Done, Pending, Waiting

\* A job that nothing changes carries its tasks.
LEMMA SameIsCarried ==
  ASSUME NEW i \in Ids, NEW h \in Hosts, task[<<i, h>>].state \in Pending,
         task'[<<i, h>>] = task[<<i, h>>], job'[i] = job[i]
  PROVE  Carried(i, h)
  BY DEF Carried

\* enqueue(), when it refuses, and prune() queue nothing.
LEMMA PruneIsCalm ==
  ASSUME QueueInv, NEW gone,
         queue' = queue \ gone, before' = DropOrder(gone),
         job' = DropJobs(job, gone), task' = DropTasks(task, gone)
  PROVE  Calm /\ NothingStarts
  <1>1. \A i \in Ids, h \in Hosts :
          \/ task'[<<i, h>>] = NoTask
          \/ task'[<<i, h>>] = task[<<i, h>>] /\ job'[i] = job[i]
    BY DEF DropTasks, DropJobs
  <1>2. queue' \subseteq queue /\ before' \subseteq before
    BY DEF DropOrder
  <1>3. \A i \in Ids, h \in Hosts : task'[<<i, h>>].state \in Pending => Carried(i, h)
    BY <1>1, NotPending, SameIsCarried
  <1>4. NothingStarts
    BY <1>1, NotPending DEF NothingStarts
  <1> QED
    BY <1>2, <1>3, <1>4 DEF Calm

\* run() ends a task, or puts it back, as t.
LEMMA LeaveIsCalm ==
  ASSUME QueueInv, NEW i \in queue, NEW h \in Hosts, NEW t, Leave(i, h, t),
         task[<<i, h>>].state = "running", t.state # "running",
         t.state \in Pending =>
             /\ t.intent = task[<<i, h>>].intent /\ t.stop = task[<<i, h>>].stop
             /\ job[i].feature \in Locks => intents[KeyOf(i, h)].id = task[<<i, h>>].intent
  PROVE  Calm /\ NothingStarts
  <1> DEFINE over == [task EXCEPT ![<<i, h>>] = t]
  <1>1. PICK old : LET gone == Prunable(over, old)
                   IN  /\ queue' = queue \ gone /\ before' = DropOrder(gone)
                       /\ job' = DropJobs(job, gone) /\ task' = DropTasks(over, gone)
    BY DEF Leave
  <1> DEFINE gone == Prunable(over, old)
  <1>2. /\ queue' = queue \ gone /\ before' = DropOrder(gone)
        /\ job' = DropJobs(job, gone) /\ task' = DropTasks(over, gone)
    BY <1>1
  <1>3. \A j \in Ids, g \in Hosts :
          over[<<j, g>>] = IF j = i /\ g = h THEN t ELSE task[<<j, g>>]
    BY DEF QueueInv, QueueTypeOK
  <1> HIDE DEF gone, over
  <1>4. \A j \in Ids, g \in Hosts :
          \/ task'[<<j, g>>] = NoTask
          \/ j = i /\ g = h /\ task'[<<j, g>>] = t /\ job'[j] = job[j]
          \/ task'[<<j, g>>] = task[<<j, g>>] /\ job'[j] = job[j]
    BY <1>2, <1>3 DEF DropTasks, DropJobs
  <1>5. queue' \subseteq queue /\ before' \subseteq before
    BY <1>2 DEF DropOrder
  <1>6. ASSUME NEW j \in Ids, NEW g \in Hosts, task'[<<j, g>>].state \in Pending
        PROVE  Carried(j, g)
    <2>1. CASE j = i /\ g = h /\ task'[<<j, g>>] = t /\ job'[j] = job[j]
      BY <1>6, <2>1 DEF Carried, Pending
    <2>2. CASE task'[<<j, g>>] = task[<<j, g>>] /\ job'[j] = job[j]
      BY <1>6, <2>2, SameIsCarried
    <2> QED
      BY <1>4, <1>6, <2>1, <2>2, NotPending
  <1>7. NothingStarts
    BY <1>4, NotPending DEF NothingStarts
  <1> QED
    BY <1>5, <1>6, <1>7 DEF Calm

\* The ways out of run() queue nothing, and end the task's own intent at most.
LEMMA EndIsCalm ==
  ASSUME QueueInv, Done \in Task, intents \in [Keys -> Intent], NEW i \in queue, NEW h \in Hosts,
         task[<<i, h>>].state = "running",
         \/ Leave(i, h, Done) /\ UNCHANGED intents
         \/ \E revoked \in BOOLEAN : End(i, h, revoked)
         \/ \E retryable \in BOOLEAN : Fail(i, h, retryable)
  PROVE  Calm /\ NothingStarts /\ IntentsEnd
  <1>1. ASSUME Leave(i, h, Done) PROVE Calm /\ NothingStarts
    BY <1>1, LeaveIsCalm, NotPending
  <1>2. ASSUME NEW revoked, End(i, h, revoked) PROVE Calm /\ NothingStarts /\ IntentsEnd
    BY <1>1, <1>2 DEF End, IntentsEnd
  <1>3. ASSUME NEW retryable, Fail(i, h, retryable), MayRetry(i, h, retryable)
        PROVE  Calm /\ NothingStarts /\ IntentsEnd
    <2> DEFINE t == [task[<<i, h>>] EXCEPT !.state = "retrying", !.pc = "none", !.backoff = TRUE]
    <2>1. Leave(i, h, t) /\ UNCHANGED intents /\ Current(i, h)
      BY <1>3 DEF Fail, MayRetry
    <2>2. task[<<i, h>>] \in Task
      BY DEF QueueInv, QueueTypeOK
    <2>3. /\ t.intent = task[<<i, h>>].intent /\ t.stop = task[<<i, h>>].stop
          /\ t.state = "retrying"
      BY <2>2 DEF Task
    <2>4. job[i].feature \in Locks => intents[KeyOf(i, h)].id = task[<<i, h>>].intent
      BY <2>1, QueueAssumption DEF Current
    <2> HIDE DEF t
    <2>5. Calm /\ NothingStarts
      BY <2>1, <2>3, <2>4, LeaveIsCalm
    <2> QED
      BY <2>1, <2>5 DEF IntentsEnd
  <1> QED
    BY <1>1, <1>2, <1>3 DEF Fail, IntentsEnd

\* A task goes on to its next await.
LEMMA StepIsCalm ==
  ASSUME QueueInv, NEW i \in Ids, NEW h \in Hosts, NEW pc, Step(i, h, pc)
  PROVE  Calm /\ NothingStarts
  <1>1. /\ task' = [task EXCEPT ![<<i, h>>].pc = pc] /\ UNCHANGED <<queue, before, job>>
    BY DEF Step
  <1>2. \A j \in Ids, g \in Hosts :
          /\ task'[<<j, g>>].state = task[<<j, g>>].state
          /\ task'[<<j, g>>].intent = task[<<j, g>>].intent
          /\ task'[<<j, g>>].stop = task[<<j, g>>].stop
    <2>1. task[<<i, h>>] \in Task
      BY DEF QueueInv, QueueTypeOK
    <2> DEFINE t == [task[<<i, h>>] EXCEPT !.pc = pc]
    <2>2. /\ t.state = task[<<i, h>>].state /\ t.intent = task[<<i, h>>].intent
          /\ t.stop = task[<<i, h>>].stop
      BY <2>1 DEF Task
    <2>3. \A j \in Ids, g \in Hosts :
            task'[<<j, g>>] = IF j = i /\ g = h THEN t ELSE task[<<j, g>>]
      BY <1>1 DEF QueueInv, QueueTypeOK
    <2> HIDE DEF t
    <2> QED
      BY <2>2, <2>3
  <1>3. NothingStarts
    BY <1>2 DEF NothingStarts
  <1> QED
    BY <1>1, <1>2, <1>3 DEF Calm, Carried

\* Waiting tasks that end, as in cancel() and tick().
LEMMA DropIsCalm ==
  ASSUME NEW S, UNCHANGED <<queue, before, job>>,
         task' = [p \in Ids \X Hosts |->
                    IF p \in S /\ task[p].state \in Waiting THEN Done ELSE task[p]]
  PROVE  Calm /\ NothingStarts
  <1>1. \A i \in Ids, h \in Hosts :
          task'[<<i, h>>] = Done \/ task'[<<i, h>>] = task[<<i, h>>]
    OBVIOUS
  <1>2. NothingStarts
    BY <1>1, NotPending DEF NothingStarts
  <1> QED
    BY <1>1, <1>2, NotPending, SameIsCarried DEF Calm

----------------------------------------------------------------------------
(* What such a step leaves as it was.                                        *)

\* No one is overtaken while nothing starts and nothing is queued.
LEMMA OrderStays ==
  ASSUME QueueInv, NoOvertaking, Calm, NothingStarts
  PROVE  NoOvertaking'
  <1> SUFFICES ASSUME NEW i \in queue', NEW j \in queue', NEW h \in Hosts, <<i, j>> \in before',
                      task'[<<j, h>>].state = "running"
               PROVE  task'[<<i, h>>].state \notin Pending
    BY DEF NoOvertaking
  <1>1. i \in queue /\ j \in queue /\ <<i, j>> \in before /\ i \in Ids /\ j \in Ids
    BY DEF Calm, QueueInv, QueueTypeOK
  <1>2. task[<<j, h>>].state = "running"
    BY <1>1 DEF NothingStarts
  <1>3. task[<<i, h>>].state \notin Pending
    BY <1>1, <1>2 DEF NoOvertaking
  <1> QED
    BY <1>1, <1>3 DEF Calm, Carried

\* A blank intent wants nothing and is nobody's.
LEMMA Blank ==
  NoIntent.id = NoId /\ NoIntent.active = FALSE /\ NoIntent.confirmed = FALSE
  BY DEF NoIntent

\* Tasks, intents and wishes stay as they should be while intents only end.
LEMMA IntentsStay ==
  ASSUME IntentsInv, Calm, IntentsEnd, wish' = wish
  PROVE  IntentsInv'
  <1>1. ASSUME NEW k \in Keys
        PROVE  (k[2] \notin Locks => intents'[k] = NoIntent) /\ (intents'[k].active => wish'[k])
    BY Blank DEF IntentsInv, IntentsEnd
  <1>2. ASSUME NEW i \in Ids, NEW h \in Hosts, task'[<<i, h>>].state \in Pending
        PROVE  /\ job'[i].feature \in Locks => LockTask(i, h)' /\ ~job'[i].observe
               /\ job'[i].feature \in Modes => StartTask(i, h)'
    <2>1. Carried(i, h) /\ task[<<i, h>>].state \in Pending
      BY <1>2 DEF Calm, Carried
    <2>2. KeyOf(i, h)' = KeyOf(i, h)
      BY <2>1 DEF Carried, KeyOf
    <2>3. ASSUME job'[i].feature \in Locks
          PROVE  LockTask(i, h)' /\ ~job'[i].observe
      <3>1. job[i].feature \in Locks /\ KeyOf(i, h) \in Keys
        BY <2>1, <2>3 DEF Carried, KeyOf, Keys, Features
      <3>2. LockTask(i, h) /\ ~job[i].observe
        BY <2>1, <3>1 DEF IntentsInv
      <3>3. intents'[KeyOf(i, h)] = intents[KeyOf(i, h)] \/ intents'[KeyOf(i, h)] = NoIntent
        BY <3>1 DEF IntentsEnd
      <3>4. CASE intents'[KeyOf(i, h)] = NoIntent
        BY <2>1, <2>2, <3>2, <3>4, Blank DEF Carried, LockTask
      <3>5. CASE intents'[KeyOf(i, h)] = intents[KeyOf(i, h)]
        <4>1. /\ task'[<<i, h>>].intent = task[<<i, h>>].intent
              /\ job'[i].active = job[i].active /\ job'[i].internal = job[i].internal
          BY <2>1 DEF Carried
        <4>2. task'[<<i, h>>].state \in Waiting /\ ~job'[i].internal =>
                intents[KeyOf(i, h)].id \in {i, NoId}
          BY <2>1, <3>1, <3>2 DEF Carried, LockTask
        <4>3. intents'[KeyOf(i, h)'] = intents[KeyOf(i, h)]
          BY <2>2, <3>5
        <4>4. /\ task[<<i, h>>].intent # NoId
              /\ IF job[i].internal THEN job[i].active ELSE task[<<i, h>>].intent = i
              /\ intents[KeyOf(i, h)].id = task[<<i, h>>].intent =>
                   intents[KeyOf(i, h)].active = job[i].active
              /\ ~job[i].active => ~intents[KeyOf(i, h)].confirmed
          BY <3>2 DEF LockTask
        <4>5. /\ task'[<<i, h>>].intent # NoId
              /\ IF job'[i].internal THEN job'[i].active ELSE task'[<<i, h>>].intent = i
              /\ intents'[KeyOf(i, h)'].id = task'[<<i, h>>].intent =>
                   intents'[KeyOf(i, h)'].active = job'[i].active
              /\ ~job'[i].active => ~intents'[KeyOf(i, h)'].confirmed
              /\ ~job'[i].internal /\ task'[<<i, h>>].state \in Waiting =>
                   intents'[KeyOf(i, h)'].id \in {i, NoId}
          BY <4>1, <4>2, <4>3, <4>4
        <4> QED
          BY <2>1, <3>2, <4>5 DEF LockTask, Carried
      <3> QED
        BY <2>1, <3>2, <3>3, <3>4, <3>5 DEF Carried
    <2>4. ASSUME job'[i].feature \in Modes
          PROVE  StartTask(i, h)'
      <3>1. StartTask(i, h)
        BY <2>1, <2>4 DEF IntentsInv, Carried
      <3> QED
        BY <2>1, <2>2, <3>1 DEF StartTask, Carried
    <2> QED
      BY <2>3, <2>4
  <1> QED
    BY <1>1, <1>2 DEF IntentsInv

\* Confirmed locks stay owned while nothing is given up.
LEMMA ConfirmedStays ==
  ASSUME ConfirmedIsOwned, IntentsEnd, owned \subseteq owned'
  PROVE  ConfirmedIsOwned'
  BY Blank DEF ConfirmedIsOwned, IntentsEnd

\* What a loop has still to visit is finite.
LEMMA LeftIsFinite ==
  ASSUME left \subseteq Hosts \X Stateful
  PROVE  /\ IsFiniteSet(left) /\ IsFiniteSet({k[2] : k \in left})
         /\ Cardinality(left) \in Nat /\ Cardinality({k[2] : k \in left}) \in Nat
  <1>1. IsFiniteSet(Hosts \X Stateful)
    BY QueueAssumption, LimitsAssumption, FS_Product
  <1>2. {k[2] : k \in left} \subseteq Stateful
    OBVIOUS
  <1> QED
    BY <1>1, <1>2, LimitsAssumption, FS_Subset, FS_CardinalityType

\* There is room for as many stops as before, while there are no more of them to come.
LEMMA RoomStays ==
  ASSUME QueueInv, RoomInv, Calm, left \subseteq Hosts \X Stateful,
         at' \in {"boot", "cleanup"} => at' = at /\ left' = left,
         Cardinality(owned') <= MaxOwned, Cardinality(journal') <= MaxOwned
  PROVE  RoomInv'
  <1>1. IsFiniteSet(queue) /\ IsFiniteSet(queue \X Hosts) /\ queue' \subseteq queue
    BY QueueAssumption, FS_Product DEF RoomInv, Calm
  <1>2. IsFiniteSet(queue') /\ Cardinality(queue') <= Cardinality(queue) /\ Cardinality(queue') \in Nat
        /\ Cardinality(queue) \in Nat
    BY <1>1, FS_Subset, FS_CardinalityType
  <1>3. PendingTasks' \subseteq PendingTasks
    <2>1. \A p \in queue' \X Hosts : p = <<p[1], p[2]>> /\ p[1] \in Ids /\ p[2] \in Hosts
      BY <1>1 DEF QueueInv, QueueTypeOK
    <2> QED
      BY <1>1, <2>1 DEF PendingTasks, Calm, Carried
  <1>4. IsFiniteSet(PendingTasks)
    BY <1>1, FS_Subset DEF PendingTasks
  <1>5. Cardinality(PendingTasks') <= Cardinality(PendingTasks) /\ Cardinality(PendingTasks) \in Nat
        /\ Cardinality(PendingTasks') \in Nat
    BY <1>3, <1>4, FS_Subset, FS_CardinalityType
  <1>6. StopsAlwaysFit'
    <2> SUFFICES ASSUME at' \in {"boot", "cleanup"}
                 PROVE  /\ Cardinality(queue') + Cardinality({k[2] : k \in left'}) <= MaxJobs
                        /\ Cardinality(PendingTasks') + Cardinality(left') <= MaxPending
      BY DEF StopsAlwaysFit
    <2>1. /\ Cardinality(queue) + Cardinality({k[2] : k \in left}) <= MaxJobs
          /\ Cardinality(PendingTasks) + Cardinality(left) <= MaxPending
      BY DEF RoomInv, StopsAlwaysFit
    <2>2. left' = left /\ at \in {"boot", "cleanup"}
      OBVIOUS
    <2> QED
      BY <1>2, <1>5, <2>1, <2>2, LeftIsFinite, QueueAssumption
  <1> QED
    BY <1>2, <1>6 DEF RoomInv

----------------------------------------------------------------------------
(* What accepting a command does to the tasks, intents and wishes there are.  *)

\* A job is queued under an id that nothing knows; what was pending stays so, except for
\* the waiting tasks that a lock command replaces, and a stop marks the starts it is for.
Queued(id, f, active, targets, recovery, internal, observe) ==
    /\ id \in Ids \ queue /\ id \in queue' /\ queue' \subseteq queue \cup {id}
    /\ before' \subseteq before \cup (queue \X {id})
    /\ job'[id] = [feature |-> f, active |-> active, recovery |-> recovery,
                   observe |-> observe, internal |-> internal, expired |-> FALSE]
    /\ \A k \in Keys : intents[k].id # id
    /\ intents' = NewIntents(id, f, active, targets, recovery, internal)
    /\ activeModes' = IF f \in Modes /\ ~active THEN activeModes \ (targets \X {f}) ELSE activeModes
    /\ \A i \in Ids, h \in Hosts : task'[<<i, h>>].state \in Pending =>
         \/ /\ i = id /\ h \in targets /\ task'[<<i, h>>].state = "queued"
            /\ task'[<<i, h>>].intent = intents'[<<h, f>>].id
         \/ /\ i # id /\ task[<<i, h>>].state = task'[<<i, h>>].state
            /\ job'[i] = job[i] /\ task[<<i, h>>].intent # id
            /\ task'[<<i, h>>].intent = task[<<i, h>>].intent
            /\ task[<<i, h>>].stop => task'[<<i, h>>].stop
            /\ job[i].feature = f /\ h \in targets =>
                 /\ f \in Locks /\ ~internal => task[<<i, h>>].state \notin Waiting
                 /\ Stopped(f, active, <<i, h>>) => task'[<<i, h>>].stop
    /\ NothingStarts

\* enqueue(), when it accepts a command.
LEMMA AcceptQueues ==
  ASSUME QueueInv, intents \in [Keys -> Intent],
         NEW f \in Features, NEW active \in BOOLEAN, NEW targets \in SUBSET Hosts,
         NEW recovery \in BOOLEAN, NEW internal \in BOOLEAN, NEW observe \in BOOLEAN, NEW old,
         Accept(f, active, targets, recovery, internal, observe, old)
  PROVE  \E id \in Ids : Queued(id, f, active, targets, recovery, internal, observe)
  <1> DEFINE gone == Prunable(task, old)
             id == CHOOSE i \in Ids : i \notin Referenced
             wanted == NewIntents(id, f, active, targets, recovery, internal)
             sup == Superseded(f, active, targets, internal)
             prior == DropTasks(sup, gone)
             new == [feature |-> f, active |-> active, recovery |-> recovery,
                     observe |-> observe, internal |-> internal, expired |-> FALSE]
  <1>1. id \in Ids /\ id \notin Referenced
    BY DEF Accept
  <1>2. /\ queue' = (queue \ gone) \cup {id}
        /\ before' = DropOrder(gone) \cup ((queue \ gone) \X {id})
        /\ job' = [DropJobs(job, gone) EXCEPT ![id] = new]
        /\ intents' = wanted
        /\ task' = [p \in Ids \X Hosts |->
                      IF p[1] = id /\ p[2] \in targets
                        THEN [NoTask EXCEPT !.state = "queued", !.intent = wanted[<<p[2], f>>].id]
                        ELSE prior[p]]
    BY DEF Accept
  <1>3. \A p \in Ids \X Hosts :
          \/ /\ sup[p] = task[p]
             /\ job[p[1]].feature = f /\ p[2] \in targets =>
                  /\ ~(f \in Locks /\ ~internal /\ task[p].state \in Waiting)
                  /\ ~Stopped(f, active, p)
          \/ sup[p] = Done
          \/ /\ sup[p] = [task[p] EXCEPT !.stop = TRUE]
             /\ job[p[1]].feature = f /\ p[2] \in targets /\ f \in Locks /\ ~internal =>
                  task[p].state \notin Waiting
    BY DEF Superseded
  <1>4. id \notin queue /\ \A k \in Keys : intents[k].id # id
    BY <1>1 DEF Referenced
  <1>5. \A i \in queue, h \in Hosts : task[<<i, h>>].intent # id
    BY <1>1 DEF Referenced
  <1> HIDE DEF gone, id, wanted, sup, new
  <1>6. job'[id] = new /\ \A i \in Ids : i # id /\ i \notin gone => job'[i] = job[i]
    BY <1>1, <1>2 DEF DropJobs
  <1>7. ASSUME NEW i \in Ids, NEW h \in Hosts, i = id, h \in targets
        PROVE  task'[<<i, h>>].state = "queued" /\ task'[<<i, h>>].intent = wanted[<<h, f>>].id
    <2>1. task'[<<i, h>>] = [NoTask EXCEPT !.state = "queued", !.intent = wanted[<<h, f>>].id]
      BY <1>2, <1>7
    <2> QED
      BY <2>1 DEF NoTask
  <1>8. ASSUME NEW i \in Ids, NEW h \in Hosts, ~(i = id /\ h \in targets),
               task'[<<i, h>>].state \in Pending \/ task'[<<i, h>>].state = "running"
        PROVE  /\ i \notin gone /\ i \in queue /\ task'[<<i, h>>] = sup[<<i, h>>]
               /\ sup[<<i, h>>] # Done /\ task[<<i, h>>].state = task'[<<i, h>>].state
               /\ task'[<<i, h>>].intent = task[<<i, h>>].intent
               /\ task[<<i, h>>].stop => task'[<<i, h>>].stop
               /\ sup[<<i, h>>] = [task[<<i, h>>] EXCEPT !.stop = TRUE] => task'[<<i, h>>].stop
    <2>1. task'[<<i, h>>] = prior[<<i, h>>]
      BY <1>2, <1>8
    <2>2. i \notin gone /\ task'[<<i, h>>] = sup[<<i, h>>] /\ sup[<<i, h>>] # Done
      BY <1>8, <2>1, NotPending DEF DropTasks
    <2>3. task[<<i, h>>] \in Task
      BY DEF QueueInv, QueueTypeOK
    <2> DEFINE t == [task[<<i, h>>] EXCEPT !.stop = TRUE]
    <2>4. t.state = task[<<i, h>>].state /\ t.intent = task[<<i, h>>].intent /\ t.stop
      BY <2>3 DEF Task
    <2>5. sup[<<i, h>>] = task[<<i, h>>] \/ sup[<<i, h>>] = t
      BY <1>3, <2>2
    <2> HIDE DEF t
    <2>6. /\ task[<<i, h>>].state = task'[<<i, h>>].state
          /\ task'[<<i, h>>].intent = task[<<i, h>>].intent
          /\ task[<<i, h>>].stop => task'[<<i, h>>].stop
      BY <2>2, <2>4, <2>5
    <2>7. task[<<i, h>>].state \in Pending
      BY <1>8, <2>6 DEF Pending
    <2>8. i \in queue
      BY <2>7, PendingIsQueued
    <2>9. sup[<<i, h>>] = t => task'[<<i, h>>].stop
      BY <2>2, <2>4
    <2> QED
      BY <2>2, <2>6, <2>8, <2>9 DEF t
  <1>9. NothingStarts
    <2> SUFFICES ASSUME NEW i \in Ids, NEW h \in Hosts, task'[<<i, h>>].state = "running"
                 PROVE  task[<<i, h>>].state = "running"
      BY DEF NothingStarts
    <2> QED
      BY <1>7, <1>8
  <1>10. ASSUME NEW i \in Ids, NEW h \in Hosts, task'[<<i, h>>].state \in Pending,
                ~(i = id /\ h \in targets)
         PROVE  /\ i # id /\ task[<<i, h>>].state = task'[<<i, h>>].state
                /\ job'[i] = job[i] /\ task[<<i, h>>].intent # id
                /\ task'[<<i, h>>].intent = task[<<i, h>>].intent
                /\ task[<<i, h>>].stop => task'[<<i, h>>].stop
                /\ job[i].feature = f /\ h \in targets =>
                     /\ f \in Locks /\ ~internal => task[<<i, h>>].state \notin Waiting
                     /\ Stopped(f, active, <<i, h>>) => task'[<<i, h>>].stop
    <2>1. /\ i \notin gone /\ i \in queue /\ sup[<<i, h>>] # Done
          /\ task[<<i, h>>].state = task'[<<i, h>>].state
          /\ task'[<<i, h>>].intent = task[<<i, h>>].intent
          /\ task[<<i, h>>].stop => task'[<<i, h>>].stop
          /\ sup[<<i, h>>] = [task[<<i, h>>] EXCEPT !.stop = TRUE] => task'[<<i, h>>].stop
      BY <1>8, <1>10
    <2>2. i # id /\ job'[i] = job[i] /\ task[<<i, h>>].intent # id
      BY <2>1, <1>4, <1>5, <1>6
    <2>3. ASSUME job[i].feature = f, h \in targets
          PROVE  /\ f \in Locks /\ ~internal => task[<<i, h>>].state \notin Waiting
                 /\ Stopped(f, active, <<i, h>>) => task'[<<i, h>>].stop
      <3>1. CASE sup[<<i, h>>] = [task[<<i, h>>] EXCEPT !.stop = TRUE]
        BY <1>3, <2>1, <2>3, <3>1
      <3>2. CASE sup[<<i, h>>] # [task[<<i, h>>] EXCEPT !.stop = TRUE]
        BY <1>3, <2>1, <2>3, <3>2
      <3> QED
        BY <3>1, <3>2
    <2> QED
      BY <2>1, <2>2, <2>3
  <1>11. /\ id \in queue' /\ queue' \subseteq queue \cup {id}
         /\ before' \subseteq before \cup (queue \X {id})
    BY <1>2 DEF DropOrder
  <1>12. intents' = NewIntents(id, f, active, targets, recovery, internal)
    BY <1>2 DEF wanted
  <1>14. activeModes' = IF f \in Modes /\ ~active THEN activeModes \ (targets \X {f}) ELSE activeModes
    BY DEF Accept
  <1>13. \A i \in Ids, h \in Hosts : task'[<<i, h>>].state \in Pending =>
           \/ /\ i = id /\ h \in targets /\ task'[<<i, h>>].state = "queued"
              /\ task'[<<i, h>>].intent = intents'[<<h, f>>].id
           \/ /\ i # id /\ task[<<i, h>>].state = task'[<<i, h>>].state
              /\ job'[i] = job[i] /\ task[<<i, h>>].intent # id
              /\ task'[<<i, h>>].intent = task[<<i, h>>].intent
              /\ task[<<i, h>>].stop => task'[<<i, h>>].stop
              /\ job[i].feature = f /\ h \in targets =>
                   /\ f \in Locks /\ ~internal => task[<<i, h>>].state \notin Waiting
                   /\ Stopped(f, active, <<i, h>>) => task'[<<i, h>>].stop
    <2> SUFFICES ASSUME NEW i \in Ids, NEW h \in Hosts, task'[<<i, h>>].state \in Pending
                 PROVE  \/ /\ i = id /\ h \in targets /\ task'[<<i, h>>].state = "queued"
                           /\ task'[<<i, h>>].intent = intents'[<<h, f>>].id
                        \/ /\ i # id /\ task[<<i, h>>].state = task'[<<i, h>>].state
                           /\ job'[i] = job[i] /\ task[<<i, h>>].intent # id
                           /\ task'[<<i, h>>].intent = task[<<i, h>>].intent
                           /\ task[<<i, h>>].stop => task'[<<i, h>>].stop
                           /\ job[i].feature = f /\ h \in targets =>
                                /\ f \in Locks /\ ~internal => task[<<i, h>>].state \notin Waiting
                                /\ Stopped(f, active, <<i, h>>) => task'[<<i, h>>].stop
      OBVIOUS
    <2>1. CASE i = id /\ h \in targets
      <3>1. task'[<<i, h>>].state = "queued" /\ task'[<<i, h>>].intent = wanted[<<h, f>>].id
        BY <1>7, <2>1
      <3> QED
        BY <1>2, <2>1, <3>1
    <2>2. CASE ~(i = id /\ h \in targets)
      BY <1>10, <2>2
    <2> QED
      BY <2>1, <2>2
  <1> QED
    BY <1>1, <1>4, <1>6, <1>9, <1>11, <1>12, <1>13, <1>14 DEF Queued, new

\* What enqueue() is called with: a lock is queued without an intent of its own only to
\* re-assert the one there is, a broadcast only to observe it, and the operator's wish
\* follows the command.
AsCalled(f, active, targets, recovery, internal, observe) ==
    /\ f \in Locks => ~observe
    /\ internal /\ f \in Locks =>
         active /\ \A h \in targets : intents[<<h, f>>].id # NoId /\ intents[<<h, f>>].active
    /\ internal /\ f \in Modes => recovery
    /\ \A k \in Keys : wish[k] /\ ~wish'[k] => ~active /\ k \in targets \X {f}
    /\ active /\ ~internal => \A h \in targets : wish'[<<h, f>>]

\* An accepted command leaves intents as they should be.
LEMMA QueuedIntents ==
  ASSUME JournalInv, IntentsInv,
         NEW id, NEW f \in Features, NEW active \in BOOLEAN, NEW targets \in SUBSET Hosts,
         NEW recovery \in BOOLEAN, NEW internal \in BOOLEAN, NEW observe \in BOOLEAN,
         Queued(id, f, active, targets, recovery, internal, observe),
         AsCalled(f, active, targets, recovery, internal, observe)
  PROVE  IntentsInv'
  <1>1. /\ id \in Ids /\ \A k \in Keys : intents[k].id # id
        /\ \A k \in Keys :
             /\ f \in Locks /\ ~internal /\ k[2] = f /\ k[1] \in targets =>
                  /\ intents'[k].id = id /\ intents'[k].active = active
                  /\ intents'[k].confirmed = FALSE
             /\ ~(f \in Locks /\ ~internal /\ k[2] = f /\ k[1] \in targets) =>
                  intents'[k] = intents[k]
    <2>1. id \in Ids /\ \A k \in Keys : intents[k].id # id
      BY DEF Queued
    <2>2. intents' = NewIntents(id, f, active, targets, recovery, internal)
      BY DEF Queued
    <2>3. \A k \in Keys :
             /\ f \in Locks /\ ~internal /\ k[2] = f /\ k[1] \in targets =>
                  /\ intents'[k].id = id /\ intents'[k].active = active
                  /\ intents'[k].confirmed = FALSE
             /\ ~(f \in Locks /\ ~internal /\ k[2] = f /\ k[1] \in targets) =>
                  intents'[k] = intents[k]
      BY <2>2 DEF NewIntents
    <2> QED
      BY <2>1, <2>3
  <1>2. ASSUME NEW k \in Keys
        PROVE  (k[2] \notin Locks => intents'[k] = NoIntent) /\ (intents'[k].active => wish'[k])
    <2>1. k = <<k[1], k[2]>> /\ k[1] \in Hosts /\ k[2] \in Features
      BY DEF Keys
    <2>2. k[2] \notin Locks => intents'[k] = NoIntent
      BY <1>1 DEF IntentsInv
    <2>3. ASSUME f \in Locks, ~internal, k[2] = f, k[1] \in targets, intents'[k].active
          PROVE  wish'[k]
      <3>1. active
        BY <1>1, <2>3
      <3> QED
        BY <2>1, <2>3, <3>1 DEF AsCalled
    <2>4. ASSUME ~(f \in Locks /\ ~internal /\ k[2] = f /\ k[1] \in targets), intents'[k].active
          PROVE  wish'[k]
      <3>1. intents'[k] = intents[k]
        BY <1>1, <2>4
      <3>2. wish[k] /\ k[2] \in Locks
        BY <2>4, <3>1, Blank DEF IntentsInv
      <3> QED
        BY <2>4, <3>2 DEF AsCalled
    <2> QED
      BY <2>2, <2>3, <2>4
  <1>3. ASSUME NEW i \in Ids, NEW h \in Hosts, i = id, h \in targets,
               task'[<<i, h>>].state = "queued", task'[<<i, h>>].intent = intents'[<<h, f>>].id
        PROVE  /\ job'[i].feature \in Locks => LockTask(i, h)' /\ ~job'[i].observe
               /\ job'[i].feature \in Modes => StartTask(i, h)'
    <2>1. /\ job'[i].feature = f /\ job'[i].active = active /\ job'[i].recovery = recovery
          /\ job'[i].observe = observe /\ job'[i].internal = internal
      BY <1>3 DEF Queued
    <2>2. KeyOf(i, h)' = <<h, f>> /\ <<h, f>> \in Keys
      BY <2>1 DEF KeyOf, Keys
    <2>3. ASSUME f \in Locks PROVE LockTask(i, h)' /\ ~observe
      <3>1. CASE internal
        <4>1. intents'[<<h, f>>] = intents[<<h, f>>]
          BY <1>1, <2>2, <3>1
        <4>2. active /\ intents[<<h, f>>].id # NoId /\ intents[<<h, f>>].active
          BY <1>3, <2>3, <3>1 DEF AsCalled
        <4>3. intents[<<h, f>>].active = TRUE
          BY <2>2, <4>2 DEF JournalInv, TypeOK, Intent
        <4> QED
          BY <1>3, <2>1, <2>2, <2>3, <3>1, <4>1, <4>2, <4>3 DEF LockTask, AsCalled
      <3>2. CASE ~internal
        <4>1. /\ intents'[<<h, f>>].id = id /\ intents'[<<h, f>>].active = active
              /\ intents'[<<h, f>>].confirmed = FALSE
          BY <1>1, <1>3, <2>2, <2>3, <3>2
        <4>2. id # NoId
          BY <1>1, QueueAssumption
        <4> QED
          BY <1>3, <2>1, <2>2, <2>3, <3>2, <4>1, <4>2 DEF LockTask, AsCalled
      <3> QED
        BY <3>1, <3>2
    <2>4. ASSUME f \in Modes PROVE StartTask(i, h)'
      BY <1>3, <2>1, <2>2, <2>4 DEF StartTask, AsCalled
    <2> QED
      BY <2>1, <2>3, <2>4
  <1>4. ASSUME NEW i \in Ids, NEW h \in Hosts, task'[<<i, h>>].state \in Pending,
               i # id, task[<<i, h>>].state = task'[<<i, h>>].state,
               job'[i] = job[i], task[<<i, h>>].intent # id,
               task'[<<i, h>>].intent = task[<<i, h>>].intent,
               task[<<i, h>>].stop => task'[<<i, h>>].stop,
               job[i].feature = f /\ h \in targets =>
                 /\ f \in Locks /\ ~internal => task[<<i, h>>].state \notin Waiting
                 /\ Stopped(f, active, <<i, h>>) => task'[<<i, h>>].stop
        PROVE  /\ job'[i].feature \in Locks => LockTask(i, h)' /\ ~job'[i].observe
               /\ job'[i].feature \in Modes => StartTask(i, h)'
    <2> DEFINE k == KeyOf(i, h)
    <2>1. KeyOf(i, h)' = k /\ k \in Keys /\ k[1] = h /\ k[2] = job[i].feature
          /\ k = <<h, job[i].feature>>
      BY <1>4 DEF KeyOf, Keys, JournalInv, QueueInv, QueueTypeOK, Job
    <2>2. /\ job[i].feature \in Locks => LockTask(i, h) /\ ~job[i].observe
          /\ job[i].feature \in Modes => StartTask(i, h)
      BY <1>4 DEF IntentsInv
    <2> HIDE DEF k
    <2>3. ASSUME job[i].feature \in Locks PROVE LockTask(i, h)'
      <3>1. /\ task[<<i, h>>].intent # NoId
            /\ IF job[i].internal THEN job[i].active ELSE task[<<i, h>>].intent = i
            /\ intents[k].id = task[<<i, h>>].intent => intents[k].active = job[i].active
            /\ ~job[i].internal /\ task[<<i, h>>].state \in Waiting => intents[k].id \in {i, NoId}
            /\ ~job[i].active => ~intents[k].confirmed
        BY <2>2, <2>3 DEF LockTask, k
      <3>2. CASE f \in Locks /\ ~internal /\ k[2] = f /\ k[1] \in targets
        <4>1. intents'[k].id = id /\ intents'[k].confirmed = FALSE
          BY <1>1, <2>1, <3>2
        <4>2. task'[<<i, h>>].state \notin Waiting
          BY <1>4, <2>1, <3>2
        <4> QED
          BY <1>4, <2>1, <3>1, <4>1, <4>2 DEF LockTask
      <3>3. CASE ~(f \in Locks /\ ~internal /\ k[2] = f /\ k[1] \in targets)
        <4>1. intents'[k] = intents[k]
          BY <1>1, <2>1, <3>3
        <4> QED
          BY <1>4, <2>1, <3>1, <4>1 DEF LockTask
      <3> QED
        BY <3>2, <3>3
    <2>4. ASSUME job[i].feature \in Modes PROVE StartTask(i, h)'
      <3> SUFFICES ASSUME job[i].active, ~job[i].recovery, ~task'[<<i, h>>].stop
                   PROVE  wish'[k]
        BY <1>4, <2>1 DEF StartTask
      <3>1. ~task[<<i, h>>].stop /\ wish[k]
        BY <1>4, <2>2, <2>4 DEF StartTask, k
      <3>2. ASSUME ~wish'[k] PROVE FALSE
        <4>1. ~active /\ h \in targets /\ job[i].feature = f
          BY <2>1, <3>1, <3>2 DEF AsCalled
        <4>2. Stopped(f, active, <<i, h>>)
          BY <1>4, <2>4, <4>1 DEF Stopped
        <4> QED
          BY <1>4, <4>1, <4>2
      <3> QED
        BY <3>2
    <2> QED
      BY <1>4, <2>2, <2>3, <2>4
  <1>5. \A i \in Ids, h \in Hosts : task'[<<i, h>>].state \in Pending =>
          /\ job'[i].feature \in Locks => LockTask(i, h)' /\ ~job'[i].observe
          /\ job'[i].feature \in Modes => StartTask(i, h)'
    <2> SUFFICES ASSUME NEW i \in Ids, NEW h \in Hosts, task'[<<i, h>>].state \in Pending
                 PROVE  /\ job'[i].feature \in Locks => LockTask(i, h)' /\ ~job'[i].observe
                        /\ job'[i].feature \in Modes => StartTask(i, h)'
      OBVIOUS
    <2> QED
      BY <1>3, <1>4 DEF Queued
  <1> QED
    BY <1>2, <1>5 DEF IntentsInv

\* Nobody is overtaken, no confirmed lock is disowned, and no broadcast is wanted that
\* was stopped.
LEMMA QueuedKeeps ==
  ASSUME JournalInv, IntentsInv, NoOvertaking, ConfirmedIsOwned, WantedModesWereAsked,
         NEW id, NEW f \in Features, NEW active \in BOOLEAN, NEW targets \in SUBSET Hosts,
         NEW recovery \in BOOLEAN, NEW internal \in BOOLEAN, NEW observe \in BOOLEAN,
         Queued(id, f, active, targets, recovery, internal, observe),
         AsCalled(f, active, targets, recovery, internal, observe),
         owned' = owned
  PROVE  NoOvertaking' /\ ConfirmedIsOwned' /\ WantedModesWereAsked'
  <1>1. ASSUME NEW i \in queue', NEW j \in queue', NEW h \in Hosts, <<i, j>> \in before',
               task'[<<j, h>>].state = "running", task'[<<i, h>>].state \in Pending
        PROVE  FALSE
    <2>1. /\ id \in Ids \ queue /\ queue' \subseteq queue \cup {id}
          /\ before' \subseteq before \cup (queue \X {id}) /\ NothingStarts
      BY DEF Queued
    <2>2. queue \subseteq Ids /\ before \subseteq queue \X queue /\ QueueInv
      BY DEF JournalInv, QueueInv, QueueTypeOK
    <2>3. j \in Ids /\ i \in Ids /\ task[<<j, h>>].state = "running"
      BY <1>1, <2>1, <2>2 DEF NothingStarts
    <2>4. j \in queue
      BY <2>2, <2>3, PendingIsQueued DEF Pending
    <2>5. <<i, j>> \in before /\ i \in queue /\ i # id
      BY <1>1, <2>1, <2>2, <2>4
    <2>6. task[<<i, h>>].state \in Pending
      BY <1>1, <2>3, <2>5 DEF Queued
    <2> QED
      BY <2>3, <2>4, <2>5, <2>6 DEF NoOvertaking
  <1>2. ConfirmedIsOwned'
    <2> SUFFICES ASSUME NEW k \in Keys, intents'[k].confirmed
                 PROVE  intents'[k].active /\ k \in owned'
      BY DEF ConfirmedIsOwned
    <2>1. intents'[k] = intents[k]
      BY DEF Queued, NewIntents
    <2> QED
      BY <2>1 DEF ConfirmedIsOwned
  <1>3. WantedModesWereAsked'
    <2> SUFFICES ASSUME NEW k \in activeModes', ~wish'[k] PROVE FALSE
      BY DEF WantedModesWereAsked
    <2>1. k \in activeModes /\ k \in Hosts \X Modes /\ k \in Keys
      BY DEF Queued, JournalInv, TypeOK, Keys, Features
    <2>2. ~active /\ k \in targets \X {f}
      BY <2>1 DEF WantedModesWereAsked, AsCalled
    <2>3. activeModes' = IF f \in Modes /\ ~active THEN activeModes \ (targets \X {f}) ELSE activeModes
      BY DEF Queued
    <2> QED
      BY <2>1, <2>2, <2>3
  <1> QED
    BY <1>1, <1>2, <1>3 DEF NoOvertaking

----------------------------------------------------------------------------
(* The room for stops.                                                       *)

\* A command that was queued is one job more, and a task more for each computer.
LEMMA QueuedSize ==
  ASSUME QueueInv, IsFiniteSet(queue), NEW id, NEW f, NEW active, NEW targets \in SUBSET Hosts,
         NEW recovery, NEW internal, NEW observe,
         Queued(id, f, active, targets, recovery, internal, observe)
  PROVE  /\ IsFiniteSet(queue') /\ Cardinality(queue') <= Cardinality(queue) + 1
         /\ Cardinality(PendingTasks') <= Cardinality(PendingTasks) + Cardinality(targets)
         /\ Cardinality(queue) \in Nat /\ Cardinality(queue') \in Nat
         /\ Cardinality(PendingTasks) \in Nat /\ Cardinality(PendingTasks') \in Nat
         /\ Cardinality(targets) \in Nat
  <1>1. /\ id \in Ids /\ id \notin queue /\ queue' \subseteq queue \cup {id}
        /\ queue \subseteq Ids
    BY DEF Queued, QueueInv, QueueTypeOK
  <1>2. /\ IsFiniteSet(queue') /\ Cardinality(queue') <= Cardinality(queue) + 1
        /\ Cardinality(queue) \in Nat /\ Cardinality(queue') \in Nat
    <2>1. IsFiniteSet(queue \cup {id}) /\ Cardinality(queue \cup {id}) = Cardinality(queue) + 1
      BY <1>1, FS_AddElement
    <2> QED
      BY <1>1, <2>1, FS_Subset, FS_CardinalityType
  <1>3. PendingTasks' \subseteq PendingTasks \cup ({id} \X targets)
    <2> SUFFICES ASSUME NEW i \in queue', NEW h \in Hosts, task'[<<i, h>>].state \in Pending
                 PROVE  <<i, h>> \in PendingTasks \cup ({id} \X targets)
      BY DEF PendingTasks
    <2>1. i \in Ids
      BY <1>1
    <2>2. \/ i = id /\ h \in targets
          \/ task[<<i, h>>].state \in Pending
      BY <2>1 DEF Queued
    <2>3. task[<<i, h>>].state \in Pending => <<i, h>> \in PendingTasks
      BY <2>1, PendingIsQueued DEF PendingTasks
    <2> QED
      BY <2>2, <2>3
  <1>4. IsFiniteSet(targets) /\ IsFiniteSet({id}) /\ Cardinality({id}) = 1
    BY QueueAssumption, FS_Subset, FS_Singleton
  <1>5. /\ IsFiniteSet({id} \X targets) /\ Cardinality(targets) \in Nat
        /\ Cardinality({id} \X targets) = 1 * Cardinality(targets)
    BY <1>4, FS_Product, FS_CardinalityType
  <1>6. IsFiniteSet(PendingTasks)
    <2>1. IsFiniteSet(queue \X Hosts)
      BY QueueAssumption, FS_Product
    <2> QED
      BY <2>1, FS_Subset DEF PendingTasks
  <1>7. /\ IsFiniteSet(PendingTasks \cup ({id} \X targets))
        /\ Cardinality(PendingTasks \cup ({id} \X targets)) <=
             Cardinality(PendingTasks) + Cardinality(targets)
        /\ Cardinality(PendingTasks) \in Nat
    <2>1. /\ IsFiniteSet(PendingTasks \cup ({id} \X targets))
          /\ Cardinality(PendingTasks \cup ({id} \X targets)) =
               Cardinality(PendingTasks) + Cardinality({id} \X targets)
                 - Cardinality(PendingTasks \cap ({id} \X targets))
      BY <1>5, <1>6, FS_Union
    <2>2. Cardinality(PendingTasks \cap ({id} \X targets)) \in Nat
      BY <1>6, FS_Intersection, FS_CardinalityType
    <2>3. Cardinality(PendingTasks) \in Nat
      BY <1>6, FS_CardinalityType
    <2> QED
      BY <1>5, <2>1, <2>2, <2>3
  <1>8. /\ Cardinality(PendingTasks') <= Cardinality(PendingTasks \cup ({id} \X targets))
        /\ Cardinality(PendingTasks') \in Nat
        /\ Cardinality(PendingTasks \cup ({id} \X targets)) \in Nat
    BY <1>3, <1>7, FS_Subset, FS_CardinalityType
  <1>9. Cardinality(PendingTasks') <= Cardinality(PendingTasks) + Cardinality(targets)
    BY <1>5, <1>7, <1>8
  <1> QED
    BY <1>2, <1>5, <1>7, <1>8, <1>9

\* What a stop of f takes from what is left: a feature, and its computers.
LEMMA LeftAfter ==
  ASSUME left \subseteq Hosts \X Stateful, NEW f, NEW targets,
         targets = {h \in Hosts : <<h, f>> \in left}, targets # {}
  PROVE  /\ Cardinality(left \ (targets \X {f})) + Cardinality(targets) = Cardinality(left)
         /\ Cardinality({k[2] : k \in left \ (targets \X {f})}) + 1 <= Cardinality({k[2] : k \in left})
         /\ Cardinality(targets) \in Nat /\ Cardinality(left \ (targets \X {f})) \in Nat
         /\ Cardinality({k[2] : k \in left \ (targets \X {f})}) \in Nat
  <1> DEFINE P == targets \X {f}
             rest == left \ P
             F == {k[2] : k \in left}
             G == {k[2] : k \in rest}
  <1>1. /\ IsFiniteSet(left) /\ IsFiniteSet(F)
        /\ Cardinality(left) \in Nat /\ Cardinality(F) \in Nat
    BY LeftIsFinite
  <1>2. IsFiniteSet(targets) /\ IsFiniteSet({f}) /\ Cardinality({f}) = 1 /\ Cardinality(targets) \in Nat
    BY QueueAssumption, FS_Subset, FS_Singleton, FS_CardinalityType
  <1>3. Cardinality(P) = Cardinality(targets)
    <2>1. Cardinality(P) = Cardinality(targets) * 1
      BY <1>2, FS_Product
    <2> QED
      BY <1>2, <2>1
  <1>4. P \subseteq left /\ left \cap P = P
    OBVIOUS
  <1>5. IsFiniteSet(rest) /\ Cardinality(rest) = Cardinality(left) - Cardinality(P)
        /\ Cardinality(rest) \in Nat
    <2>1. IsFiniteSet(left \ P) /\ Cardinality(left \ P) = Cardinality(left) - Cardinality(left \cap P)
      BY <1>1, FS_Difference
    <2>2. Cardinality(left \cap P) = Cardinality(P)
      BY <1>4
    <2>3. Cardinality(left \ P) \in Nat
      BY <2>1, FS_CardinalityType
    <2> QED
      BY <2>1, <2>2, <2>3
  <1>6. f \in F /\ G \subseteq F \ {f}
    <2>1. PICK h \in Hosts : <<h, f>> \in left
      OBVIOUS
    <2>2. f \in F
      BY <2>1
    <2>3. \A k \in left : k = <<k[1], k[2]>> /\ k[1] \in Hosts
      OBVIOUS
    <2>4. \A k \in rest : k[2] # f
      BY <2>3
    <2> QED
      BY <2>2, <2>4
  <1>7. IsFiniteSet(F \ {f}) /\ Cardinality(F \ {f}) = Cardinality(F) - 1
    BY <1>1, <1>6, FS_RemoveElement
  <1>8. Cardinality(G) <= Cardinality(F \ {f}) /\ Cardinality(G) \in Nat
    BY <1>6, <1>7, FS_Subset, FS_CardinalityType
  <1> QED
    BY <1>1, <1>2, <1>3, <1>5, <1>7, <1>8

\* The next stop of a cleanup, or the next release after a restart, is never refused.
LEMMA StopsAreAccepted ==
  ASSUME QueueInv, RoomInv, left \subseteq Hosts \X Stateful, NEW f, NEW targets, NEW gone,
         targets = {h \in Hosts : <<h, f>> \in left}, targets # {}, at \in {"boot", "cleanup"}
  PROVE  HasRoom(gone, targets)
  <1>1. /\ Cardinality(queue) + Cardinality({k[2] : k \in left}) <= MaxJobs
        /\ Cardinality(PendingTasks) + Cardinality(left) <= MaxPending
        /\ IsFiniteSet(queue)
    BY DEF RoomInv, StopsAlwaysFit
  <1>2. /\ Cardinality(left \ (targets \X {f})) + Cardinality(targets) = Cardinality(left)
        /\ Cardinality({k[2] : k \in left \ (targets \X {f})}) + 1 <= Cardinality({k[2] : k \in left})
        /\ Cardinality(targets) \in Nat /\ Cardinality(left \ (targets \X {f})) \in Nat
        /\ Cardinality({k[2] : k \in left \ (targets \X {f})}) \in Nat
    BY LeftAfter
  <1>3. /\ Cardinality(queue \ gone) <= Cardinality(queue) /\ Cardinality(queue) \in Nat
        /\ Cardinality(queue \ gone) \in Nat
    BY <1>1, FS_Subset, FS_CardinalityType
  <1>4. Cardinality(PendingTasks) \in Nat
    <2>1. IsFiniteSet(queue \X Hosts)
      BY <1>1, QueueAssumption, FS_Product
    <2> QED
      BY <2>1, FS_Subset, FS_CardinalityType DEF PendingTasks
  <1>5. Cardinality(left) \in Nat /\ Cardinality({k[2] : k \in left}) \in Nat
    BY LeftIsFinite
  <1> QED
    BY <1>1, <1>2, <1>3, <1>4, <1>5, QueueAssumption DEF HasRoom

\* Owning one key more, or one less, stays within the journal's limit.
LEMMA OwnedIsBounded ==
  ASSUME JournalInv, RoomInv, NEW k, Journaled(k) \/ UNCHANGED <<owned, journal>>
  PROVE  /\ owned \subseteq owned'
         /\ Cardinality(owned') <= MaxOwned /\ Cardinality(journal') <= MaxOwned
  <1>1. IsFiniteSet(owned)
    <2>1. IsFiniteSet(Hosts \X Stateful)
      BY QueueAssumption, LimitsAssumption, FS_Product
    <2> QED
      BY <2>1, FS_Subset DEF JournalInv, TypeOK
  <1>2. Cardinality(owned) \in Nat
    BY <1>1, FS_CardinalityType
  <1>3. CASE Journaled(k)
    <2>1. owned' = owned \cup {k} /\ journal' = owned' /\ (k \in owned \/ Cardinality(owned) < MaxOwned)
      BY <1>3 DEF Journaled
    <2>2. Cardinality(owned \cup {k}) = IF k \in owned THEN Cardinality(owned) ELSE Cardinality(owned) + 1
      BY <1>1, FS_AddElement
    <2> QED
      BY <1>2, <2>1, <2>2, QueueAssumption DEF RoomInv
  <1> QED
    BY <1>3 DEF RoomInv

\* A key that is given up leaves room in the journal.
LEMMA ReleasedIsBounded ==
  ASSUME JournalInv, RoomInv, NEW k, owned' = owned \ {k}, journal' = owned' \/ journal' = journal
  PROVE  Cardinality(owned') <= MaxOwned /\ Cardinality(journal') <= MaxOwned
  <1>1. IsFiniteSet(owned)
    <2>1. IsFiniteSet(Hosts \X Stateful)
      BY QueueAssumption, LimitsAssumption, FS_Product
    <2> QED
      BY <2>1, FS_Subset DEF JournalInv, TypeOK
  <1>2. Cardinality(owned) \in Nat /\ Cardinality(owned') \in Nat
        /\ Cardinality(owned') <= Cardinality(owned)
    BY <1>1, FS_Subset, FS_CardinalityType
  <1> QED
    BY <1>2, QueueAssumption DEF RoomInv

\* A step that queues nothing, starts nothing and gives nothing up.
LEMMA CalmKeeps ==
  ASSUME JournalInv, Promises, Calm, NothingStarts, IntentsEnd, wish' = wish,
         activeModes' \subseteq activeModes, owned \subseteq owned',
         Cardinality(owned') <= MaxOwned, Cardinality(journal') <= MaxOwned,
         at' \in {"boot", "cleanup"} => at' = at /\ left' = left,
         LoopsRun'
  PROVE  Promises'
  <1>1. NoOvertaking' /\ IntentsInv' /\ ConfirmedIsOwned'
    BY OrderStays, IntentsStay, ConfirmedStays DEF JournalInv, Promises
  <1>2. WantedModesWereAsked'
    BY DEF Promises, WantedModesWereAsked
  <1>3. RoomInv'
    BY RoomStays DEF JournalInv, TypeOK, Promises
  <1> QED
    BY <1>1, <1>2, <1>3 DEF Promises

\* An accepted command, outside the loops that queue stops.
LEMMA QueuedPromises ==
  ASSUME JournalInv, Promises,
         NEW f \in Features, NEW active \in BOOLEAN, NEW targets \in SUBSET Hosts,
         NEW recovery \in BOOLEAN, NEW internal \in BOOLEAN, NEW observe \in BOOLEAN, NEW old,
         Accept(f, active, targets, recovery, internal, observe, old),
         AsCalled(f, active, targets, recovery, internal, observe),
         UNCHANGED <<owned, journal>>,
         at' \notin {"boot", "cleanup"}, LoopsRun'
  PROVE  Promises'
  <1>1. QueueInv /\ intents \in [Keys -> Intent]
    BY DEF JournalInv, TypeOK
  <1>2. PICK id \in Ids : Queued(id, f, active, targets, recovery, internal, observe)
    BY <1>1, AcceptQueues
  <1>4. IntentsInv'
    BY <1>2, QueuedIntents DEF Promises
  <1>5. NoOvertaking' /\ ConfirmedIsOwned' /\ WantedModesWereAsked'
    <2>1. /\ IntentsInv /\ NoOvertaking /\ ConfirmedIsOwned /\ WantedModesWereAsked
          /\ owned' = owned
      BY DEF Promises
    <2> QED
      BY <1>2, <2>1, QueuedKeeps
  <1>6. RoomInv'
    <2>1. IsFiniteSet(queue')
      BY <1>1, <1>2, QueuedSize DEF Promises, RoomInv
    <2> QED
      BY <2>1 DEF Promises, RoomInv, StopsAlwaysFit
  <1> QED
    BY <1>4, <1>5, <1>6 DEF Promises

\* A command that is refused only prunes.
LEMMA RefusedPromises ==
  ASSUME JournalInv, Promises, NEW targets, NEW old, Refuse(targets, old),
         UNCHANGED <<owned, journal, wish>>, at' \notin {"boot", "cleanup"}, LoopsRun'
  PROVE  Promises'
  <1>1. Calm /\ NothingStarts
    BY PruneIsCalm DEF Refuse, JournalInv
  <1>2. IntentsEnd /\ activeModes' = activeModes
    BY DEF Refuse, IntentsEnd
  <1> QED
    BY <1>1, <1>2, CalmKeeps DEF Promises, RoomInv

\* An operator's command.
LEMMA CommandKeeps ==
  ASSUME JournalInv, Promises, NEW f \in Features, NEW active \in BOOLEAN,
         NEW targets \in SUBSET Hosts, Command(f, active, targets)
  PROVE  Promises'
  <1>1. /\ at' = "tick" /\ UNCHANGED <<owned, journal>> /\ LoopsRun'
    BY DEF Command, LoopsRun
  <1>2. PICK old : \/ Accept(f, active, targets, FALSE, FALSE, FALSE, old)
                   \/ Refuse(targets, old)
    BY DEF Command, Enqueue
  <1>3. CASE Accept(f, active, targets, FALSE, FALSE, FALSE, old)
    <2>1. PICK id \in Ids : Queued(id, f, active, targets, FALSE, FALSE, FALSE)
      BY <1>3, AcceptQueues DEF JournalInv, TypeOK
    <2>2. ~(queue' \subseteq queue)
      BY <2>1 DEF Queued
    <2>3. wish' = [k \in Keys |-> IF k \in targets \X {f} THEN active ELSE wish[k]]
      BY <2>2 DEF Command
    <2>4. AsCalled(f, active, targets, FALSE, FALSE, FALSE)
      BY <2>3 DEF AsCalled, Keys
    <2> QED
      BY <1>1, <1>3, <2>4, QueuedPromises
  <1>4. CASE Refuse(targets, old)
    <2>1. wish' = wish
      BY <1>4 DEF Command, Refuse
    <2> QED
      BY <1>1, <1>4, <2>1, RefusedPromises
  <1> QED
    BY <1>2, <1>3, <1>4

\* One iteration of reconcile(): a confirmed lock again, a broadcast watched, or a release.
LEMMA ReconcileKeyKeeps ==
  ASSUME JournalInv, Promises, NEW k \in Keys, ReconcileKey(k)
  PROVE  Promises'
  <1>1. /\ at' \notin {"boot", "cleanup"} /\ UNCHANGED <<owned, journal, wish>> /\ LoopsRun'
    BY DEF ReconcileKey, LoopsRun, Promises
  <1>2. /\ k = <<k[1], k[2]>> /\ k[1] \in Hosts /\ k[2] \in Features
        /\ intents[k].recovery \in BOOLEAN
    BY DEF Keys, JournalInv, TypeOK, Intent
  <1>3. ASSUME NEW active \in BOOLEAN, NEW recovery \in BOOLEAN, NEW internal \in BOOLEAN,
               NEW observe \in BOOLEAN, AsCalled(k[2], active, {k[1]}, recovery, internal, observe),
               Enqueue(k[2], active, {k[1]}, recovery, internal, observe)
        PROVE  Promises'
    <2>1. PICK old : \/ Accept(k[2], active, {k[1]}, recovery, internal, observe, old)
                     \/ Refuse({k[1]}, old)
      BY <1>3 DEF Enqueue
    <2>2. CASE Accept(k[2], active, {k[1]}, recovery, internal, observe, old)
      BY <1>1, <1>2, <1>3, <2>2, QueuedPromises
    <2>3. CASE Refuse({k[1]}, old)
      BY <1>1, <2>3, RefusedPromises
    <2> QED
      BY <2>1, <2>2, <2>3
  <1>4. CASE Reassert(k) /\ Enqueue(k[2], TRUE, {k[1]}, intents[k].recovery, TRUE, FALSE)
    <2>1. intents[k].id # NoId /\ intents[k].active
      BY <1>4 DEF Reassert
    <2>2. k[2] \notin Modes
      BY <2>1, Blank, QueueAssumption DEF Promises, IntentsInv
    <2>3. AsCalled(k[2], TRUE, {k[1]}, intents[k].recovery, TRUE, FALSE)
      BY <1>1, <1>2, <2>1, <2>2 DEF AsCalled
    <2> QED
      BY <1>2, <1>3, <1>4, <2>3
  <1>5. CASE k \in activeModes /\ Enqueue(k[2], TRUE, {k[1]}, TRUE, TRUE, TRUE)
    <2>1. k[2] \notin Locks
      BY <1>5, QueueAssumption DEF JournalInv, TypeOK
    <2>2. AsCalled(k[2], TRUE, {k[1]}, TRUE, TRUE, TRUE)
      BY <1>1, <2>1 DEF AsCalled
    <2> QED
      BY <1>3, <1>5, <2>2
  <1>6. CASE Enqueue(k[2], FALSE, {k[1]}, TRUE, FALSE, FALSE)
    <2>1. AsCalled(k[2], FALSE, {k[1]}, TRUE, FALSE, FALSE)
      BY <1>1 DEF AsCalled
    <2> QED
      BY <1>3, <1>6, <2>1
  <1> QED
    BY <1>4, <1>5, <1>6 DEF ReconcileKey

\* A stop of a cleanup, or a release owed after a restart: it is accepted, and there is
\* still room for those that follow.
LEMMA EnqueueStopsKeeps ==
  ASSUME JournalInv, Promises, NEW f \in Stateful, EnqueueStops(f)
  PROVE  Promises'
  <1> DEFINE targets == {h \in Hosts : <<h, f>> \in left}
             recovery == at = "boot"
  <1>1. /\ at \in {"boot", "cleanup"} /\ targets # {}
        /\ Enqueue(f, FALSE, targets, recovery, FALSE, FALSE)
        /\ left' = left \ (targets \X {f})
        /\ at' = IF left' = {} THEN "tick" ELSE at
        /\ wish' = [k \in Keys |-> IF k \in targets \X {f} THEN FALSE ELSE wish[k]]
        /\ UNCHANGED <<owned, journal, paused, endpoint, ours>>
    BY DEF EnqueueStops
  <1>2. /\ QueueInv /\ intents \in [Keys -> Intent] /\ left \subseteq Hosts \X Stateful
        /\ RoomInv /\ f \in Features /\ targets \in SUBSET Hosts /\ recovery \in BOOLEAN
    BY DEF JournalInv, TypeOK, Promises, Features, Stateful
  <1>3. targets = {h \in Hosts : <<h, f>> \in left}
    OBVIOUS
  <1> HIDE DEF targets, recovery
  <1>4. PICK old : Accept(f, FALSE, targets, recovery, FALSE, FALSE, old)
    <2>1. \A gone : HasRoom(gone, targets)
      BY <1>1, <1>2, <1>3, StopsAreAccepted
    <2> QED
      BY <1>1, <2>1 DEF Enqueue, Refuse
  <1>5. PICK id \in Ids : Queued(id, f, FALSE, targets, recovery, FALSE, FALSE)
    BY <1>2, <1>4, AcceptQueues
  <1>6. AsCalled(f, FALSE, targets, recovery, FALSE, FALSE)
    BY <1>1 DEF AsCalled
  <1>8. IntentsInv'
    BY <1>2, <1>5, <1>6, QueuedIntents DEF Promises
  <1>9. NoOvertaking' /\ ConfirmedIsOwned' /\ WantedModesWereAsked'
    BY <1>1, <1>2, <1>5, <1>6, QueuedKeeps DEF Promises
  <1>10. /\ IsFiniteSet(queue') /\ Cardinality(queue') <= Cardinality(queue) + 1
         /\ Cardinality(PendingTasks') <= Cardinality(PendingTasks) + Cardinality(targets)
         /\ Cardinality(queue) \in Nat /\ Cardinality(queue') \in Nat
         /\ Cardinality(PendingTasks) \in Nat /\ Cardinality(PendingTasks') \in Nat
         /\ Cardinality(targets) \in Nat
    BY <1>2, <1>5, QueuedSize DEF RoomInv
  <1>11. /\ Cardinality(left') + Cardinality(targets) = Cardinality(left)
         /\ Cardinality({k[2] : k \in left'}) + 1 <= Cardinality({k[2] : k \in left})
         /\ Cardinality(left') \in Nat /\ Cardinality({k[2] : k \in left'}) \in Nat
    BY <1>1, <1>2, <1>3, LeftAfter
  <1>12. Cardinality(left) \in Nat /\ Cardinality({k[2] : k \in left}) \in Nat
    BY <1>2, LeftIsFinite
  <1>13. /\ Cardinality(queue) + Cardinality({k[2] : k \in left}) <= MaxJobs
         /\ Cardinality(PendingTasks) + Cardinality(left) <= MaxPending
    BY <1>1, <1>2 DEF RoomInv, StopsAlwaysFit
  <1>14. /\ Cardinality(queue') + Cardinality({k[2] : k \in left'}) <= MaxJobs
         /\ Cardinality(PendingTasks') + Cardinality(left') <= MaxPending
    BY <1>10, <1>11, <1>12, <1>13, QueueAssumption
  <1>15. RoomInv'
    BY <1>1, <1>2, <1>10, <1>14 DEF RoomInv, StopsAlwaysFit
  <1>16. LoopsRun'
    BY <1>1 DEF LoopsRun
  <1> QED
    BY <1>8, <1>9, <1>15, <1>16 DEF Promises

----------------------------------------------------------------------------
(* Time, loops and restarts.                                                 *)

\* enqueueModeCleanup() begins its loop only with room for the stops of all modes.
LEMMA ModeCleanupKeeps ==
  ASSUME JournalInv, Promises, NEW targets \in SUBSET Hosts, ModeCleanup(targets)
  PROVE  Promises'
  <1>1. PICK old : LET gone == Prunable(task, old)
                   IN  /\ queue' = queue \ gone /\ before' = DropOrder(gone)
                       /\ job' = DropJobs(job, gone) /\ task' = DropTasks(task, gone)
                       /\ IF RoomForAllModes(gone, targets)
                            THEN at' = "cleanup" /\ left' = targets \X Modes
                            ELSE UNCHANGED <<at, left>>
    BY DEF ModeCleanup
  <1> DEFINE gone == Prunable(task, old)
  <1>2. /\ queue' = queue \ gone /\ before' = DropOrder(gone)
        /\ job' = DropJobs(job, gone) /\ task' = DropTasks(task, gone)
        /\ IF RoomForAllModes(gone, targets)
             THEN at' = "cleanup" /\ left' = targets \X Modes
             ELSE UNCHANGED <<at, left>>
    BY <1>1
  <1>3. /\ UNCHANGED <<intents, activeModes, owned, journal, paused, wish>> /\ at = "idle"
        /\ QueueInv /\ RoomInv
    BY DEF ModeCleanup, world, JournalInv, Promises
  <1> HIDE DEF gone
  <1>4. Calm /\ NothingStarts
    BY <1>2, <1>3, PruneIsCalm
  <1>5. IntentsEnd /\ LoopsRun'
    BY <1>2, <1>3 DEF IntentsEnd, LoopsRun
  <1>6. CASE ~RoomForAllModes(gone, targets)
    BY <1>2, <1>3, <1>4, <1>5, <1>6, CalmKeeps DEF RoomInv
  <1>7. CASE RoomForAllModes(gone, targets)
    <2>1. NoOvertaking' /\ IntentsInv' /\ ConfirmedIsOwned' /\ WantedModesWereAsked'
      <3>1. NoOvertaking' /\ IntentsInv' /\ ConfirmedIsOwned'
        BY <1>3, <1>4, <1>5, OrderStays, IntentsStay, ConfirmedStays DEF Promises
      <3> QED
        BY <1>3, <3>1 DEF Promises, WantedModesWereAsked
    <2>2. IsFiniteSet(Modes) /\ IsFiniteSet(targets) /\ IsFiniteSet(queue) /\ IsFiniteSet(queue \X Hosts)
      BY <1>3, QueueAssumption, LimitsAssumption, FS_Subset, FS_Product DEF Stateful, RoomInv
    <2>3. /\ Cardinality(left') = Cardinality(targets) * Cardinality(Modes)
          /\ Cardinality({k[2] : k \in left'}) <= Cardinality(Modes)
          /\ Cardinality(Modes) \in Nat /\ Cardinality({k[2] : k \in left'}) \in Nat
          /\ Cardinality(left') \in Nat
      <3>1. left' = targets \X Modes /\ {k[2] : k \in left'} \subseteq Modes
        BY <1>2, <1>7
      <3>2. Cardinality(left') = Cardinality(targets) * Cardinality(Modes) /\ IsFiniteSet(left')
        BY <2>2, <3>1, FS_Product
      <3> QED
        BY <2>2, <3>1, <3>2, FS_Subset, FS_CardinalityType
    <2>4. IsFiniteSet(queue') /\ Cardinality(queue') \in Nat
      BY <1>2, <2>2, FS_Subset, FS_CardinalityType
    <2>5. PendingTasks' \subseteq PendingTasks
      <3>1. \A i \in queue' : i \in queue /\ i \in Ids
        BY <1>2, <1>3 DEF QueueInv, QueueTypeOK
      <3> QED
        BY <1>4, <3>1 DEF PendingTasks, Calm, Carried
    <2>6. /\ Cardinality(PendingTasks') <= Cardinality(PendingTasks)
          /\ Cardinality(PendingTasks) \in Nat /\ Cardinality(PendingTasks') \in Nat
      <3>1. IsFiniteSet(PendingTasks)
        BY <2>2, FS_Subset DEF PendingTasks
      <3> QED
        BY <2>5, <3>1, FS_Subset, FS_CardinalityType
    <2>7. /\ Cardinality(queue') + Cardinality(Modes) <= MaxJobs
          /\ Cardinality(PendingTasks) + Cardinality(left') <= MaxPending
      BY <1>2, <1>7, <2>3 DEF RoomForAllModes
    <2>8. RoomInv'
      <3>1. /\ Cardinality(queue') + Cardinality({k[2] : k \in left'}) <= MaxJobs
            /\ Cardinality(PendingTasks') + Cardinality(left') <= MaxPending
        BY <2>3, <2>4, <2>6, <2>7, QueueAssumption
      <3> QED
        BY <1>3, <2>4, <3>1 DEF RoomInv, StopsAlwaysFit
    <2> QED
      BY <1>5, <2>1, <2>8 DEF Promises
  <1> QED
    BY <1>6, <1>7

\* cancel(): waiting tasks and their intents end.
LEMMA CancelKeeps ==
  ASSUME JournalInv, Promises, NEW i \in queue, Cancel(i)
  PROVE  Promises'
  <1> DEFINE S == {i} \X Hosts
  <1>1. task' = [p \in Ids \X Hosts |->
                   IF p \in S /\ task[p].state \in Waiting THEN Done ELSE task[p]]
    BY DEF Cancel
  <1>2. /\ UNCHANGED <<queue, before, job, owned, activeModes, at, left, journal, paused, wish>>
        /\ IntentsEnd
    BY DEF Cancel, world, IntentsEnd
  <1> HIDE DEF S
  <1>3. Calm /\ NothingStarts
    BY <1>1, <1>2, DropIsCalm
  <1> QED
    BY <1>2, <1>3, CalmKeeps DEF Promises, RoomInv, LoopsRun

\* tick(): expired tasks and their intents end.
LEMMA TickKeeps ==
  ASSUME JournalInv, Promises, NEW due \in BOOLEAN, Tick(due)
  PROVE  Promises'
  <1> DEFINE expired == {p \in queue \X Hosts : task[p].state \in Waiting /\ job[p[1]].expired}
             S == IF CanRun THEN expired ELSE {}
  <1>1. task' = [p \in Ids \X Hosts |->
                   IF p \in S /\ task[p].state \in Waiting THEN Done ELSE task[p]]
    <2>1. CASE CanRun
      BY <2>1 DEF Tick
    <2>2. CASE ~CanRun
      BY <2>2 DEF Tick, JournalInv, TypeOK, QueueTypeOK
    <2> QED
      BY <2>1, <2>2
  <1>2. /\ UNCHANGED <<queue, before, job, owned, activeModes, journal, paused, wish>>
        /\ IntentsEnd /\ at' \in {"idle", "start", "reconcile"}
    BY DEF Tick, world, IntentsEnd
  <1>3. LoopsRun'
    BY DEF Tick, world, LoopsRun, CanRun
  <1> HIDE DEF S
  <1>4. Calm /\ NothingStarts
    BY <1>1, <1>2, DropIsCalm
  <1> QED
    BY <1>2, <1>3, <1>4, CalmKeeps DEF Promises, RoomInv

\* A task starts when nothing for its computer is before it.
LEMMA StartKeeps ==
  ASSUME JournalInv, Promises, NEW i \in queue, NEW h \in Hosts, Start(i, h)
  PROVE  Promises'
  <1> DEFINE t == [task[<<i, h>>] EXCEPT !.state = "running", !.pc = "eligible", !.attempts = @ + 1]
  <1>1. /\ at = "start" /\ Runnable(i, h) /\ task[<<i, h>>].state \in Waiting
        /\ UNCHANGED <<queue, before, job, intents, owned, activeModes, at, left, journal, paused, wish>>
        /\ i \in Ids /\ task[<<i, h>>] \in Task /\ QueueInv
    BY DEF Start, Runnable, world, JournalInv, QueueInv, QueueTypeOK
  <1>2. task' = [task EXCEPT ![<<i, h>>] = t]
    BY <1>1 DEF Start, QueueInv, QueueTypeOK
  <1>3. t.state = "running" /\ t.intent = task[<<i, h>>].intent /\ t.stop = task[<<i, h>>].stop
    BY <1>1 DEF Task
  <1> HIDE DEF t
  <1>4. \A j \in Ids, g \in Hosts :
          /\ ~(j = i /\ g = h) => task'[<<j, g>>] = task[<<j, g>>]
          /\ task'[<<j, g>>].intent = task[<<j, g>>].intent
          /\ task'[<<j, g>>].stop = task[<<j, g>>].stop
          /\ task'[<<j, g>>].state \in Pending <=> task[<<j, g>>].state \in Pending
          /\ task'[<<j, g>>].state \in Waiting => task[<<j, g>>].state \in Waiting
    <2>1. \A j \in Ids, g \in Hosts :
            task'[<<j, g>>] = IF j = i /\ g = h THEN t ELSE task[<<j, g>>]
      BY <1>2 DEF JournalInv, QueueInv, QueueTypeOK
    <2> QED
      BY <1>1, <1>3, <2>1 DEF Pending, Waiting
  <1>5. Calm
    BY <1>1, <1>4 DEF Calm, Carried
  <1>6. IntentsEnd
    BY <1>1 DEF IntentsEnd
  <1>7. NoOvertaking'
    <2> SUFFICES ASSUME NEW a \in queue', NEW b \in queue', NEW g \in Hosts, <<a, b>> \in before',
                        task'[<<b, g>>].state = "running", task'[<<a, g>>].state \in Pending
                 PROVE  FALSE
      BY DEF NoOvertaking
    <2>1. /\ a \in queue /\ b \in queue /\ a \in Ids /\ b \in Ids /\ <<a, b>> \in before
          /\ task[<<a, g>>].state \in Pending
      BY <1>1, <1>4 DEF QueueInv, QueueTypeOK
    <2>2. CASE b = i /\ g = h
      <3>1. task[<<a, h>>].state \notin Waiting /\ h \notin Busy
        BY <1>1, <2>1, <2>2 DEF Runnable
      <3>2. task[<<a, h>>].state = "running"
        BY <2>1, <2>2, <3>1 DEF Pending
      <3> QED
        BY <2>1, <3>1, <3>2 DEF Busy
    <2>3. CASE ~(b = i /\ g = h)
      <3>1. task[<<b, g>>].state = "running"
        BY <1>4, <2>1, <2>3
      <3> QED
        BY <2>1, <3>1 DEF Promises, NoOvertaking
    <2> QED
      BY <2>2, <2>3
  <1>8. IntentsInv' /\ ConfirmedIsOwned' /\ WantedModesWereAsked'
    BY <1>1, <1>5, <1>6, IntentsStay, ConfirmedStays DEF Promises, WantedModesWereAsked
  <1>9. RoomInv'
    BY <1>1, <1>5, RoomStays DEF JournalInv, TypeOK, Promises, RoomInv
  <1>10. LoopsRun'
    BY <1>1 DEF LoopsRun, Promises
  <1> QED
    BY <1>7, <1>8, <1>9, <1>10 DEF Promises

\* The rest of what happens between two handlers.
LEMMA OthersKeep ==
  ASSUME JournalInv, Promises,
         \/ \E h \in Hosts : ReconcileHost(h)
         \/ EndTick \/ Freeze
         \/ \E i \in queue : Expire(i)
         \/ \E i \in queue, h \in Hosts : BackoffEnds(i, h)
         \/ \E k \in Hosts \X Stateful : Outside(k)
         \/ UNCHANGED vars
  PROVE  Promises'
  <1>1. /\ UNCHANGED <<queue, before, intents, owned, activeModes, journal, wish>>
        /\ at' \in {"boot", "cleanup"} => at' = at /\ left' = left
        /\ LoopsRun'
    <2>1. UNCHANGED <<queue, before, intents, owned, activeModes, journal, wish>>
      BY DEF ReconcileHost, EndTick, Freeze, Expire, BackoffEnds, Outside, vars, hub, world
    <2>2. \/ at' = at /\ left' = left
          \/ at' \in {"reconcileHost", "idle"}
      BY DEF ReconcileHost, EndTick, Freeze, Expire, BackoffEnds, Outside, vars, hub, world
    <2>3. at' = at /\ paused' # paused => at = "idle"
      BY DEF ReconcileHost, EndTick, Freeze, Expire, BackoffEnds, Outside, vars, hub, world
    <2> QED
      BY <2>1, <2>2, <2>3 DEF Promises, LoopsRun
  <1>2. \A j \in Ids : /\ job'[j].feature = job[j].feature /\ job'[j].active = job[j].active
                       /\ job'[j].recovery = job[j].recovery /\ job'[j].internal = job[j].internal
                       /\ job'[j].observe = job[j].observe
    <2>1. job' = job \/ \E i \in queue : job' = [job EXCEPT ![i].expired = TRUE]
      BY DEF ReconcileHost, EndTick, Freeze, Expire, BackoffEnds, Outside, vars, hub, world
    <2>2. \A j \in Ids : job[j] \in Job
      BY DEF JournalInv, TypeOK, QueueTypeOK
    <2>3. ASSUME NEW i \in queue, job' = [job EXCEPT ![i].expired = TRUE]
          PROVE  \A j \in Ids : job'[j] = job[j] \/ job'[j] = [job[j] EXCEPT !.expired = TRUE]
      BY <2>3 DEF JournalInv, TypeOK, QueueTypeOK
    <2>4. \A j \in Ids : job'[j] = job[j] \/ job'[j] = [job[j] EXCEPT !.expired = TRUE]
      BY <2>1, <2>3
    <2> QED
      BY <2>2, <2>4 DEF Job
  <1>3. \A j \in Ids, g \in Hosts :
          /\ task'[<<j, g>>].state = task[<<j, g>>].state
          /\ task'[<<j, g>>].intent = task[<<j, g>>].intent
          /\ task'[<<j, g>>].stop = task[<<j, g>>].stop
    <2>1. task' = task \/ \E i \in queue, h \in Hosts : task' = [task EXCEPT ![<<i, h>>].backoff = FALSE]
      BY DEF ReconcileHost, EndTick, Freeze, Expire, BackoffEnds, Outside, vars, hub, world
    <2>2. \A j \in Ids, g \in Hosts : task[<<j, g>>] \in Task
      BY DEF JournalInv, TypeOK, QueueTypeOK
    <2>3. ASSUME NEW i \in queue, NEW h \in Hosts, task' = [task EXCEPT ![<<i, h>>].backoff = FALSE]
          PROVE  \A j \in Ids, g \in Hosts :
                   \/ task'[<<j, g>>] = task[<<j, g>>]
                   \/ task'[<<j, g>>] = [task[<<j, g>>] EXCEPT !.backoff = FALSE]
      BY <2>3 DEF JournalInv, TypeOK, QueueTypeOK
    <2>4. \A j \in Ids, g \in Hosts :
            \/ task'[<<j, g>>] = task[<<j, g>>]
            \/ task'[<<j, g>>] = [task[<<j, g>>] EXCEPT !.backoff = FALSE]
      BY <2>1, <2>3
    <2> SUFFICES ASSUME NEW j \in Ids, NEW g \in Hosts
                 PROVE  /\ task'[<<j, g>>].state = task[<<j, g>>].state
                        /\ task'[<<j, g>>].intent = task[<<j, g>>].intent
                        /\ task'[<<j, g>>].stop = task[<<j, g>>].stop
      OBVIOUS
    <2> DEFINE t == [task[<<j, g>>] EXCEPT !.backoff = FALSE]
    <2>5. /\ t.state = task[<<j, g>>].state /\ t.intent = task[<<j, g>>].intent
          /\ t.stop = task[<<j, g>>].stop
      BY <2>2 DEF Task
    <2>6. task'[<<j, g>>] = task[<<j, g>>] \/ task'[<<j, g>>] = t
      BY <2>4
    <2> HIDE DEF t
    <2> QED
      BY <2>5, <2>6
  <1>4. Calm
    BY <1>1, <1>2, <1>3 DEF Calm, Carried
  <1>5. NothingStarts /\ IntentsEnd
    BY <1>1, <1>3 DEF NothingStarts, IntentsEnd
  <1> QED
    BY <1>1, <1>4, <1>5, CalmKeeps DEF Promises, RoomInv

\* A restart: nothing is queued or wanted, and the releases owed fit in an empty queue.
LEMMA RestartKeeps ==
  ASSUME JournalInv, Promises, Restart
  PROVE  Promises'
  <1>1. /\ queue' = {} /\ before' = {} /\ task' = [p \in Ids \X Hosts |-> NoTask]
        /\ intents' = [k \in Keys |-> NoIntent] /\ owned' = journal /\ journal' = journal
        /\ activeModes' = {} /\ left' = journal /\ paused' = FALSE /\ at' \in {"idle", "boot"}
    BY DEF Restart
  <1>2. NoOvertaking' /\ ConfirmedIsOwned' /\ WantedModesWereAsked' /\ LoopsRun'
    BY <1>1, Blank DEF NoOvertaking, ConfirmedIsOwned, WantedModesWereAsked, LoopsRun
  <1>3. IntentsInv'
    BY <1>1, Blank, NotPending DEF IntentsInv
  <1>4. RoomInv'
    <2>1. IsFiniteSet(queue') /\ Cardinality(queue') = 0 /\ Cardinality(PendingTasks') = 0
      <3>1. PendingTasks' = {}
        BY <1>1 DEF PendingTasks
      <3> QED
        BY <1>1, <3>1, FS_EmptySet
    <2>2. /\ {k[2] : k \in left'} \subseteq Stateful /\ left' \subseteq Hosts \X Stateful
          /\ Cardinality(journal) <= MaxOwned
      BY <1>1 DEF JournalInv, TypeOK, Promises, RoomInv
    <2>3. /\ Cardinality({k[2] : k \in left'}) <= Cardinality(Stateful)
          /\ Cardinality({k[2] : k \in left'}) \in Nat /\ Cardinality(Stateful) \in Nat
      BY <2>2, LimitsAssumption, FS_Subset, FS_CardinalityType
    <2>4. Cardinality(left') \in Nat
      <3>1. IsFiniteSet(Hosts \X Stateful)
        BY QueueAssumption, LimitsAssumption, FS_Product
      <3> QED
        BY <2>2, <3>1, FS_Subset, FS_CardinalityType
    <2>5. StopsAlwaysFit'
      BY <1>1, <2>1, <2>2, <2>3, <2>4, QueueAssumption, LimitsAssumption DEF StopsAlwaysFit
    <2> QED
      BY <1>1, <2>1, <2>2, <2>5 DEF RoomInv
  <1> QED
    BY <1>2, <1>3, <1>4 DEF Promises

----------------------------------------------------------------------------
(* The answers.                                                              *)

\* What a task at an await is known to be.
LEMMA RunningTask ==
  ASSUME JournalInv, Promises, NEW i \in queue, NEW h \in Hosts, task[<<i, h>>].state = "running"
  PROVE  /\ i \in Ids /\ KeyOf(i, h) \in Keys /\ KeyOf(i, h)[2] = job[i].feature
         /\ KeyOf(i, h) = <<h, job[i].feature>>
         /\ job[i].feature \in Locks => LockTask(i, h) /\ ~job[i].observe
         /\ job[i].feature \in Modes => StartTask(i, h)
         /\ job[i].feature \notin Locks => intents[KeyOf(i, h)] = NoIntent
         /\ ~job[i].active \/ job[i].observe => ~intents[KeyOf(i, h)].confirmed
  <1>1. /\ i \in Ids /\ job[i].feature \in Features /\ task[<<i, h>>].state \in Pending
    BY DEF JournalInv, TypeOK, QueueTypeOK, Job, Pending
  <1>2. /\ KeyOf(i, h) \in Keys /\ KeyOf(i, h)[2] = job[i].feature
        /\ KeyOf(i, h) = <<h, job[i].feature>>
    BY <1>1 DEF KeyOf, Keys
  <1>3. /\ job[i].feature \in Locks => LockTask(i, h) /\ ~job[i].observe
        /\ job[i].feature \in Modes => StartTask(i, h)
        /\ job[i].feature \notin Locks => intents[KeyOf(i, h)] = NoIntent
    BY <1>1, <1>2 DEF Promises, IntentsInv
  <1>4. ~job[i].active \/ job[i].observe => ~intents[KeyOf(i, h)].confirmed
    BY <1>3, Blank DEF LockTask
  <1> QED
    BY <1>1, <1>2, <1>3, <1>4

\* A task that only ends, or is put back.
LEMMA EndingKeeps ==
  ASSUME JournalInv, Promises, NEW i \in queue, NEW h \in Hosts,
         NotEligible(i, h) \/ NotRead(i, h) \/ NotConfirmed(i, h)
  PROVE  Promises'
  <1>1. /\ task[<<i, h>>].state = "running"
        /\ \/ \E revoked \in BOOLEAN : End(i, h, revoked)
           \/ \E retryable \in BOOLEAN : Fail(i, h, retryable)
        /\ UNCHANGED <<owned, journal, activeModes, left, paused, endpoint, ours, wish>>
    BY DEF NotEligible, NotRead, NotConfirmed, Barred, Awaits
  <1>2. Calm /\ NothingStarts /\ IntentsEnd
    BY <1>1, EndIsCalm, Blanks DEF JournalInv, TypeOK
  <1>3. at' = "tick"
    BY <1>1, EndQueue DEF JournalInv, TypeOK
  <1>4. LoopsRun'
    BY <1>3 DEF LoopsRun
  <1> QED
    BY <1>1, <1>2, <1>3, <1>4, CalmKeeps DEF Promises, RoomInv

\* The read before the write: the key may be owned from here on.
LEMMA ReadKeeps ==
  ASSUME JournalInv, Promises, NEW i \in queue, NEW h \in Hosts, Read(i, h)
  PROVE  Promises'
  <1>1. /\ i \in Ids /\ QueueInv /\ at' = at /\ at = "idle"
        /\ UNCHANGED <<intents, activeModes, left, paused, endpoint, ours, wish>>
        /\ Journaled(KeyOf(i, h)) \/ UNCHANGED <<owned, journal>>
    BY DEF Read, Awaits, Step, JournalInv, QueueInv, QueueTypeOK
  <1>2. PICK pc : Step(i, h, pc)
    BY DEF Read
  <1>3. Calm /\ NothingStarts
    BY <1>1, <1>2, StepIsCalm
  <1>4. /\ owned \subseteq owned'
        /\ Cardinality(owned') <= MaxOwned /\ Cardinality(journal') <= MaxOwned
    BY <1>1, OwnedIsBounded DEF Promises
  <1>5. IntentsEnd /\ LoopsRun'
    BY <1>1 DEF IntentsEnd, LoopsRun
  <1> QED
    BY <1>1, <1>3, <1>4, <1>5, CalmKeeps

\* A broadcast counts as wanted only from here, where a stop has not marked its start.
LEMMA EligibleKeeps ==
  ASSUME JournalInv, Promises, NEW i \in queue, NEW h \in Hosts, Eligible(i, h)
  PROVE  Promises'
  <1> DEFINE k == KeyOf(i, h)
  <1>1. /\ i \in Ids /\ QueueInv /\ at' = at /\ at = "idle" /\ task[<<i, h>>].state = "running"
        /\ UNCHANGED <<intents, left, paused, endpoint, ours, wish>>
        /\ Journaled(k) \/ UNCHANGED <<owned, journal>>
    BY DEF Eligible, Awaits, Step, JournalInv, QueueInv, QueueTypeOK
  <1>2. PICK pc : Step(i, h, pc)
    BY DEF Eligible
  <1>3. Calm /\ NothingStarts
    BY <1>1, <1>2, StepIsCalm
  <1>4. /\ owned \subseteq owned'
        /\ Cardinality(owned') <= MaxOwned /\ Cardinality(journal') <= MaxOwned
    BY <1>1, OwnedIsBounded DEF Promises
  <1>5. IntentsEnd /\ LoopsRun'
    BY <1>1 DEF IntentsEnd, LoopsRun
  <1>6. WantedModesWereAsked'
    <2>1. \/ activeModes' \subseteq activeModes
          \/ /\ activeModes' = activeModes \cup {k} /\ job[i].feature \in Modes
             /\ ~LockLike(job[i]) /\ ~task[<<i, h>>].stop
      BY DEF Eligible
    <2>2. CASE activeModes' = activeModes \cup {k} /\ job[i].feature \in Modes
               /\ ~LockLike(job[i]) /\ ~task[<<i, h>>].stop
      <3>1. StartTask(i, h)
        BY <1>1, <2>2, RunningTask
      <3>2. wish[k]
        BY <2>2, <3>1 DEF StartTask, LockLike
      <3> QED
        BY <1>1, <2>2, <3>2 DEF Promises, WantedModesWereAsked
    <2> QED
      BY <1>1, <2>1, <2>2 DEF Promises, WantedModesWereAsked
  <1>7. NoOvertaking' /\ IntentsInv' /\ ConfirmedIsOwned'
    BY <1>1, <1>3, <1>4, <1>5, OrderStays, IntentsStay, ConfirmedStays DEF Promises
  <1>8. RoomInv'
    BY <1>1, <1>3, <1>4, RoomStays DEF JournalInv, TypeOK, Promises
  <1> QED
    BY <1>5, <1>6, <1>7, <1>8 DEF Promises

\* A write queues nothing and leaves ownership alone.
LEMMA ExecuteKeeps ==
  ASSUME JournalInv, Promises, NEW i \in queue, NEW h \in Hosts, Execute(i, h)
  PROVE  Promises'
  <1>1. /\ i \in Ids /\ QueueInv /\ at = "idle" /\ task[<<i, h>>].state = "running"
        /\ UNCHANGED <<owned, journal, activeModes, left, paused, wish>>
        /\ \/ Step(i, h, "confirm") /\ UNCHANGED intents
           \/ Leave(i, h, Done) /\ UNCHANGED intents
           \/ \E retryable \in BOOLEAN : Fail(i, h, retryable)
    BY DEF Execute, Awaits, JournalInv, QueueInv, QueueTypeOK
  <1>2. Calm /\ NothingStarts /\ IntentsEnd /\ at' \in {"idle", "tick"}
    <2>1. CASE Step(i, h, "confirm") /\ UNCHANGED intents
      BY <1>1, <2>1, StepIsCalm DEF IntentsEnd, Step
    <2>2. CASE \/ Leave(i, h, Done) /\ UNCHANGED intents
               \/ \E retryable \in BOOLEAN : Fail(i, h, retryable)
      BY <1>1, <2>2, EndIsCalm, EndQueue, Blanks DEF JournalInv, TypeOK
    <2> QED
      BY <1>1, <2>1, <2>2
  <1>3. LoopsRun'
    BY <1>2 DEF LoopsRun
  <1> QED
    BY <1>1, <1>2, <1>3, CalmKeeps DEF Promises, RoomInv

\* Giving up a key that no intent holds on to disowns nothing.
LEMMA DisownKeeps ==
  ASSUME JournalInv, Promises, Calm, NothingStarts, IntentsEnd, wish' = wish, NEW k,
         ~intents[k].confirmed,
         activeModes' = activeModes \ {k}, owned' = owned \ {k}, journal' = owned' \/ journal' = journal,
         at' = "tick"
  PROVE  Promises'
  <1>1. Cardinality(owned') <= MaxOwned /\ Cardinality(journal') <= MaxOwned
    BY ReleasedIsBounded DEF Promises
  <1>2. NoOvertaking' /\ IntentsInv'
    BY OrderStays, IntentsStay DEF JournalInv, Promises
  <1>3. ConfirmedIsOwned'
    <2> SUFFICES ASSUME NEW m \in Keys, intents'[m].confirmed
                 PROVE  intents'[m].active /\ m \in owned'
      BY DEF ConfirmedIsOwned
    <2>1. intents'[m] = intents[m]
      BY Blank DEF IntentsEnd
    <2>2. m # k /\ intents[m].active /\ m \in owned
      BY <2>1 DEF Promises, ConfirmedIsOwned
    <2> QED
      BY <2>1, <2>2
  <1>4. WantedModesWereAsked'
    BY DEF Promises, WantedModesWereAsked
  <1>5. RoomInv'
    BY <1>1, RoomStays DEF JournalInv, TypeOK, Promises
  <1>6. LoopsRun'
    BY DEF LoopsRun
  <1> QED
    BY <1>2, <1>3, <1>4, <1>5, <1>6 DEF Promises

\* A watched broadcast that has ended is disowned; no intent is of a broadcast.
LEMMA ObserveKeeps ==
  ASSUME JournalInv, Promises, NEW i \in queue, NEW h \in Hosts, Observe(i, h)
  PROVE  Promises'
  <1> DEFINE k == KeyOf(i, h)
  <1>1. /\ task[<<i, h>>].state = "running" /\ job[i].observe
        /\ UNCHANGED <<left, paused, endpoint, ours, wish>>
        /\ \/ Leave(i, h, Done) /\ UNCHANGED intents
           \/ \E revoked \in BOOLEAN : End(i, h, revoked)
    BY DEF Observe, Awaits
  <1>2. ~intents[k].confirmed
    BY <1>1, RunningTask
  <1>3. Calm /\ NothingStarts /\ IntentsEnd
    BY <1>1, EndIsCalm, Blanks DEF JournalInv, TypeOK
  <1>4. at' = "tick"
    BY <1>1, EndQueue DEF JournalInv, TypeOK
  <1>5. CASE UNCHANGED <<activeModes, owned, journal>>
    <2>1. LoopsRun'
      BY <1>4 DEF LoopsRun
    <2> QED
      BY <1>1, <1>3, <1>4, <1>5, <2>1, CalmKeeps DEF Promises, RoomInv
  <1>6. CASE /\ activeModes' = activeModes \ {k} /\ owned' = owned \ {k}
             /\ journal' = owned' \/ journal' = journal
    BY <1>1, <1>2, <1>3, <1>4, <1>6, DisownKeeps
  <1> QED
    BY <1>5, <1>6 DEF Observe

\* The task that leaves run() for good is not pending.
LEMMA LeavesForGood ==
  ASSUME QueueInv, NEW i \in queue, NEW h \in Hosts, Leave(i, h, Done)
  PROVE  task'[<<i, h>>].state \notin Pending
  <1>1. PICK gone : task' = DropTasks([task EXCEPT ![<<i, h>>] = Done], gone)
    BY DEF Leave
  <1>2. task'[<<i, h>>] \in {NoTask, Done}
    BY <1>1 DEF DropTasks, QueueInv, QueueTypeOK
  <1> QED
    BY <1>2, NotPending

\* A lock that is confirmed is the Hub's, and no unlock of that computer is waiting: its
\* intent would be the newest, and this one's is.
LEMMA ConfirmedLockKeeps ==
  ASSUME JournalInv, Promises, NEW i \in queue, NEW h \in Hosts,
         task[<<i, h>>].state = "running", Leave(i, h, Done), job[i].active,
         KeyOf(i, h) \in owned, intents[KeyOf(i, h)].id = task[<<i, h>>].intent,
         intents[KeyOf(i, h)].id # NoId,
         intents' = [intents EXCEPT ![KeyOf(i, h)].confirmed = TRUE],
         UNCHANGED <<owned, journal, activeModes, left, paused, wish>>
  PROVE  Promises'
  <1> DEFINE k == KeyOf(i, h)
  <1>1. /\ QueueInv /\ intents \in [Keys -> Intent] /\ i \in Ids /\ k \in Keys
        /\ k = <<h, job[i].feature>>
    BY RunningTask DEF JournalInv, TypeOK
  <1>2. Calm /\ NothingStarts /\ at' = "tick"
    BY <1>1, LeaveIsCalm, NotPending DEF Leave
  <1>3. job[i].feature \in Locks /\ LockTask(i, h)
    BY RunningTask, Blank
  <1>4. intents[k].active
    BY <1>3 DEF LockTask
  <1> HIDE DEF k
  <1>5. /\ intents'[k].id = intents[k].id /\ intents'[k].active = intents[k].active
        /\ \A m \in Keys : m # k => intents'[m] = intents[m]
    BY <1>1 DEF Intent, k
  <1>6. ASSUME NEW j \in Ids, task'[<<j, h>>].state \in Pending, job[j].feature = job[i].feature,
               ~job[j].active
        PROVE  FALSE
    <2>1. task[<<j, h>>].state \in Pending /\ j # i
      BY <1>2, <1>6, LeavesForGood, <1>1 DEF Calm, Carried
    <2>2. task[<<j, h>>].state \in Waiting
      BY <1>1, <2>1 DEF QueueInv, Pending
    <2>3. LockTask(j, h) /\ KeyOf(j, h) = k
      BY <1>3, <1>6, <2>1 DEF Promises, IntentsInv, KeyOf, k
    <2>4. ~job[j].internal /\ task[<<j, h>>].intent = j /\ intents[k].id \in {j, NoId}
          /\ (intents[k].id = j => intents[k].active = job[j].active)
      BY <1>6, <2>2, <2>3 DEF LockTask
    <2> QED
      BY <1>4, <1>6, <2>4 DEF k
  <1>7. IntentsInv'
    <2>1. \A m \in Keys : (m[2] \notin Locks => intents'[m] = NoIntent) /\ (intents'[m].active => wish'[m])
      BY <1>1, <1>3, <1>5 DEF Promises, IntentsInv
    <2>2. ASSUME NEW j \in Ids, NEW g \in Hosts, task'[<<j, g>>].state \in Pending
          PROVE  /\ job'[j].feature \in Locks => LockTask(j, g)' /\ ~job'[j].observe
                 /\ job'[j].feature \in Modes => StartTask(j, g)'
      <3>1. Carried(j, g) /\ task[<<j, g>>].state \in Pending
        BY <1>2, <2>2 DEF Calm, Carried
      <3>2. KeyOf(j, g)' = KeyOf(j, g)
        BY <3>1 DEF Carried, KeyOf
      <3>3. ASSUME job'[j].feature \in Locks
            PROVE  LockTask(j, g)' /\ ~job'[j].observe
        <4>1. job[j].feature \in Locks /\ KeyOf(j, g) \in Keys
          BY <3>1, <3>3 DEF Carried, KeyOf, Keys, Features
        <4>2. LockTask(j, g) /\ ~job[j].observe
          BY <3>1, <4>1 DEF Promises, IntentsInv
        <4>3. /\ intents'[KeyOf(j, g)].id = intents[KeyOf(j, g)].id
              /\ intents'[KeyOf(j, g)].active = intents[KeyOf(j, g)].active
              /\ KeyOf(j, g) # k => intents'[KeyOf(j, g)] = intents[KeyOf(j, g)]
          BY <1>5, <4>1
        <4>4. ~job[j].active => ~intents'[KeyOf(j, g)].confirmed
          <5>1. CASE KeyOf(j, g) = k
            <6>1. g = h /\ job[j].feature = job[i].feature
              BY <1>1, <5>1 DEF KeyOf
            <6> QED
              BY <1>6, <2>2, <6>1
          <5>2. CASE KeyOf(j, g) # k
            BY <4>2, <4>3, <5>2 DEF LockTask
          <5> QED
            BY <5>1, <5>2
        <4>5. /\ task'[<<j, g>>].intent = task[<<j, g>>].intent
              /\ job'[j].active = job[j].active /\ job'[j].internal = job[j].internal
              /\ job'[j].observe = job[j].observe
          BY <3>1 DEF Carried
        <4>6. task'[<<j, g>>].state \in Waiting /\ ~job'[j].internal =>
                intents[KeyOf(j, g)].id \in {j, NoId}
          BY <3>1, <4>1, <4>2 DEF Carried, LockTask
        <4> QED
          BY <3>2, <4>2, <4>3, <4>4, <4>5, <4>6 DEF LockTask
      <3>4. ASSUME job'[j].feature \in Modes
            PROVE  StartTask(j, g)'
        <4>1. StartTask(j, g)
          BY <3>1, <3>4 DEF Promises, IntentsInv, Carried
        <4> QED
          BY <3>1, <3>2, <4>1 DEF StartTask, Carried
      <3> QED
        BY <3>3, <3>4
    <2> QED
      BY <2>1, <2>2 DEF IntentsInv
  <1>8. ConfirmedIsOwned'
    BY <1>1, <1>4, <1>5 DEF Promises, ConfirmedIsOwned, k
  <1>9. NoOvertaking' /\ WantedModesWereAsked' /\ LoopsRun'
    BY <1>1, <1>2, OrderStays DEF Promises, WantedModesWereAsked, LoopsRun
  <1>10. RoomInv'
    BY <1>1, <1>2, RoomStays DEF JournalInv, TypeOK, Promises, RoomInv
  <1> QED
    BY <1>7, <1>8, <1>9, <1>10 DEF Promises

\* The read after the write: a lock is kept, a release disowns.
LEMMA ConfirmKeeps ==
  ASSUME JournalInv, Promises, NEW i \in queue, NEW h \in Hosts, Confirm(i, h)
  PROVE  Promises'
  <1> DEFINE k == KeyOf(i, h)
  <1>1. /\ task[<<i, h>>].state = "running" /\ k \in Keys
        /\ UNCHANGED <<left, paused, endpoint, ours, wish>>
    BY RunningTask DEF Confirm, Awaits
  <1>2. QueueInv /\ intents \in [Keys -> Intent]
    BY DEF JournalInv, TypeOK
  <1>3. CASE job[i].active
    <2>1. /\ Leave(i, h, Done) /\ UNCHANGED <<owned, journal, activeModes>>
          /\ intents' = Settled(i, h) \/ intents' = intents
      BY <1>3 DEF Confirm
    <2>2. Calm /\ NothingStarts /\ at' = "tick"
      BY <1>1, <1>2, <2>1, LeaveIsCalm, NotPending DEF Leave
    <2>3. CASE intents' = intents \/ intents' = [intents EXCEPT ![k] = NoIntent]
      <3>1. IntentsEnd /\ LoopsRun'
        BY <1>2, <2>2, <2>3 DEF IntentsEnd, LoopsRun
      <3> QED
        BY <1>1, <2>1, <2>2, <3>1, CalmKeeps DEF Promises, RoomInv
    <2>4. CASE /\ intents' = [intents EXCEPT ![k].confirmed = TRUE] /\ k \in owned
               /\ intents[k].id = task[<<i, h>>].intent /\ intents[k].id # NoId
      BY <1>1, <1>3, <2>1, <2>4, ConfirmedLockKeeps
    <2> QED
      BY <2>1, <2>3, <2>4 DEF Settled
  <1>4. CASE ~job[i].active
    <2>1. /\ activeModes' = activeModes \ {k} /\ owned' = owned \ {k}
          /\ journal' = owned' \/ journal' = journal
          /\ \/ Leave(i, h, Done) /\ intents' = Settled(i, h)
             \/ Fail(i, h, FALSE)
      BY <1>4 DEF Confirm
    <2>2. ~intents[k].confirmed
      BY <1>1, <1>4, RunningTask
    <2>3. Calm /\ NothingStarts /\ IntentsEnd /\ at' = "tick"
      <3>1. CASE Leave(i, h, Done) /\ intents' = Settled(i, h)
        <4>1. Calm /\ NothingStarts /\ at' = "tick"
          BY <1>1, <1>2, <3>1, LeaveIsCalm, NotPending DEF Leave
        <4>2. IntentsEnd
          BY <1>2, <1>4, <3>1 DEF Settled, IntentsEnd
        <4> QED
          BY <4>1, <4>2
      <3>2. CASE Fail(i, h, FALSE)
        BY <1>1, <1>2, <3>2, EndIsCalm, EndQueue, Blanks
      <3> QED
        BY <2>1, <3>1, <3>2
    <2> QED
      BY <1>1, <2>1, <2>2, <2>3, DisownKeeps
  <1> QED
    BY <1>3, <1>4

----------------------------------------------------------------------------
(* The theorems about the promises.                                          *)

\* The empty queue keeps them.
LEMMA InitPromises == Init => Promises
  <1> SUFFICES ASSUME Init PROVE Promises
    OBVIOUS
  <1>1. NoOvertaking /\ ConfirmedIsOwned /\ WantedModesWereAsked /\ LoopsRun
    BY Blank DEF Init, NoOvertaking, ConfirmedIsOwned, WantedModesWereAsked, LoopsRun
  <1>2. IntentsInv
    BY Blank, NotPending DEF Init, IntentsInv
  <1>3. RoomInv
    <2>1. IsFiniteSet({}) /\ Cardinality({}) = 0
      BY FS_EmptySet
    <2> QED
      BY <2>1, QueueAssumption DEF Init, RoomInv, StopsAlwaysFit
  <1> QED
    BY <1>1, <1>2, <1>3 DEF Promises

\* Every step keeps them.
LEMMA PromisesKept == JournalInv /\ Promises /\ [Next]_vars => Promises'
  <1> SUFFICES ASSUME JournalInv, Promises, [Next]_vars PROVE Promises'
    OBVIOUS
  <1>1. ASSUME NEW f \in Features, NEW active \in BOOLEAN, NEW targets \in SUBSET Hosts,
               Command(f, active, targets)
        PROVE  Promises'
    BY <1>1, CommandKeeps
  <1>2. ASSUME NEW targets \in SUBSET Hosts, ModeCleanup(targets) PROVE Promises'
    BY <1>2, ModeCleanupKeeps
  <1>3. ASSUME NEW f \in Stateful, EnqueueStops(f) PROVE Promises'
    BY <1>3, EnqueueStopsKeeps
  <1>4. ASSUME NEW i \in queue, Cancel(i) PROVE Promises'
    BY <1>4, CancelKeeps
  <1>5. ASSUME NEW k \in Keys, ReconcileKey(k) PROVE Promises'
    BY <1>5, ReconcileKeyKeeps
  <1>6. ASSUME NEW due \in BOOLEAN, Tick(due) PROVE Promises'
    BY <1>6, TickKeeps
  <1>7. ASSUME NEW i \in queue, NEW h \in Hosts, Start(i, h) PROVE Promises'
    BY <1>7, StartKeeps
  <1>8. ASSUME NEW i \in queue, NEW h \in Hosts, Answer(i, h) PROVE Promises'
    BY <1>8, EligibleKeeps, EndingKeeps, ReadKeeps, ObserveKeeps, ExecuteKeeps, ConfirmKeeps
       DEF Answer
  <1>9. CASE Restart
    BY <1>9, RestartKeeps
  <1>10. CASE \/ \E h \in Hosts : ReconcileHost(h)
              \/ EndTick \/ Freeze
              \/ \E i \in queue : Expire(i)
              \/ \E i \in queue, h \in Hosts : BackoffEnds(i, h)
              \/ \E k \in Hosts \X Stateful : Outside(k)
              \/ UNCHANGED vars
    BY <1>10, OthersKeep
  <1> QED
    BY <1>1, <1>2, <1>3, <1>4, <1>5, <1>6, <1>7, <1>8, <1>9, <1>10 DEF Next

\* The inductive invariant of the promises: tasks, intents, wishes and room fit together.
THEOREM PromisesInvariant == Spec => []PromisesInv
  <1>1. Init => JournalInv /\ Promises
    BY InitHolds, InitPromises
  <1>2. JournalInv /\ Promises /\ [Next]_vars => (JournalInv /\ Promises)'
    BY NextPreserves, PromisesKept
  <1> QED
    BY <1>1, <1>2, PTL DEF Spec, PromisesInv

\* No command overtakes an older one for the same computer, not even one in backoff
\* (runnable()).
THEOREM KeepsOrder == Spec => []NoOvertaking
  <1>1. PromisesInv => NoOvertaking
    BY DEF PromisesInv, Promises
  <1> QED
    BY <1>1, PromisesInvariant, PTL

\* reconcile() only ever re-asserts a lock that the Hub made itself (run(), lock confirmed).
THEOREM ReassertsItsOwn == Spec => []ConfirmedIsOwned
  <1>1. PromisesInv => ConfirmedIsOwned
    BY DEF PromisesInv, Promises
  <1> QED
    BY <1>1, PromisesInvariant, PTL

\* A broadcast that counts as wanted was asked for by the newest command, whichever of its
\* awaits a stop came in (activeModes, stopRequested).
THEOREM WantedWasAsked == Spec => []WantedModesWereAsked
  <1>1. PromisesInv => WantedModesWereAsked
    BY DEF PromisesInv, Promises
  <1> QED
    BY <1>1, PromisesInvariant, PTL

\* No stop of a cleanup and no release owed after a restart is refused for want of room
\* (enqueueModeCleanup(), the constructor).
THEOREM StopsFit == Spec => []StopsAlwaysFit
  <1>1. PromisesInv => StopsAlwaysFit
    BY DEF PromisesInv, Promises, RoomInv
  <1> QED
    BY <1>1, PromisesInvariant, PTL

\* What is not written, is not written later by an answer that is not a read's.
LEMMA OnlyReadsWrite ==
  ASSUME JournalInv, [Next]_vars, NEW i \in Ids, NEW h \in Hosts,
         task[<<i, h>>].pc # "execute", task'[<<i, h>>].pc = "execute"
  PROVE  i \in queue /\ (Read(i, h) \/ Eligible(i, h))
  <1>1. ASSUME NoNewWrite PROVE FALSE
    BY <1>1 DEF NoNewWrite
  <1>2. QueueInv /\ intents \in [Keys -> Intent] /\ queue \subseteq Ids
    BY DEF JournalInv, TypeOK, QueueTypeOK
  <1>3. ASSUME NEW f \in Features, NEW active \in BOOLEAN, NEW targets \in SUBSET Hosts,
               Command(f, active, targets)
        PROVE  FALSE
    BY <1>1, <1>2, <1>3, EnqueueQueue DEF Command
  <1>4. ASSUME NEW targets \in SUBSET Hosts, ModeCleanup(targets) PROVE FALSE
    <2>1. PICK old : LET gone == Prunable(task, old)
                     IN  /\ queue' = queue \ gone /\ before' = DropOrder(gone)
                         /\ job' = DropJobs(job, gone) /\ task' = DropTasks(task, gone)
      BY <1>4 DEF ModeCleanup
    <2> QED
      BY <1>1, <1>2, <2>1, PruneQueue
  <1>5. ASSUME NEW f \in Stateful, EnqueueStops(f) PROVE FALSE
    BY <1>1, <1>2, <1>5, EnqueueQueue DEF EnqueueStops, Features, Stateful
  <1>6. ASSUME NEW k \in Keys, ReconcileKey(k) PROVE FALSE
    <2>1. k[1] \in Hosts /\ k[2] \in Features /\ intents[k].recovery \in BOOLEAN
      BY <1>2 DEF Keys, Intent
    <2>2. CASE Enqueue(k[2], TRUE, {k[1]}, intents[k].recovery, TRUE, FALSE)
      BY <1>1, <1>2, <2>1, <2>2, EnqueueQueue
    <2>3. CASE Enqueue(k[2], TRUE, {k[1]}, TRUE, TRUE, TRUE)
      BY <1>1, <1>2, <2>1, <2>3, EnqueueQueue
    <2>4. CASE Enqueue(k[2], FALSE, {k[1]}, TRUE, FALSE, FALSE)
      BY <1>1, <1>2, <2>1, <2>4, EnqueueQueue
    <2> QED
      BY <1>6, <2>2, <2>3, <2>4 DEF ReconcileKey
  <1>7. ASSUME \/ \E j \in queue : Cancel(j)
               \/ \E due \in BOOLEAN : Tick(due)
               \/ Restart
        PROVE  FALSE
    <2>1. task'[<<i, h>>] \in {NoTask, Done, task[<<i, h>>]}
      BY <1>7 DEF Cancel, Tick, Restart
    <2>2. NoTask.pc # "execute" /\ Done.pc # "execute"
      BY DEF NoTask, Done
    <2> QED
      BY <2>1, <2>2
  <1>8. ASSUME NEW j \in queue, NEW g \in Hosts, Start(j, g) \/ BackoffEnds(j, g)
        PROVE  FALSE
    <2> DEFINE s == [task[<<j, g>>] EXCEPT !.state = "running", !.pc = "eligible", !.attempts = @ + 1]
               b == [task[<<j, g>>] EXCEPT !.backoff = FALSE]
    <2>1. task' = [task EXCEPT ![<<j, g>>] = s] \/ task' = [task EXCEPT ![<<j, g>>] = b]
      BY <1>2, <1>8 DEF Start, BackoffEnds, QueueInv, QueueTypeOK
    <2>2. task[<<j, g>>] \in Task
      BY <1>2 DEF QueueInv, QueueTypeOK
    <2>3. s.pc = "eligible" /\ b.pc = task[<<j, g>>].pc
      BY <2>2 DEF Task
    <2> HIDE DEF s, b
    <2>4. task'[<<i, h>>] = task[<<i, h>>] \/ (i = j /\ h = g /\ task'[<<i, h>>] \in {s, b})
      BY <1>2, <2>1 DEF QueueInv, QueueTypeOK
    <2> QED
      BY <2>3, <2>4
  <1>9. ASSUME NEW j \in queue, NEW g \in Hosts,
               \/ NotEligible(j, g) \/ Observe(j, g) \/ NotRead(j, g)
               \/ Execute(j, g) \/ Confirm(j, g) \/ NotConfirmed(j, g)
        PROVE  FALSE
    <2>1. task[<<j, g>>].state = "running"
      BY <1>9 DEF NotEligible, Observe, NotRead, Execute, Confirm, NotConfirmed, Awaits
    <2>2. \/ \E revoked \in BOOLEAN : End(j, g, revoked)
          \/ \E retryable \in BOOLEAN : Fail(j, g, retryable)
          \/ Leave(j, g, Done)
          \/ Step(j, g, "confirm")
      BY <1>9 DEF NotEligible, Observe, NotRead, Execute, Confirm, NotConfirmed, Barred
    <2>3. CASE \/ \E revoked \in BOOLEAN : End(j, g, revoked)
               \/ \E retryable \in BOOLEAN : Fail(j, g, retryable)
      BY <1>1, <1>2, <2>1, <2>3, EndQueue
    <2>4. CASE Leave(j, g, Done)
      <3>1. Done \in Task /\ Done.pc = "none" /\ Done.state # "running" /\ Done.state \notin Waiting
        BY Blanks DEF Done, NoTask, Waiting
      <3> QED
        BY <1>1, <1>2, <2>1, <2>4, <3>1, LeaveQueue
    <2>5. CASE Step(j, g, "confirm")
      <3>1. "confirm" \in PCs /\ "confirm" # "execute"
        BY DEF PCs
      <3> QED
        BY <1>1, <1>2, <2>1, <2>5, <3>1, StepQueue
    <2> QED
      BY <2>2, <2>3, <2>4, <2>5
  <1>10. ASSUME NEW j \in queue, NEW g \in Hosts, Read(j, g) \/ Eligible(j, g)
         PROVE  i = j /\ h = g
    <2>1. PICK pc : task' = [task EXCEPT ![<<j, g>>].pc = pc]
      BY <1>10 DEF Read, Eligible, Step
    <2> QED
      BY <1>2, <2>1 DEF QueueInv, QueueTypeOK
  <1>11. ASSUME \/ \E g \in Hosts : ReconcileHost(g)
                \/ EndTick \/ Freeze
                \/ \E j \in queue : Expire(j)
                \/ \E k \in Hosts \X Stateful : Outside(k)
                \/ UNCHANGED vars
         PROVE  FALSE
    BY <1>11 DEF ReconcileHost, EndTick, Freeze, Expire, Outside, vars, hub
  <1> QED
    BY <1>3, <1>4, <1>5, <1>6, <1>7, <1>8, <1>9, <1>10, <1>11 DEF Next, Answer

\* A lock is written only while the newest command for that computer is a lock: the read
\* before the write checks the intent, and an intent to lock is the operator's.
THEOREM NoLockAfterUnlock == Spec => NoStaleLock
  <1>1. PromisesInv /\ [Next]_vars =>
          [\A i \in Ids, h \in Hosts :
             /\ task[<<i, h>>].pc # "execute" /\ task'[<<i, h>>].pc = "execute"
             /\ job[i].active /\ job[i].feature \in Locks
             => wish[KeyOf(i, h)]]_vars
    <2> SUFFICES ASSUME PromisesInv, [Next]_vars, NEW i \in Ids, NEW h \in Hosts,
                        task[<<i, h>>].pc # "execute", task'[<<i, h>>].pc = "execute",
                        job[i].active, job[i].feature \in Locks
                 PROVE  wish[KeyOf(i, h)]
      OBVIOUS
    <2>1. JournalInv /\ Promises
      BY DEF PromisesInv, Promises
    <2>2. i \in queue /\ (Read(i, h) \/ Eligible(i, h))
      BY <2>1, OnlyReadsWrite
    <2>3. Read(i, h)
      <3>1. LockLike(job[i]) /\ QueueInv /\ i \in Ids
        BY <2>1 DEF LockLike, JournalInv
      <3>2. ASSUME Eligible(i, h) PROVE FALSE
        <4>1. Step(i, h, "read")
          BY <3>1, <3>2 DEF Eligible
        <4>2. task'[<<i, h>>].pc = "read"
          BY <3>1, <4>1 DEF Step, QueueInv, QueueTypeOK, Task
        <4> QED
          BY <4>2
      <3> QED
        BY <2>2, <3>2
    <2>4. task[<<i, h>>].state = "running" /\ Current(i, h)
      BY <2>3 DEF Read, Awaits
    <2>5. /\ KeyOf(i, h) \in Keys /\ LockTask(i, h)
          /\ intents[KeyOf(i, h)].id = task[<<i, h>>].intent
      BY <2>1, <2>2, <2>4, RunningTask, QueueAssumption DEF Current
    <2>6. intents[KeyOf(i, h)].active
      BY <2>5 DEF LockTask
    <2> QED
      BY <2>1, <2>5, <2>6 DEF Promises, IntentsInv
  <1> QED
    BY <1>1, PromisesInvariant, PTL DEF Spec, NoStaleLock

\* A queue that was frozen when its last task had finished starts nothing more, and what
\* the export reads of the journal stays what it is, until the queue is thawed.
THEOREM DrainedIsStill == Spec => DrainedStaysDrained
  <1>1. PromisesInv /\ [Next]_vars =>
          [paused /\ paused' /\ Running = {} => Running' = {} /\ journal' = journal]_vars
    <2> SUFFICES ASSUME PromisesInv, [Next]_vars, paused, paused', Running = {}
                 PROVE  Running' = {} /\ journal' = journal
      OBVIOUS
    <2>1. JournalInv /\ Promises /\ QueueInv /\ queue \subseteq Ids /\ LoopsRun
      BY DEF PromisesInv, Promises, JournalInv, QueueInv, QueueTypeOK
    <2>2. \A i \in queue, h \in Hosts : task[<<i, h>>].state # "running"
      BY DEF Running
    <2>3. \A i \in queue, h \in Hosts : ~Answer(i, h)
      <3> SUFFICES ASSUME NEW i \in queue, NEW h \in Hosts, Answer(i, h)
                   PROVE  task[<<i, h>>].state = "running"
        BY <2>2
      <3> QED
        BY DEF Answer, Eligible, NotEligible, Read, Observe, NotRead, Execute, Confirm,
               NotConfirmed, Awaits
    <2>4. \A i \in queue, h \in Hosts : ~Start(i, h)
      BY <2>1 DEF Start, LoopsRun
    <2>5. ~Restart
      BY DEF Restart
    <2>6. journal' = journal
      BY <2>3, <2>4, <2>5 DEF Next, Command, ModeCleanup, EnqueueStops, Cancel, Expire, ReconcileHost,
                              ReconcileKey, Tick, BackoffEnds, EndTick, Freeze, Outside, world, vars
    <2>7. NothingStarts
      <3>1. ASSUME NEW f \in Features, NEW active \in BOOLEAN, NEW targets \in SUBSET Hosts,
                   NEW recovery \in BOOLEAN, NEW internal \in BOOLEAN, NEW observe \in BOOLEAN,
                   Enqueue(f, active, targets, recovery, internal, observe)
            PROVE  NothingStarts
        <4>1. PICK old : \/ Accept(f, active, targets, recovery, internal, observe, old)
                         \/ Refuse(targets, old)
          BY <3>1 DEF Enqueue
        <4>2. CASE Accept(f, active, targets, recovery, internal, observe, old)
          <5>1. \E id \in Ids : Queued(id, f, active, targets, recovery, internal, observe)
            BY <2>1, <4>2, AcceptQueues DEF JournalInv, TypeOK
          <5> QED
            BY <5>1 DEF Queued
        <4>3. CASE Refuse(targets, old)
          BY <2>1, <4>3, PruneIsCalm DEF Refuse
        <4> QED
          BY <4>1, <4>2, <4>3
      <3>2. ASSUME NEW f \in Features, NEW active \in BOOLEAN, NEW targets \in SUBSET Hosts,
                   Command(f, active, targets)
            PROVE  NothingStarts
        BY <3>1, <3>2 DEF Command
      <3>3. ASSUME NEW targets \in SUBSET Hosts, ModeCleanup(targets) PROVE NothingStarts
        <4>1. PICK old : LET gone == Prunable(task, old)
                         IN  /\ queue' = queue \ gone /\ before' = DropOrder(gone)
                             /\ job' = DropJobs(job, gone) /\ task' = DropTasks(task, gone)
          BY <3>3 DEF ModeCleanup
        <4> QED
          BY <2>1, <4>1, PruneIsCalm
      <3>4. ASSUME NEW f \in Stateful, EnqueueStops(f) PROVE NothingStarts
        BY <3>1, <3>4 DEF EnqueueStops, Features, Stateful
      <3>5. ASSUME NEW k \in Keys, ReconcileKey(k) PROVE NothingStarts
        <4>1. k[1] \in Hosts /\ k[2] \in Features /\ intents[k].recovery \in BOOLEAN
          BY <2>1 DEF Keys, Intent, JournalInv, TypeOK
        <4> QED
          BY <3>1, <3>5, <4>1 DEF ReconcileKey
      <3>6. ASSUME \/ \E i \in queue : Cancel(i)
                   \/ \E due \in BOOLEAN : Tick(due)
            PROVE  NothingStarts
        <4>1. \A i \in Ids, h \in Hosts : task'[<<i, h>>] \in {Done, task[<<i, h>>]}
          BY <3>6 DEF Cancel, Tick
        <4> QED
          BY <4>1, NotPending DEF NothingStarts
      <3>7. ASSUME NEW i \in queue, NEW h \in Hosts, BackoffEnds(i, h) PROVE NothingStarts
        <4> DEFINE b == [task[<<i, h>>] EXCEPT !.backoff = FALSE]
        <4>1. task[<<i, h>>] \in Task /\ task' = [task EXCEPT ![<<i, h>>] = b]
          BY <2>1, <3>7 DEF BackoffEnds, QueueInv, QueueTypeOK
        <4>2. b.state = task[<<i, h>>].state
          BY <4>1 DEF Task
        <4> HIDE DEF b
        <4> QED
          BY <2>1, <4>1, <4>2 DEF NothingStarts, QueueInv, QueueTypeOK
      <3>8. ASSUME \/ \E h \in Hosts : ReconcileHost(h)
                   \/ EndTick \/ Freeze
                   \/ \E i \in queue : Expire(i)
                   \/ \E k \in Hosts \X Stateful : Outside(k)
                   \/ UNCHANGED vars
            PROVE  NothingStarts
        BY <3>8 DEF ReconcileHost, EndTick, Freeze, Expire, Outside, vars, hub, NothingStarts
      <3> QED
        BY <2>3, <2>4, <2>5, <3>2, <3>3, <3>4, <3>5, <3>6, <3>7, <3>8 DEF Next
    <2>8. \A i \in Ids, h \in Hosts : task'[<<i, h>>].state # "running"
      <3>1. \A i \in Ids, h \in Hosts : task[<<i, h>>].state = "running" => i \in queue
        BY <2>1, PendingIsQueued DEF Pending
      <3> QED
        BY <2>2, <2>7, <3>1 DEF NothingStarts
    <2>9. queue' \subseteq Ids
      BY <2>1, NextPreserves DEF JournalInv, TypeOK, QueueTypeOK
    <2> QED
      BY <2>6, <2>8, <2>9 DEF Running
  <1> QED
    BY <1>1, PromisesInvariant, PTL DEF Spec, DrainedStaysDrained
============================================================================
