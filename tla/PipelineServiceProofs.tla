----------------------- MODULE PipelineServiceProofs -----------------------
(***************************************************************************)
(* What the service keeps in memory agrees with its rows, whatever order   *)
(* the statements of concurrent requests, firing jobs, crashes and starts  *)
(* take, and whatever the store refuses.                                   *)
(***************************************************************************)
EXTENDS PipelineService, TLAPS

(* A request knows a pipeline that was created, and what its next statement*)
(* needs; there are none unless the process serves.                        *)
RequestInv ==
    \A c \in Callers :
        /\ request[c].at # "idle" =>
              /\ Serving /\ request[c].pipeline \in Pipelines
              /\ life[request[c].pipeline] # "unborn"
        /\ request[c].at = "removeQueue" => life[request[c].pipeline] = "deleted"
        /\ request[c].at \in {"newJob", "storeSchedule"} =>
              request[c].schedule \in Schedules
        /\ request[c].at = "storeSchedule" => request[c].job \in Jobs

(* The two halves of PipelinesAreServed: the entry is missing only before  *)
(* AddRunQueue, the worker only before StartRunQueue.                      *)
ServedInv ==
    phase # "down" =>
        \A p \in PresentPipelines :
            /\ p \in queues \/ Busy(p, {"addQueue"})
            /\ p \in workers \/ Busy(p, {"addQueue", "startQueue"})

(* A creation that will add the queue of a deleted pipeline either comes   *)
(* before the removal, or was seen by it.                                  *)
OrphanInv ==
    /\ NoQueueOutlivesItsPipeline
    /\ \A p \in Pipelines : Adding(p) /\ life[p] = "deleted" =>
           Busy(p, {"removeQueue"}) \/ p \in orphaned

(* A job a row or a request knows was made, for their pipeline; the job a  *)
(* request is about to store is running, and known to nobody else.         *)
JobInv ==
    /\ \A j \in Jobs : job[j].state = "unused" \/ job[j].pipeline \in Pipelines
    /\ \A p \in Pipelines : jobOf[p] \in Jobs =>
           job[jobOf[p]].state # "unused" /\ job[jobOf[p]].pipeline = p
    /\ \A c \in Callers : request[c].job \in Jobs =>
           /\ job[request[c].job].state # "unused"
           /\ job[request[c].job].pipeline = request[c].pipeline
    /\ \A c \in Callers : request[c].at = "storeSchedule" =>
           /\ job[request[c].job].state = "live"
           /\ job[request[c].job].schedule = request[c].schedule
           /\ \A p \in Pipelines : jobOf[p] # request[c].job
           /\ \A d \in Callers \ {c} : request[d].job # request[c].job

(* A pipeline that was never created has no schedule; a scheduled one has  *)
(* its job while requests are served.                                      *)
ScheduleInv ==
    /\ \A p \in Pipelines : life[p] = "unborn" => schedule[p] = NoSchedule
    /\ ScheduledPipelineHasItsJob

(* A process that is down has no jobs, and one that starts has one for     *)
(* each row it went through.                                               *)
StartInv ==
    /\ phase = "down" => \A p \in Pipelines : JobsOf(p) = {}
    /\ phase = "scheduling" =>
           /\ todo \subseteq ScheduledPipelines
           /\ \A p \in Pipelines :
                  IF p \in ScheduledPipelines \ todo
                  THEN \E j \in Jobs : JobsOf(p) = {j} /\ job[j].schedule = schedule[p]
                  ELSE JobsOf(p) = {}

(* No job made at a start runs for a pipeline that ended the process.      *)
KillInv ==
    /\ \A p \in killers : life[p] = "deleted"
    /\ \A j \in Jobs : job[j].state = "live" /\ job[j].atStart =>
           job[j].pipeline \notin killers

-----------------------------------------------------------------------------
(* The delete takes the row, or is refused and leaves everything. *)
LEMMA RowGoesOrStays ==
  ASSUME NEW c \in Callers, DeletePipeline(c)
  PROVE  /\ At(c, "deleteRow")
         /\ \/ /\ life' = [life EXCEPT ![request[c].pipeline] = "deleted"]
               /\ Continue(c, "removeQueue")
            \/ Answer(c) /\ UNCHANGED life
         /\ UNCHANGED <<schedule, jobOf, memory, scheduler, startup, history,
                        restarts>>
BY Zenon DEF DeletePipeline

(* A job that ends the process was running, and made at the start. *)
LEMMA RunningJobKills ==
  ASSUME NEW j \in Jobs, JobKillsProcess(j)
  PROVE  /\ GoDown /\ job[j].state = "live" /\ job[j].atStart
         /\ \/ UNCHANGED killers
            \/ /\ life[job[j].pipeline] = "deleted"
               /\ killers' = killers \cup {job[j].pipeline}
<1>1. /\ GoDown /\ job[j].state = "live" /\ job[j].atStart
      /\ killers' = IF life[job[j].pipeline] = "deleted"
                    THEN killers \cup {job[j].pipeline} ELSE killers
  BY Zenon DEF JobKillsProcess
<1>2. CASE life[job[j].pipeline] = "deleted"
  BY Zenon, <1>1, <1>2
<1>3. CASE life[job[j].pipeline] # "deleted"
  BY Zenon, <1>1, <1>3
<1> QED BY Zenon, <1>2, <1>3

(* The end of the process keeps the types. *)
LEMMA DownTyped ==
  ASSUME TypeOK, GoDown, killers' \subseteq Pipelines
  PROVE  TypeOK'
<1>1. job' \in [Jobs -> JobRecord]
  <2>1. job \in [Jobs -> JobRecord]
    BY DEF TypeOK, JobRecord
  <2>2. job' = [j \in Jobs |-> Without(j)[j]]
    BY DEF GoDown
  <2>3. \A j \in Jobs : Without(j)[j] \in JobRecord
    BY <2>1 DEF Without, JobRecord
  <2> QED BY <2>2, <2>3
<1>2. request' = [c \in Callers |-> Idle]
  BY DEF GoDown
<1>3. /\ phase' = "down" /\ todo' = {} /\ queues' = {} /\ workers' = {}
      /\ UNCHANGED <<rows, cleared, orphaned, restarts>>
  BY DEF GoDown
<1> QED
  BY <1>1, <1>2, <1>3, PipelineServiceAssumption
  DEF TypeOK, JobRecord, Idle, Places, rows

(* Every step preserves the types. *)
LEMMA StepTyped ==
  ASSUME TypeOK, RequestInv, JobInv, [Next]_vars
  PROVE  TypeOK'
<1> USE PipelineServiceAssumption DEF TypeOK, RequestInv, JobRecord, Places,
                                      Serving, rows, memory, scheduler, startup,
                                      history
<1>1. ASSUME NEW c \in Callers, NEW p \in Pipelines, CreatePipeline(c, p)
      PROVE  TypeOK'
  BY <1>1 DEF CreatePipeline, At, Serving, Idle
<1>2. ASSUME NEW c \in Callers, AddRunQueue(c)
      PROVE  TypeOK'
  BY <1>2 DEF AddRunQueue, At, Serving, Continue
<1>3. ASSUME NEW c \in Callers, StartRunQueue(c)
      PROVE  TypeOK'
  BY <1>3 DEF StartRunQueue, At, Serving, Answer, Idle
<1>4. ASSUME NEW c \in Callers, NEW p \in Pipelines, ReadPipelineToDelete(c, p)
      PROVE  TypeOK'
  BY <1>4 DEF ReadPipelineToDelete, At, Serving, Idle
<1>5. ASSUME NEW c \in Callers, DeletePipeline(c)
      PROVE  TypeOK'
  BY <1>5, RowGoesOrStays DEF At, Serving, Answer, Continue, Idle
<1>6. ASSUME NEW c \in Callers, RemoveRunQueue(c)
      PROVE  TypeOK'
  BY <1>6 DEF RemoveRunQueue, At, Serving, Answer, Idle
<1>7. ASSUME NEW c \in Callers, NEW p \in Pipelines,
             NEW s \in Schedules \cup {NoSchedule}, ReadPipelineToSchedule(c, p, s)
      PROVE  TypeOK'
  BY <1>7 DEF ReadPipelineToSchedule, At, Serving
<1>8. ASSUME NEW c \in Callers, RemoveJob(c)
      PROVE  TypeOK'
  BY <1>8 DEF RemoveJob, At, Serving, Answer, Idle, Without
<1>9. ASSUME NEW c \in Callers, SchedulePipelineRun(c)
      PROVE  TypeOK'
  <2>1. PICK j \in Jobs :
           /\ NewJob(j, request[c].pipeline, request[c].schedule, FALSE)
           /\ request' = [request EXCEPT ![c].at = "storeSchedule", ![c].job = j]
    BY <1>9 DEF SchedulePipelineRun
  <2>2. job' \in [Jobs -> JobRecord]
    BY <1>9, <2>1 DEF SchedulePipelineRun, At, NewJob
  <2>3. request' \in [Callers -> [at : Places,
                                  pipeline : Pipelines \cup {NoPipeline},
                                  schedule : Schedules \cup {NoSchedule},
                                  job : Jobs \cup {NoJob}]]
    <3>1. request[c] \in [at : Places, pipeline : Pipelines \cup {NoPipeline},
                          schedule : Schedules \cup {NoSchedule},
                          job : Jobs \cup {NoJob}]
      OBVIOUS
    <3>2. [request[c] EXCEPT !.at = "storeSchedule", !.job = j]
             \in [at : Places, pipeline : Pipelines \cup {NoPipeline},
                 schedule : Schedules \cup {NoSchedule},
                 job : Jobs \cup {NoJob}]
      BY <3>1
    <3>3. request' = [request EXCEPT ![c] =
                        [request[c] EXCEPT !.at = "storeSchedule", !.job = j]]
      BY <2>1
    <3> QED BY <3>2, <3>3
  <2> QED BY <1>9, <2>2, <2>3 DEF SchedulePipelineRun
<1>10. ASSUME NEW c \in Callers, ScheduleRefused(c)
      PROVE  TypeOK'
  BY <1>10 DEF ScheduleRefused, At, Serving, Answer, Idle
<1>11. ASSUME NEW c \in Callers, UpdatePipelineSchedule(c)
      PROVE  TypeOK'
  <2>1. /\ request[c].pipeline \in Pipelines /\ request[c].job \in Jobs
        /\ request[c].schedule \in Schedules
    BY <1>11 DEF UpdatePipelineSchedule, At
  <2>2. \/ UNCHANGED <<schedule, jobOf, cleared>>
        \/ /\ schedule' = [schedule EXCEPT ![request[c].pipeline] = request[c].schedule]
           /\ jobOf' = [jobOf EXCEPT ![request[c].pipeline] = request[c].job]
           /\ cleared' = cleared \ {request[c].pipeline}
    BY <1>11 DEF UpdatePipelineSchedule
  <2>3. /\ request' = [request EXCEPT ![c] = Idle]
        /\ UNCHANGED <<life, queues, workers, job, phase, todo, orphaned, killers,
                       restarts>>
    BY <1>11 DEF UpdatePipelineSchedule, Answer
  <2> QED BY <2>1, <2>2, <2>3 DEF Idle
<1>12. CASE Crash
  BY <1>12, DownTyped DEF Crash
<1>13. ASSUME NEW j \in Jobs, JobKillsProcess(j)
      PROVE  TypeOK'
  <2>1. job[j].pipeline \in Pipelines
    BY <1>13, RunningJobKills DEF JobInv
  <2>2. killers' \subseteq Pipelines
    BY <1>13, <2>1, RunningJobKills
  <2> QED BY <1>13, <2>2, DownTyped, RunningJobKills
<1>14. CASE InitializeRunQueues
  BY <1>14 DEF InitializeRunQueues, PresentPipelines, ScheduledPipelines
<1>15. ASSUME NEW p \in Pipelines, SchedulePipeline(p)
      PROVE  TypeOK'
  BY <1>15 DEF SchedulePipeline, NewJob
<1>16. CASE Serve
  BY <1>16 DEF Serve
<1>17. CASE UNCHANGED vars
  BY <1>17 DEF vars
<1> QED
  BY <1>1, <1>2, <1>3, <1>4, <1>5, <1>6, <1>7, <1>8, <1>9, <1>10, <1>11,
     <1>12, <1>13, <1>14, <1>15, <1>16, <1>17
  DEF Next, Creating, Deleting, Scheduling

(* Every step leaves requests what they need. *)
LEMMA StepRequests ==
  ASSUME TypeOK, RequestInv, [Next]_vars
  PROVE  RequestInv'
<1> USE PipelineServiceAssumption DEF TypeOK, RequestInv, Serving, rows, memory,
                                      scheduler, startup, history
<1>1. ASSUME NEW c \in Callers, NEW p \in Pipelines, CreatePipeline(c, p)
      PROVE  RequestInv'
  BY <1>1 DEF CreatePipeline, At, Serving, Idle
<1>2. ASSUME NEW c \in Callers, AddRunQueue(c)
      PROVE  RequestInv'
  BY <1>2 DEF AddRunQueue, At, Serving, Continue
<1>3. ASSUME NEW c \in Callers, StartRunQueue(c)
      PROVE  RequestInv'
  BY <1>3 DEF StartRunQueue, At, Serving, Answer, Idle
<1>4. ASSUME NEW c \in Callers, NEW p \in Pipelines, ReadPipelineToDelete(c, p)
      PROVE  RequestInv'
  BY <1>4 DEF ReadPipelineToDelete, At, Serving, Idle
<1>5. ASSUME NEW c \in Callers, DeletePipeline(c)
      PROVE  RequestInv'
  BY <1>5, RowGoesOrStays DEF At, Serving, Answer, Continue, Idle
<1>6. ASSUME NEW c \in Callers, RemoveRunQueue(c)
      PROVE  RequestInv'
  BY <1>6 DEF RemoveRunQueue, At, Serving, Answer, Idle
<1>7. ASSUME NEW c \in Callers, NEW p \in Pipelines,
             NEW s \in Schedules \cup {NoSchedule}, ReadPipelineToSchedule(c, p, s)
      PROVE  RequestInv'
  BY <1>7 DEF ReadPipelineToSchedule, At, Serving
<1>8. ASSUME NEW c \in Callers, RemoveJob(c)
      PROVE  RequestInv'
  BY <1>8 DEF RemoveJob, At, Serving, Answer, Idle, Without
<1>9. ASSUME NEW c \in Callers, SchedulePipelineRun(c)
      PROVE  RequestInv'
  BY <1>9 DEF SchedulePipelineRun, At, Serving, NewJob
<1>10. ASSUME NEW c \in Callers, ScheduleRefused(c)
      PROVE  RequestInv'
  BY <1>10 DEF ScheduleRefused, At, Serving, Answer, Idle
<1>11. ASSUME NEW c \in Callers, UpdatePipelineSchedule(c)
      PROVE  RequestInv'
  BY <1>11 DEF UpdatePipelineSchedule, At, Serving, Answer, Idle
<1>12. CASE Crash
  BY <1>12 DEF Crash, GoDown, Without, Idle
<1>13. ASSUME NEW j \in Jobs, JobKillsProcess(j)
      PROVE  RequestInv'
  BY <1>13 DEF JobKillsProcess, GoDown, Without, Serving, Idle
<1>14. CASE InitializeRunQueues
  BY <1>14 DEF InitializeRunQueues
<1>15. ASSUME NEW p \in Pipelines, SchedulePipeline(p)
      PROVE  RequestInv'
  BY <1>15 DEF SchedulePipeline, NewJob
<1>16. CASE Serve
  BY <1>16 DEF Serve
<1>17. CASE UNCHANGED vars
  BY <1>17 DEF vars
<1> QED
  BY <1>1, <1>2, <1>3, <1>4, <1>5, <1>6, <1>7, <1>8, <1>9, <1>10, <1>11,
     <1>12, <1>13, <1>14, <1>15, <1>16, <1>17
  DEF Next, Creating, Deleting, Scheduling

(* Every step keeps pipelines served. *)
LEMMA StepServes ==
  ASSUME TypeOK, RequestInv, ServedInv, [Next]_vars
  PROVE  ServedInv'
<1> USE PipelineServiceAssumption DEF TypeOK, RequestInv, ServedInv,
                                      PresentPipelines, Busy, Serving, rows,
                                      memory, scheduler, startup, history
<1>1. ASSUME NEW c \in Callers, NEW p \in Pipelines, CreatePipeline(c, p)
      PROVE  ServedInv'
  BY <1>1 DEF CreatePipeline, At, Serving, Idle
<1>2. ASSUME NEW c \in Callers, AddRunQueue(c)
      PROVE  ServedInv'
  BY <1>2 DEF AddRunQueue, At, Serving, Continue
<1>3. ASSUME NEW c \in Callers, StartRunQueue(c)
      PROVE  ServedInv'
  BY <1>3 DEF StartRunQueue, At, Serving, Answer, Idle
<1>4. ASSUME NEW c \in Callers, NEW p \in Pipelines, ReadPipelineToDelete(c, p)
      PROVE  ServedInv'
  BY <1>4 DEF ReadPipelineToDelete, At, Serving, Idle
<1>5. ASSUME NEW c \in Callers, DeletePipeline(c)
      PROVE  ServedInv'
  BY <1>5, RowGoesOrStays DEF At, Serving, Answer, Continue, Idle
<1>6. ASSUME NEW c \in Callers, RemoveRunQueue(c)
      PROVE  ServedInv'
  BY <1>6 DEF RemoveRunQueue, At, Serving, Answer, Idle
<1>7. ASSUME NEW c \in Callers, NEW p \in Pipelines,
             NEW s \in Schedules \cup {NoSchedule}, ReadPipelineToSchedule(c, p, s)
      PROVE  ServedInv'
  BY <1>7 DEF ReadPipelineToSchedule, At, Serving
<1>8. ASSUME NEW c \in Callers, RemoveJob(c)
      PROVE  ServedInv'
  BY <1>8 DEF RemoveJob, At, Serving, Answer, Idle, Without
<1>9. ASSUME NEW c \in Callers, SchedulePipelineRun(c)
      PROVE  ServedInv'
  BY <1>9 DEF SchedulePipelineRun, At, Serving, NewJob
<1>10. ASSUME NEW c \in Callers, ScheduleRefused(c)
      PROVE  ServedInv'
  BY <1>10 DEF ScheduleRefused, At, Serving, Answer, Idle
<1>11. ASSUME NEW c \in Callers, UpdatePipelineSchedule(c)
      PROVE  ServedInv'
  BY <1>11 DEF UpdatePipelineSchedule, At, Serving, Answer, Idle
<1>12. CASE Crash
  BY <1>12 DEF Crash, GoDown, Without, Idle
<1>13. ASSUME NEW j \in Jobs, JobKillsProcess(j)
      PROVE  ServedInv'
  BY <1>13 DEF JobKillsProcess, GoDown, Without, Serving, Idle
<1>14. CASE InitializeRunQueues
  BY <1>14 DEF InitializeRunQueues
<1>15. ASSUME NEW p \in Pipelines, SchedulePipeline(p)
      PROVE  ServedInv'
  BY <1>15 DEF SchedulePipeline, NewJob
<1>16. CASE Serve
  BY <1>16 DEF Serve
<1>17. CASE UNCHANGED vars
  BY <1>17 DEF vars
<1> QED
  BY <1>1, <1>2, <1>3, <1>4, <1>5, <1>6, <1>7, <1>8, <1>9, <1>10, <1>11,
     <1>12, <1>13, <1>14, <1>15, <1>16, <1>17
  DEF Next, Creating, Deleting, Scheduling

(* Every step accounts for the entries without a row. *)
LEMMA StepOrphans ==
  ASSUME TypeOK, RequestInv, OrphanInv, [Next]_vars
  PROVE  OrphanInv'
<1> USE PipelineServiceAssumption DEF TypeOK, RequestInv, OrphanInv,
                                      NoQueueOutlivesItsPipeline,
           PresentPipelines, Adding, Busy, Serving, rows, memory, scheduler, startup, history
<1>1. ASSUME NEW c \in Callers, NEW p \in Pipelines, CreatePipeline(c, p)
      PROVE  OrphanInv'
  BY <1>1 DEF CreatePipeline, At, Serving, Idle
<1>2. ASSUME NEW c \in Callers, AddRunQueue(c)
      PROVE  OrphanInv'
  BY <1>2 DEF AddRunQueue, At, Serving, Continue
<1>3. ASSUME NEW c \in Callers, StartRunQueue(c)
      PROVE  OrphanInv'
  BY <1>3 DEF StartRunQueue, At, Serving, Answer, Idle
<1>4. ASSUME NEW c \in Callers, NEW p \in Pipelines, ReadPipelineToDelete(c, p)
      PROVE  OrphanInv'
  BY <1>4 DEF ReadPipelineToDelete, At, Serving, Idle
<1>5. ASSUME NEW c \in Callers, DeletePipeline(c)
      PROVE  OrphanInv'
  <2>1. CASE Answer(c) /\ UNCHANGED life
    BY <1>5, <2>1, RowGoesOrStays DEF At, Answer, Idle
  <2>2. CASE life' = [life EXCEPT ![request[c].pipeline] = "deleted"]
             /\ Continue(c, "removeQueue")
    <3>1. /\ request[c].pipeline \in Pipelines /\ request[c].at = "deleteRow"
          /\ request' = [request EXCEPT ![c].at = "removeQueue"]
          /\ UNCHANGED <<queues, orphaned>>
      BY <1>5, <2>2, RowGoesOrStays DEF At, Continue
    <3>2. /\ request'[c].at = "removeQueue" /\ request'[c].pipeline = request[c].pipeline
          /\ \A d \in Callers \ {c} : request'[d] = request[d]
      BY <3>1
    <3>3. ASSUME NEW p \in Pipelines, p # request[c].pipeline
          PROVE  /\ life'[p] = life[p]
                 /\ Busy(p, {"addQueue", "removeQueue"})
                       => Busy(p, {"addQueue", "removeQueue"})'
                 /\ Busy(p, {"removeQueue"}) => Busy(p, {"removeQueue"})'
                 /\ Adding(p)' => Adding(p)
      BY <2>2, <3>1, <3>2, <3>3
    <3>4. /\ Busy(request[c].pipeline, {"removeQueue"})'
          /\ Busy(request[c].pipeline, {"addQueue", "removeQueue"})'
      BY <3>1, <3>2
    <3> HIDE DEF Busy, Adding
    <3> QED BY <2>2, <3>1, <3>3, <3>4
  <2> QED BY <1>5, <2>1, <2>2, RowGoesOrStays
<1>6. ASSUME NEW c \in Callers, RemoveRunQueue(c)
      PROVE  OrphanInv'
  BY <1>6 DEF RemoveRunQueue, At, Serving, Answer, Idle
<1>7. ASSUME NEW c \in Callers, NEW p \in Pipelines,
             NEW s \in Schedules \cup {NoSchedule}, ReadPipelineToSchedule(c, p, s)
      PROVE  OrphanInv'
  BY <1>7 DEF ReadPipelineToSchedule, At, Serving
<1>8. ASSUME NEW c \in Callers, RemoveJob(c)
      PROVE  OrphanInv'
  BY <1>8 DEF RemoveJob, At, Serving, Answer, Idle, Without
<1>9. ASSUME NEW c \in Callers, SchedulePipelineRun(c)
      PROVE  OrphanInv'
  <2>1. /\ request[c].at = "newJob" /\ UNCHANGED <<life, queues, orphaned>>
    BY <1>9 DEF SchedulePipelineRun, At
  <2>2. \E j \in Jobs :
            request' = [request EXCEPT ![c].at = "storeSchedule", ![c].job = j]
    BY <1>9 DEF SchedulePipelineRun
  <2>3. /\ request'[c].at = "storeSchedule"
        /\ request'[c].pipeline = request[c].pipeline
        /\ \A d \in Callers \ {c} : request'[d] = request[d]
    BY <2>2
  <2> QED BY <2>1, <2>3
<1>10. ASSUME NEW c \in Callers, ScheduleRefused(c)
      PROVE  OrphanInv'
  BY <1>10 DEF ScheduleRefused, At, Serving, Answer, Idle
<1>11. ASSUME NEW c \in Callers, UpdatePipelineSchedule(c)
      PROVE  OrphanInv'
  BY <1>11 DEF UpdatePipelineSchedule, At, Serving, Answer, Idle
<1>12. CASE Crash
  BY <1>12 DEF Crash, GoDown, Without, Idle
<1>13. ASSUME NEW j \in Jobs, JobKillsProcess(j)
      PROVE  OrphanInv'
  BY <1>13 DEF JobKillsProcess, GoDown, Without, Serving, Idle
<1>14. CASE InitializeRunQueues
  BY <1>14 DEF InitializeRunQueues
<1>15. ASSUME NEW p \in Pipelines, SchedulePipeline(p)
      PROVE  OrphanInv'
  BY <1>15 DEF SchedulePipeline, NewJob
<1>16. CASE Serve
  BY <1>16 DEF Serve
<1>17. CASE UNCHANGED vars
  BY <1>17 DEF vars
<1> QED
  BY <1>1, <1>2, <1>3, <1>4, <1>5, <1>6, <1>7, <1>8, <1>9, <1>10, <1>11,
     <1>12, <1>13, <1>14, <1>15, <1>16, <1>17
  DEF Next, Creating, Deleting, Scheduling

(* Every step keeps jobs with the rows and requests that know them. *)
LEMMA StepJobs ==
  ASSUME TypeOK, RequestInv, JobInv, [Next]_vars
  PROVE  JobInv'
<1> USE PipelineServiceAssumption DEF TypeOK, RequestInv, JobInv, JobRecord,
                                      Serving, rows, memory, scheduler, startup,
                                      history
<1>1. ASSUME NEW c \in Callers, NEW p \in Pipelines, CreatePipeline(c, p)
      PROVE  JobInv'
  BY <1>1 DEF CreatePipeline, At, Serving, Idle
<1>2. ASSUME NEW c \in Callers, AddRunQueue(c)
      PROVE  JobInv'
  BY <1>2 DEF AddRunQueue, At, Serving, Continue
<1>3. ASSUME NEW c \in Callers, StartRunQueue(c)
      PROVE  JobInv'
  BY <1>3 DEF StartRunQueue, At, Serving, Answer, Idle
<1>4. ASSUME NEW c \in Callers, NEW p \in Pipelines, ReadPipelineToDelete(c, p)
      PROVE  JobInv'
  BY <1>4 DEF ReadPipelineToDelete, At, Serving, Idle
<1>5. ASSUME NEW c \in Callers, DeletePipeline(c)
      PROVE  JobInv'
  <2>1. /\ request[c].at = "deleteRow" /\ UNCHANGED <<jobOf, job>>
        /\ \/ request' = [request EXCEPT ![c] = Idle]
           \/ request' = [request EXCEPT ![c].at = "removeQueue"]
    BY <1>5, RowGoesOrStays DEF At, Answer, Continue
  <2>2. ASSUME NEW d \in Callers
        PROVE  /\ request'[d].job \in {request[d].job, NoJob}
               /\ request'[d].job \in Jobs => request'[d].pipeline = request[d].pipeline
               /\ request'[d].at = "storeSchedule" => request'[d] = request[d]
    BY <2>1 DEF Idle
  <2>3. ASSUME NEW d \in Callers, request'[d].job \in Jobs
        PROVE  /\ job'[request'[d].job].state # "unused"
               /\ job'[request'[d].job].pipeline = request'[d].pipeline
    BY <2>1, <2>2, <2>3
  <2>4. ASSUME NEW d \in Callers, request'[d].at = "storeSchedule"
        PROVE  /\ job'[request'[d].job].state = "live"
               /\ job'[request'[d].job].schedule = request'[d].schedule
               /\ \A p \in Pipelines : jobOf'[p] # request'[d].job
               /\ \A e \in Callers \ {d} : request'[e].job # request'[d].job
    BY <2>1, <2>2, <2>4
  <2> QED BY <2>1, <2>3, <2>4
<1>6. ASSUME NEW c \in Callers, RemoveRunQueue(c)
      PROVE  JobInv'
  BY <1>6 DEF RemoveRunQueue, At, Serving, Answer, Idle
<1>7. ASSUME NEW c \in Callers, NEW p \in Pipelines,
             NEW s \in Schedules \cup {NoSchedule}, ReadPipelineToSchedule(c, p, s)
      PROVE  JobInv'
  BY <1>7 DEF ReadPipelineToSchedule, At, Serving
<1>8. ASSUME NEW c \in Callers, RemoveJob(c)
      PROVE  JobInv'
  BY <1>8 DEF RemoveJob, At, Serving, Answer, Idle, Without
<1>9. ASSUME NEW c \in Callers, SchedulePipelineRun(c)
      PROVE  JobInv'
  <2>1. PICK j \in Jobs :
           /\ job[j].state = "unused"
           /\ job' = [job EXCEPT ![j] = [state |-> "live", pipeline |-> request[c].pipeline,
                                         schedule |-> request[c].schedule, atStart |-> FALSE]]
           /\ request' = [request EXCEPT ![c].at = "storeSchedule", ![c].job = j]
    BY <1>9 DEF SchedulePipelineRun, NewJob
  <2>2. jobOf' = jobOf
    BY <1>9 DEF SchedulePipelineRun, rows
  <2>3. ASSUME NEW k \in Jobs PROVE job'[k].state = "unused" \/ job'[k].pipeline \in Pipelines
    BY <2>1
  <2>4. \A p \in Pipelines : jobOf[p] # j
    BY <2>1
  <2>5. \A d \in Callers : request[d].job # j
    BY <2>1
  <2>6. ASSUME NEW k \in Jobs, k # j PROVE job'[k] = job[k]
    BY <2>1, <2>6
  <2>7. ASSUME NEW d \in Callers, d # c PROVE request'[d] = request[d]
    BY <2>1, <2>7
  <2>8. request'[c].job = j /\ job'[j].state = "live"
        /\ job'[j].pipeline = request'[c].pipeline
        /\ job'[j].schedule = request'[c].schedule
    BY <2>1
  <2>9. \A p \in Pipelines : jobOf'[p] \in Jobs =>
            job'[jobOf'[p]].state # "unused" /\ job'[jobOf'[p]].pipeline = p
    BY <2>2, <2>4, <2>6
  <2>10. ASSUME NEW d \in Callers, request'[d].job \in Jobs
         PROVE  /\ job'[request'[d].job].state # "unused"
                /\ job'[request'[d].job].pipeline = request'[d].pipeline
    BY <2>5, <2>6, <2>7, <2>8, <2>10
  <2>11. ASSUME NEW d \in Callers, request'[d].at = "storeSchedule"
         PROVE  /\ job'[request'[d].job].state = "live"
                /\ job'[request'[d].job].schedule = request'[d].schedule
                /\ \A p \in Pipelines : jobOf'[p] # request'[d].job
                /\ \A e \in Callers \ {d} : request'[e].job # request'[d].job
    <3>1. CASE d = c
      BY <2>2, <2>4, <2>5, <2>7, <2>8, <3>1
    <3>2. CASE d # c
      BY <2>2, <2>5, <2>6, <2>7, <2>8, <2>11, <3>2
    <3> QED BY <3>1, <3>2
  <2> QED BY <2>3, <2>9, <2>10, <2>11
<1>10. ASSUME NEW c \in Callers, ScheduleRefused(c)
      PROVE  JobInv'
  BY <1>10 DEF ScheduleRefused, At, Serving, Answer, Idle
<1>11. ASSUME NEW c \in Callers, UpdatePipelineSchedule(c)
      PROVE  JobInv'
  BY <1>11 DEF UpdatePipelineSchedule, At, Serving, Answer, Idle
<1>12. CASE Crash
  BY <1>12 DEF Crash, GoDown, Without, Idle
<1>13. ASSUME NEW j \in Jobs, JobKillsProcess(j)
      PROVE  JobInv'
  BY <1>13 DEF JobKillsProcess, GoDown, Without, Serving, Idle
<1>14. CASE InitializeRunQueues
  BY <1>14 DEF InitializeRunQueues
<1>15. ASSUME NEW p \in Pipelines, SchedulePipeline(p)
      PROVE  JobInv'
  BY <1>15 DEF SchedulePipeline, NewJob
<1>16. CASE Serve
  BY <1>16 DEF Serve
<1>17. CASE UNCHANGED vars
  BY <1>17 DEF vars
<1> QED
  BY <1>1, <1>2, <1>3, <1>4, <1>5, <1>6, <1>7, <1>8, <1>9, <1>10, <1>11,
     <1>12, <1>13, <1>14, <1>15, <1>16, <1>17
  DEF Next, Creating, Deleting, Scheduling

(* Every step keeps scheduled pipelines with a job. *)
LEMMA StepSchedules ==
  ASSUME TypeOK, RequestInv, JobInv, StartInv, ScheduleInv, [Next]_vars
  PROVE  ScheduleInv'
<1> USE DEF ScheduleInv, ScheduledPipelineHasItsJob, ScheduledPipelines,
            PresentPipelines, JobsOf, Serving, rows, memory, scheduler, startup,
            history
<1>1. ASSUME NEW c \in Callers, NEW p \in Pipelines, CreatePipeline(c, p)
      PROVE  ScheduleInv'
  BY <1>1 DEF CreatePipeline, At, Serving, Idle
<1>2. ASSUME NEW c \in Callers, AddRunQueue(c)
      PROVE  ScheduleInv'
  BY <1>2 DEF AddRunQueue, At, Serving, Continue
<1>3. ASSUME NEW c \in Callers, StartRunQueue(c)
      PROVE  ScheduleInv'
  BY <1>3 DEF StartRunQueue, At, Serving, Answer, Idle
<1>4. ASSUME NEW c \in Callers, NEW p \in Pipelines, ReadPipelineToDelete(c, p)
      PROVE  ScheduleInv'
  BY <1>4 DEF ReadPipelineToDelete, At, Serving, Idle
<1>5. ASSUME NEW c \in Callers, DeletePipeline(c)
      PROVE  ScheduleInv'
  <2>1. UNCHANGED <<schedule, job, phase, cleared>>
    BY <1>5, RowGoesOrStays
  <2>2. \A p \in Pipelines : /\ life'[p] = "present" => life[p] = "present"
                             /\ life'[p] = "unborn" => life[p] = "unborn"
    BY <1>5, RowGoesOrStays DEF TypeOK
  <2>3. \A p \in Pipelines : life'[p] = "unborn" => schedule'[p] = NoSchedule
    BY <2>1, <2>2
  <2>4. ScheduledPipelineHasItsJob'
    <3>1. ScheduledPipelines' \subseteq ScheduledPipelines
      BY <2>1, <2>2
    <3>2. \A p \in Pipelines : JobsOf(p)' = JobsOf(p)
      BY <2>1
    <3> QED BY <2>1, <3>1, <3>2
  <2> QED BY <2>3, <2>4
<1>6. ASSUME NEW c \in Callers, RemoveRunQueue(c)
      PROVE  ScheduleInv'
  BY <1>6 DEF RemoveRunQueue, At, Serving, Answer, Idle
<1>7. ASSUME NEW c \in Callers, NEW p \in Pipelines,
             NEW s \in Schedules \cup {NoSchedule}, ReadPipelineToSchedule(c, p, s)
      PROVE  ScheduleInv'
  BY <1>7 DEF ReadPipelineToSchedule, At, Serving
<1>8. ASSUME NEW c \in Callers, RemoveJob(c)
      PROVE  ScheduleInv'
  <2>1. /\ UNCHANGED <<life, schedule, phase>>
        /\ cleared' = cleared \cup {request[c].pipeline}
        /\ job' = Without(request[c].job)
    BY <1>8 DEF RemoveJob
  <2>2. \A j \in Jobs \ {request[c].job} : job'[j] = job[j]
    BY <2>1 DEF Without
  <2>3. ASSUME NEW p \in Pipelines, NEW j \in Jobs, job[j].pipeline = p,
               p \notin cleared'
        PROVE  job'[j] = job[j]
    BY <2>1, <2>2, <2>3 DEF JobInv
  <2>4. ScheduledPipelineHasItsJob'
    <3> SUFFICES ASSUME Serving, NEW p \in ScheduledPipelines, p \notin cleared'
                 PROVE  \E j \in JobsOf(p)' : job'[j].schedule = schedule[p]
      BY <2>1
    <3>1. PICK j \in JobsOf(p) : job[j].schedule = schedule[p]
      BY <2>1
    <3> QED BY <2>3, <3>1
  <2> QED BY <2>1, <2>4
<1>9. ASSUME NEW c \in Callers, SchedulePipelineRun(c)
      PROVE  ScheduleInv'
  BY <1>9 DEF SchedulePipelineRun, At, Serving, NewJob
<1>10. ASSUME NEW c \in Callers, ScheduleRefused(c)
      PROVE  ScheduleInv'
  BY <1>10 DEF ScheduleRefused, At, Serving, Answer, Idle
<1>11. ASSUME NEW c \in Callers, UpdatePipelineSchedule(c)
      PROVE  ScheduleInv'
  <2>1. /\ UNCHANGED <<life, job, phase>>
        /\ \/ UNCHANGED <<schedule, cleared>>
           \/ /\ life[request[c].pipeline] = "present"
              /\ schedule' = [schedule EXCEPT ![request[c].pipeline] = request[c].schedule]
              /\ cleared' = cleared \ {request[c].pipeline}
    BY <1>11 DEF UpdatePipelineSchedule
  <2>2. /\ request[c].job \in Jobs /\ request[c].pipeline \in Pipelines
        /\ job[request[c].job].state = "live"
        /\ job[request[c].job].pipeline = request[c].pipeline
        /\ job[request[c].job].schedule = request[c].schedule
    BY <1>11 DEF UpdatePipelineSchedule, At, JobInv, RequestInv
  <2> QED BY <2>1, <2>2 DEF TypeOK
<1>12. CASE Crash
  BY <1>12 DEF Crash, GoDown, Without, Idle
<1>13. ASSUME NEW j \in Jobs, JobKillsProcess(j)
      PROVE  ScheduleInv'
  BY <1>13 DEF JobKillsProcess, GoDown, Without, Serving, Idle
<1>14. CASE InitializeRunQueues
  BY <1>14 DEF InitializeRunQueues
<1>15. ASSUME NEW p \in Pipelines, SchedulePipeline(p)
      PROVE  ScheduleInv'
  BY <1>15 DEF SchedulePipeline, NewJob
<1>16. CASE Serve
  <2>1. UNCHANGED <<life, schedule, job, cleared>> /\ phase = "scheduling" /\ todo = {}
    BY <1>16 DEF Serve
  <2>2. \A p \in ScheduledPipelines : \E j \in JobsOf(p) : job[j].schedule = schedule[p]
    BY <2>1 DEF StartInv
  <2> QED BY <2>1, <2>2
<1>17. CASE UNCHANGED vars
  BY <1>17 DEF vars
<1> QED
  BY <1>1, <1>2, <1>3, <1>4, <1>5, <1>6, <1>7, <1>8, <1>9, <1>10, <1>11,
     <1>12, <1>13, <1>14, <1>15, <1>16, <1>17
  DEF Next, Creating, Deleting, Scheduling

(* Every step of a start keeps jobs and rows in line. *)
LEMMA StepStarts ==
  ASSUME TypeOK, RequestInv, JobInv, StartInv, [Next]_vars
  PROVE  StartInv'
<1> USE PipelineServiceAssumption DEF TypeOK, RequestInv, StartInv,
           ScheduledPipelines, PresentPipelines, JobsOf, Serving, rows, memory,
           scheduler, startup, history
<1>1. ASSUME NEW c \in Callers, NEW p \in Pipelines, CreatePipeline(c, p)
      PROVE  StartInv'
  BY <1>1 DEF CreatePipeline, At, Serving, Idle
<1>2. ASSUME NEW c \in Callers, AddRunQueue(c)
      PROVE  StartInv'
  BY <1>2 DEF AddRunQueue, At, Serving, Continue
<1>3. ASSUME NEW c \in Callers, StartRunQueue(c)
      PROVE  StartInv'
  BY <1>3 DEF StartRunQueue, At, Serving, Answer, Idle
<1>4. ASSUME NEW c \in Callers, NEW p \in Pipelines, ReadPipelineToDelete(c, p)
      PROVE  StartInv'
  BY <1>4 DEF ReadPipelineToDelete, At, Serving, Idle
<1>5. ASSUME NEW c \in Callers, DeletePipeline(c)
      PROVE  StartInv'
  BY <1>5, RowGoesOrStays DEF At, Serving, Answer, Continue, Idle
<1>6. ASSUME NEW c \in Callers, RemoveRunQueue(c)
      PROVE  StartInv'
  BY <1>6 DEF RemoveRunQueue, At, Serving, Answer, Idle
<1>7. ASSUME NEW c \in Callers, NEW p \in Pipelines,
             NEW s \in Schedules \cup {NoSchedule}, ReadPipelineToSchedule(c, p, s)
      PROVE  StartInv'
  BY <1>7 DEF ReadPipelineToSchedule, At, Serving
<1>8. ASSUME NEW c \in Callers, RemoveJob(c)
      PROVE  StartInv'
  BY <1>8 DEF RemoveJob, At, Serving, Answer, Idle, Without
<1>9. ASSUME NEW c \in Callers, SchedulePipelineRun(c)
      PROVE  StartInv'
  BY <1>9 DEF SchedulePipelineRun, At, Serving, NewJob
<1>10. ASSUME NEW c \in Callers, ScheduleRefused(c)
      PROVE  StartInv'
  BY <1>10 DEF ScheduleRefused, At, Serving, Answer, Idle
<1>11. ASSUME NEW c \in Callers, UpdatePipelineSchedule(c)
      PROVE  StartInv'
  BY <1>11 DEF UpdatePipelineSchedule, At, Serving, Answer, Idle
<1>12. CASE Crash
  BY <1>12 DEF Crash, GoDown, Without, Idle
<1>13. ASSUME NEW j \in Jobs, JobKillsProcess(j)
      PROVE  StartInv'
  BY <1>13 DEF JobKillsProcess, GoDown, Without, Serving, Idle
<1>14. CASE InitializeRunQueues
  BY <1>14 DEF InitializeRunQueues
<1>15. ASSUME NEW p \in Pipelines, SchedulePipeline(p)
      PROVE  StartInv'
  BY <1>15 DEF SchedulePipeline, NewJob
<1>16. CASE Serve
  BY <1>16 DEF Serve
<1>17. CASE UNCHANGED vars
  BY <1>17 DEF vars
<1> QED
  BY <1>1, <1>2, <1>3, <1>4, <1>5, <1>6, <1>7, <1>8, <1>9, <1>10, <1>11,
     <1>12, <1>13, <1>14, <1>15, <1>16, <1>17
  DEF Next, Creating, Deleting, Scheduling

(* Every step keeps dangerous jobs from starting. *)
LEMMA StepKills ==
  ASSUME TypeOK, RequestInv, JobInv, StartInv, KillInv, [Next]_vars
  PROVE  KillInv'
<1> USE PipelineServiceAssumption DEF TypeOK, RequestInv, KillInv, rows, memory,
                                      scheduler, startup, history
<1>1. ASSUME NEW c \in Callers, NEW p \in Pipelines, CreatePipeline(c, p)
      PROVE  KillInv'
  BY <1>1 DEF CreatePipeline, At, Serving, Idle
<1>2. ASSUME NEW c \in Callers, AddRunQueue(c)
      PROVE  KillInv'
  BY <1>2 DEF AddRunQueue, At, Serving, Continue
<1>3. ASSUME NEW c \in Callers, StartRunQueue(c)
      PROVE  KillInv'
  BY <1>3 DEF StartRunQueue, At, Serving, Answer, Idle
<1>4. ASSUME NEW c \in Callers, NEW p \in Pipelines, ReadPipelineToDelete(c, p)
      PROVE  KillInv'
  BY <1>4 DEF ReadPipelineToDelete, At, Serving, Idle
<1>5. ASSUME NEW c \in Callers, DeletePipeline(c)
      PROVE  KillInv'
  BY <1>5, RowGoesOrStays
<1>6. ASSUME NEW c \in Callers, RemoveRunQueue(c)
      PROVE  KillInv'
  BY <1>6 DEF RemoveRunQueue, At, Serving, Answer, Idle
<1>7. ASSUME NEW c \in Callers, NEW p \in Pipelines,
             NEW s \in Schedules \cup {NoSchedule}, ReadPipelineToSchedule(c, p, s)
      PROVE  KillInv'
  BY <1>7 DEF ReadPipelineToSchedule, At, Serving
<1>8. ASSUME NEW c \in Callers, RemoveJob(c)
      PROVE  KillInv'
  BY <1>8 DEF RemoveJob, At, Serving, Answer, Idle, Without
<1>9. ASSUME NEW c \in Callers, SchedulePipelineRun(c)
      PROVE  KillInv'
  BY <1>9 DEF SchedulePipelineRun, At, Serving, NewJob
<1>10. ASSUME NEW c \in Callers, ScheduleRefused(c)
      PROVE  KillInv'
  BY <1>10 DEF ScheduleRefused, At, Serving, Answer, Idle
<1>11. ASSUME NEW c \in Callers, UpdatePipelineSchedule(c)
      PROVE  KillInv'
  BY <1>11 DEF UpdatePipelineSchedule, At, Serving, Answer, Idle
<1>12. CASE Crash
  BY <1>12 DEF Crash, GoDown, Without, Idle
<1>13. ASSUME NEW j \in Jobs, JobKillsProcess(j)
      PROVE  KillInv'
  BY <1>13 DEF JobKillsProcess, GoDown, Without, Serving, Idle
<1>14. CASE InitializeRunQueues
  BY <1>14 DEF InitializeRunQueues
<1>15. ASSUME NEW p \in Pipelines, SchedulePipeline(p)
      PROVE  KillInv'
  BY <1>15 DEF SchedulePipeline, NewJob, StartInv, ScheduledPipelines, PresentPipelines
<1>16. CASE Serve
  BY <1>16 DEF Serve
<1>17. CASE UNCHANGED vars
  BY <1>17 DEF vars
<1> QED
  BY <1>1, <1>2, <1>3, <1>4, <1>5, <1>6, <1>7, <1>8, <1>9, <1>10, <1>11,
     <1>12, <1>13, <1>14, <1>15, <1>16, <1>17
  DEF Next, Creating, Deleting, Scheduling

-----------------------------------------------------------------------------
(* The invariants together, with the types. *)
ServiceInv == /\ TypeOK /\ RequestInv /\ ServedInv /\ OrphanInv
              /\ JobInv /\ ScheduleInv /\ StartInv /\ KillInv

(* They hold of an empty service.                                          *)
LEMMA InitService == Init => ServiceInv
<1> SUFFICES ASSUME Init PROVE ServiceInv
  OBVIOUS
<1> USE PipelineServiceAssumption DEF Init, Serving
<1>1. TypeOK       BY DEF TypeOK, Idle, Unused, Places, JobRecord
<1>2. RequestInv   BY DEF RequestInv, Idle
<1>3. ServedInv    BY DEF ServedInv, PresentPipelines
<1>4. OrphanInv
  BY DEF OrphanInv, NoQueueOutlivesItsPipeline, Adding, Idle
<1>5. JobInv       BY DEF JobInv, Idle, Unused
<1>6. ScheduleInv
  BY DEF ScheduleInv, ScheduledPipelineHasItsJob, ScheduledPipelines, PresentPipelines
<1>7. StartInv     BY DEF StartInv
<1>8. KillInv      BY DEF KillInv, Unused
<1> QED BY <1>1, <1>2, <1>3, <1>4, <1>5, <1>6, <1>7, <1>8 DEF ServiceInv

(* And of every state after it.                                            *)
LEMMA ServiceInvariant == Spec => []ServiceInv
<1>1. ServiceInv /\ [Next]_vars => ServiceInv'
  BY StepTyped, StepRequests, StepServes, StepOrphans, StepJobs, StepSchedules,
     StepStarts, StepKills DEF ServiceInv
<1> QED BY <1>1, InitService, PTL DEF Spec

(* Types, and that a row with a schedule names a job (both columns are     *)
(* written by one statement, UpdatePipelineSchedule).                      *)
THEOREM ServiceTypeCorrect == Spec => []TypeOK
<1>1. ServiceInv => TypeOK
  BY DEF ServiceInv
<1> QED BY <1>1, ServiceInvariant, PTL

(* No order of creations, deletions, store errors and restarts leaves a    *)
(* pipeline without a started queue, except while its CreatePipeline is    *)
(* under way, for any number of pipelines and requests.                    *)
THEOREM EveryPipelineIsServed == Spec => []PipelinesAreServed
<1>1. ServiceInv => PipelinesAreServed
  BY DEF ServiceInv, ServedInv, PipelinesAreServed, Busy
<1> QED BY <1>1, ServiceInvariant, PTL

(* An entry of the map of queues outlives its row only while a request     *)
(* works on it, or when CreatePipeline was overtaken by a deletion.        *)
THEOREM QueuesGoWithTheirPipelines == Spec => []NoQueueOutlivesItsPipeline
<1>1. ServiceInv => NoQueueOutlivesItsPipeline
  BY DEF ServiceInv, OrphanInv
<1> QED BY <1>1, ServiceInvariant, PTL

(* While requests are served, no interleaving of forms and no store error  *)
(* leaves a scheduled row without a job of its schedule, except a row      *)
(* whose schedule a form cleared: the row keeps the schedule without the   *)
(* job (UpdatePipelineSchedule, SchedulePipelineRun).                      *)
THEOREM SchedulesHaveTheirJobs == Spec => []ScheduledPipelineHasItsJob
<1>1. ServiceInv => ScheduledPipelineHasItsJob
  BY DEF ServiceInv, ScheduleInv
<1> QED BY <1>1, ServiceInvariant, PTL

(* When a start is over, jobs and rows match one to one, whatever jobs     *)
(* were replaced, orphaned or lost before (SchedulePipelines).             *)
THEOREM StartsRepairTheJobs == Spec => StartMatchesRows
<1> DEFINE Matches ==
       ~Serving /\ Serving' =>
          \A p \in Pipelines :
              IF p \in ScheduledPipelines
              THEN \E j \in Jobs : JobsOf(p) = {j} /\ job[j].schedule = schedule[p]
              ELSE JobsOf(p) = {}
<1>1. ServiceInv /\ [Next]_vars => [Matches]_vars
  <2> SUFFICES ASSUME ServiceInv, Next, ~Serving, Serving' PROVE Matches
    OBVIOUS
  <2>1. Serve
    BY DEF Next, Creating, Deleting, Scheduling, Serving, At, CreatePipeline,
           AddRunQueue, StartRunQueue, ReadPipelineToDelete, DeletePipeline,
           RemoveRunQueue, ReadPipelineToSchedule, RemoveJob, SchedulePipelineRun,
           ScheduleRefused, UpdatePipelineSchedule, Crash, GoDown,
           JobKillsProcess, InitializeRunQueues, SchedulePipeline
  <2> QED BY <2>1 DEF Serve, ServiceInv, StartInv
<1> QED BY <1>1, ServiceInvariant, PTL DEF Spec, StartMatchesRows

(* The job of a deleted pipeline ends the process once; the start after it *)
(* makes no job that could do it again.                                    *)
THEOREM DeletedPipelinesKillOnce == Spec => NoCrashLoop
<1> DEFINE Once == \A j \in Jobs : JobKillsProcess(j) => job[j].pipeline \notin killers
<1>1. ServiceInv /\ [Next]_vars => [Once]_vars
  BY RunningJobKills DEF ServiceInv, KillInv
<1> QED BY <1>1, ServiceInvariant, PTL DEF Spec, NoCrashLoop
=============================================================================
