-------------------------- MODULE PipelineService --------------------------
(***************************************************************************)
(* The pipelines of the service (internal/service/pipeline_service.go) and *)
(* what it keeps in memory for them: the map of run queues, their workers, *)
(* and the jobs of the cron scheduler.  Requests that create, delete and   *)
(* schedule a pipeline take several steps that interleave with each other  *)
(* and with firing jobs; the process goes down and comes back with the     *)
(* rows only.  What a queue does with its runs is RunQueue.                *)
(***************************************************************************)
EXTENDS Naturals, FiniteSets

CONSTANTS Pipelines,     \* pipeline ids, which are never used again
          Schedules,     \* values of (schedule, schedule_branch)
          Jobs,          \* job ids of the scheduler, which are never used again
          Callers,       \* requests in progress
          NoSchedule, NoJob, NoPipeline,
          StoreMayFail,  \* whether a write of the store may return an error
          MaxRestarts    \* bound: times the process goes down and comes back

ASSUME PipelineServiceAssumption ==
    /\ NoSchedule \notin Schedules
    /\ NoJob \notin Jobs
    /\ NoPipeline \notin Pipelines
    /\ StoreMayFail \in BOOLEAN
    /\ MaxRestarts \in Nat

VARIABLES
    life,      \* pipelines: "unborn", "present" or "deleted"
    schedule,  \* pipelines.schedule and schedule_branch of each row
    jobOf,     \* pipelines.schedule_job_id of each row
    queues,    \* keys of s.queues
    workers,   \* pipelines whose queue's Run was started
    job,       \* the scheduler's jobs: their state and what they were made of
    phase,     \* main: "scheduling", "serving", or "down"
    todo,      \* SchedulePipelines: rows listed and not yet scheduled
    request,   \* what each caller is doing
    cleared,   \* history: pipelines whose schedule was emptied last
    orphaned,  \* history: deleted before CreatePipeline added their queue
    killers,   \* history: deleted pipelines whose job ended the process
    restarts

rows      == <<life, schedule, jobOf>>
memory    == <<queues, workers>>
scheduler == <<job>>
startup   == <<phase, todo>>
history   == <<cleared, orphaned, killers>>

vars == <<rows, memory, scheduler, startup, request, history, restarts>>

-----------------------------------------------------------------------------
Idle == [at |-> "idle", pipeline |-> NoPipeline, schedule |-> NoSchedule,
         job |-> NoJob]

(* at names the statement a request is about to execute; schedule and job  *)
(* are the form's schedule and the job id it read or made.                 *)
Places == {"idle", "addQueue", "startQueue", "deleteRow", "removeQueue",
           "removeJob", "newJob", "storeSchedule"}

(* A job knows its pipeline and schedule for good, and who made it:        *)
(* SchedulePipelines at the start, or the form through the service.        *)
JobRecord == [state : {"unused", "live", "removed"},
              pipeline : Pipelines \cup {NoPipeline},
              schedule : Schedules \cup {NoSchedule}, atStart : BOOLEAN]
Unused == [state |-> "unused", pipeline |-> NoPipeline,
           schedule |-> NoSchedule, atStart |-> FALSE]

JobsOf(p) == {j \in Jobs : job[j].state = "live" /\ job[j].pipeline = p}

(* scheduler.NewJob of gocron: j is a new job that runs p on s. *)
NewJob(j, p, s, start) ==
    /\ job[j].state = "unused"
    /\ job' = [job EXCEPT ![j] = [state |-> "live", pipeline |-> p,
                                  schedule |-> s, atStart |-> start]]

Serving == phase = "serving"
At(c, place) == Serving /\ request[c].at = place
Answer(c) == request' = [request EXCEPT ![c] = Idle]
Continue(c, place) == request' = [request EXCEPT ![c].at = place]
StoreCall == IF StoreMayFail THEN BOOLEAN ELSE {TRUE}

(* ListPipelines and ListScheduledPipelines. *)
PresentPipelines == {p \in Pipelines : life[p] = "present"}

(* Mutant: rows that are only marked as deleted are listed too. *)
AllScheduled == {p \in Pipelines : life[p] # "unborn" /\ schedule[p] # NoSchedule}

ScheduledPipelines == {p \in PresentPipelines : schedule[p] # NoSchedule}

Init ==
    /\ life = [p \in Pipelines |-> "unborn"]
    /\ schedule = [p \in Pipelines |-> NoSchedule]
    /\ jobOf = [p \in Pipelines |-> NoJob]
    /\ queues = {} /\ workers = {}
    /\ job = [j \in Jobs |-> Unused]
    /\ phase = "serving" /\ todo = {}
    /\ request = [c \in Callers |-> Idle]
    /\ cleared = {} /\ orphaned = {} /\ killers = {}
    /\ restarts = 0

-----------------------------------------------------------------------------
(* CreatePipeline: the row, the entry in the map and the worker, each      *)
(* visible to everyone before the next.                                    *)

CreatePipeline(c, p) ==
    /\ At(c, "idle") /\ life[p] = "unborn"
    /\ life' = [life EXCEPT ![p] = "present"]
    /\ request' = [request EXCEPT ![c] = [Idle EXCEPT !.at = "addQueue",
                                                      !.pipeline = p]]
    /\ UNCHANGED <<schedule, jobOf, memory, scheduler, startup, history,
                   restarts>>

AddRunQueue(c) ==
    /\ At(c, "addQueue")
    /\ queues' = queues \cup {request[c].pipeline}
    /\ Continue(c, "startQueue")
    /\ UNCHANGED <<rows, workers, scheduler, startup, history, restarts>>

(* The lookup fails when the pipeline was deleted since. *)
StartRunQueue(c) ==
    /\ At(c, "startQueue")
    /\ workers' = workers \cup ({request[c].pipeline} \cap queues)
    /\ Answer(c)
    /\ UNCHANGED <<rows, queues, scheduler, startup, history, restarts>>

-----------------------------------------------------------------------------
(* DeletePipeline: the row is read, deleted, then the entry removed.  The  *)
(* worker and the jobs stay.                                               *)

ReadPipelineToDelete(c, p) ==
    /\ At(c, "idle") /\ life[p] = "present"
    /\ request' = [request EXCEPT ![c] = [Idle EXCEPT !.at = "deleteRow",
                                                      !.pipeline = p]]
    /\ UNCHANGED <<rows, memory, scheduler, startup, history, restarts>>

(* Mutant: the entry goes even when the row stays. *)
DeletePipelineUnchecked(c) ==
    /\ At(c, "deleteRow")
    /\ \E ok \in StoreCall :
          life' = IF ok THEN [life EXCEPT ![request[c].pipeline] = "deleted"]
                  ELSE life
    /\ Continue(c, "removeQueue")
    /\ UNCHANGED <<schedule, jobOf, memory, scheduler, startup, history,
                   restarts>>

DeletePipeline(c) ==
    /\ At(c, "deleteRow")
    /\ \/ /\ life' = [life EXCEPT ![request[c].pipeline] = "deleted"]
          /\ Continue(c, "removeQueue")
       \/ /\ FALSE \in StoreCall
          /\ Answer(c) /\ UNCHANGED life
    /\ UNCHANGED <<schedule, jobOf, memory, scheduler, startup, history,
                   restarts>>

(* Callers that inserted p and have not added its queue yet. *)
Adding(p) == \E c \in Callers : request[c].at = "addQueue"
                                /\ request[c].pipeline = p

(* Mutant: the entry of a pipeline that has a worker is kept for it. *)
RemoveIdleRunQueue(c) ==
    /\ At(c, "removeQueue")
    /\ queues' = queues \ ({request[c].pipeline} \ workers)
    /\ orphaned' = IF Adding(request[c].pipeline)
                   THEN orphaned \cup {request[c].pipeline} ELSE orphaned
    /\ Answer(c)
    /\ UNCHANGED <<rows, workers, scheduler, startup, cleared, killers,
                   restarts>>

RemoveRunQueue(c) ==
    /\ At(c, "removeQueue")
    /\ queues' = queues \ {request[c].pipeline}
    /\ orphaned' = IF Adding(request[c].pipeline)
                   THEN orphaned \cup {request[c].pipeline} ELSE orphaned
    /\ Answer(c)
    /\ UNCHANGED <<rows, workers, scheduler, startup, cleared, killers,
                   restarts>>

-----------------------------------------------------------------------------
(* UpdatePipelineSchedule. *)

(* The row is read; what it says of schedule and job decides the rest. An  *)
(* empty form for a row without a schedule dereferences nil: the handler's *)
(* panic is recovered and nothing has changed.                             *)
ReadPipelineToSchedule(c, p, s) ==
    /\ At(c, "idle") /\ life[p] = "present"
    /\ s # NoSchedule \/ schedule[p] # NoSchedule
    /\ request' = [request EXCEPT ![c] =
                     [at |-> IF s = NoSchedule THEN "removeJob" ELSE "newJob",
                      pipeline |-> p, schedule |-> s, job |-> jobOf[p]]]
    /\ UNCHANGED <<rows, memory, scheduler, startup, history, restarts>>

(* The scheduler without job j; a job it does not have is an error that is *)
(* logged only.                                                            *)
Without(j) == [k \in Jobs |->
                 IF k = j /\ job[k].state = "live"
                 THEN [job[k] EXCEPT !.state = "removed"] ELSE job[k]]

(* Mutant: the row forgets the job too, and keeps its schedule. *)
ForgetJob(c) ==
    /\ At(c, "removeJob")
    /\ job' = Without(request[c].job)
    /\ jobOf' = [jobOf EXCEPT ![request[c].pipeline] = NoJob]
    /\ cleared' = cleared \cup {request[c].pipeline}
    /\ Answer(c)
    /\ UNCHANGED <<life, schedule, memory, startup, orphaned, killers,
                   restarts>>

(* The job of the row that was read, if the scheduler still has it.  The   *)
(* row keeps its schedule, and other jobs of the pipeline keep running.    *)
RemoveJob(c) ==
    /\ At(c, "removeJob")
    /\ job' = Without(request[c].job)
    /\ cleared' = cleared \cup {request[c].pipeline}
    /\ Answer(c)
    /\ UNCHANGED <<rows, memory, startup, orphaned, killers, restarts>>

(* Mutant: the job of the row that was read is replaced, as a careful      *)
(* author may want, although the row is stored later and may not be.       *)
ReplaceJob(c) ==
    /\ At(c, "newJob")
    /\ \E j \in Jobs :
          /\ job[j].state = "unused"
          /\ job' = [Without(request[c].job) EXCEPT ![j] =
                       [state |-> "live", pipeline |-> request[c].pipeline,
                        schedule |-> request[c].schedule, atStart |-> FALSE]]
          /\ request' = [request EXCEPT ![c].at = "storeSchedule", ![c].job = j]
    /\ UNCHANGED <<rows, memory, startup, history, restarts>>

(* SchedulePipelineRun: a new job, whatever jobs the pipeline has. *)
SchedulePipelineRun(c) ==
    /\ At(c, "newJob")
    /\ \E j \in Jobs :
          /\ NewJob(j, request[c].pipeline, request[c].schedule, FALSE)
          /\ request' = [request EXCEPT ![c].at = "storeSchedule", ![c].job = j]
    /\ UNCHANGED <<rows, memory, startup, history, restarts>>

(* NewJob refuses the cron expression: nothing is stored. *)
ScheduleRefused(c) ==
    /\ At(c, "newJob")
    /\ Answer(c)
    /\ UNCHANGED <<rows, memory, scheduler, startup, history, restarts>>

(* "update pipelines ... where pipeline_id": no row, no effect. *)
UpdatePipelineSchedule(c) ==
    LET p == request[c].pipeline IN
    /\ At(c, "storeSchedule")
    /\ \E ok \in StoreCall :
          IF ok /\ life[p] = "present"
          THEN /\ schedule' = [schedule EXCEPT ![p] = request[c].schedule]
               /\ jobOf' = [jobOf EXCEPT ![p] = request[c].job]
               /\ cleared' = cleared \ {p}
          ELSE UNCHANGED <<schedule, jobOf, cleared>>
    /\ Answer(c)
    /\ UNCHANGED <<life, memory, scheduler, startup, orphaned, killers,
                   restarts>>

-----------------------------------------------------------------------------
(* The process. *)

GoDown ==
    /\ phase' = "down" /\ todo' = {}
    /\ queues' = {} /\ workers' = {}
    /\ job' = [j \in Jobs |-> Without(j)[j]]
    /\ request' = [c \in Callers |-> Idle]
    /\ UNCHANGED <<rows, cleared, orphaned, restarts>>

Crash == /\ phase # "down" /\ restarts < MaxRestarts
         /\ GoDown /\ UNCHANGED killers

(* A job of SchedulePipelines goes on with the nil run of a failed insert, *)
(* as a deleted pipeline's always fails: EnqueueRun dereferences it, and   *)
(* nothing recovers the panic of a job.  A job of SchedulePipelineRun      *)
(* stops at the error.                                                     *)
JobKillsProcess(j) ==
    /\ Serving /\ job[j].state = "live" /\ job[j].atStart
    /\ life[job[j].pipeline] = "deleted" \/ StoreMayFail
    /\ killers' = IF life[job[j].pipeline] = "deleted"
                  THEN killers \cup {job[j].pipeline} ELSE killers
    /\ GoDown

(* InitializeRunQueues, and the list SchedulePipelines goes through. *)
InitializeRunQueues ==
    /\ phase = "down" /\ restarts < MaxRestarts
    /\ restarts' = restarts + 1
    /\ queues' = PresentPipelines /\ workers' = PresentPipelines
    /\ phase' = "scheduling" /\ todo' = ScheduledPipelines
    /\ UNCHANGED <<rows, scheduler, request, history>>

(* Mutant: a row whose update failed is scheduled again. *)
SchedulePipelineRetrying(p) ==
    /\ phase = "scheduling" /\ p \in todo
    /\ \E j \in Jobs, ok \in StoreCall :
          /\ NewJob(j, p, schedule[p], TRUE)
          /\ IF ok THEN jobOf' = [jobOf EXCEPT ![p] = j] /\ todo' = todo \ {p}
             ELSE UNCHANGED <<jobOf, todo>>
    /\ UNCHANGED <<life, schedule, memory, phase, request, history, restarts>>

(* One row of SchedulePipelines.  An error of the update is logged only.   *)
SchedulePipeline(p) ==
    /\ phase = "scheduling" /\ p \in todo
    /\ todo' = todo \ {p}
    /\ \E j \in Jobs, ok \in StoreCall :
          /\ NewJob(j, p, schedule[p], TRUE)
          /\ jobOf' = IF ok THEN [jobOf EXCEPT ![p] = j] ELSE jobOf
    /\ UNCHANGED <<life, schedule, memory, phase, request, history, restarts>>

(* scheduler.Start and the routes. *)
Serve ==
    /\ phase = "scheduling" /\ todo = {}
    /\ phase' = "serving"
    /\ UNCHANGED <<rows, memory, scheduler, todo, request, history, restarts>>

-----------------------------------------------------------------------------
Creating(c) == \/ \E p \in Pipelines : CreatePipeline(c, p)
               \/ AddRunQueue(c) \/ StartRunQueue(c)
Deleting(c) == \/ \E p \in Pipelines : ReadPipelineToDelete(c, p)
               \/ DeletePipeline(c) \/ RemoveRunQueue(c)
Scheduling(c) == \/ \E p \in Pipelines, s \in Schedules \cup {NoSchedule} :
                       ReadPipelineToSchedule(c, p, s)
                 \/ RemoveJob(c) \/ SchedulePipelineRun(c)
                 \/ ScheduleRefused(c) \/ UpdatePipelineSchedule(c)

Next == \/ \E c \in Callers : Creating(c) \/ Deleting(c) \/ Scheduling(c)
        \/ Crash \/ \E j \in Jobs : JobKillsProcess(j)
        \/ InitializeRunQueues
        \/ \E p \in Pipelines : SchedulePipeline(p)
        \/ Serve

Spec == Init /\ [][Next]_vars

-----------------------------------------------------------------------------
TypeOK ==
    /\ life \in [Pipelines -> {"unborn", "present", "deleted"}]
    /\ schedule \in [Pipelines -> Schedules \cup {NoSchedule}]
    /\ jobOf \in [Pipelines -> Jobs \cup {NoJob}]
    /\ queues \subseteq Pipelines /\ workers \subseteq Pipelines
    /\ job \in [Jobs -> JobRecord]
    /\ phase \in {"scheduling", "serving", "down"} /\ todo \subseteq Pipelines
    /\ request \in [Callers -> [at : Places,
                                pipeline : Pipelines \cup {NoPipeline},
                                schedule : Schedules \cup {NoSchedule},
                                job : Jobs \cup {NoJob}]]
    /\ cleared \subseteq Pipelines /\ orphaned \subseteq Pipelines
    /\ killers \subseteq Pipelines
    /\ restarts \in 0 .. MaxRestarts
    /\ \A p \in Pipelines : schedule[p] # NoSchedule => jobOf[p] # NoJob

(* Requests that work on p at one of the given statements. *)
Busy(p, places) == \E c \in Callers : /\ request[c].pipeline = p
                                      /\ request[c].at \in places

(* A pipeline whose row is there has a queue and a worker, except while    *)
(* its CreatePipeline is under way: no order of creations, deletions, store*)
(* errors and restarts leaves one whose runs would all be refused.         *)
PipelinesAreServed ==
    phase # "down" =>
        \A p \in PresentPipelines :
            ~Busy(p, {"addQueue", "startQueue"}) => p \in queues \cap workers

(* An entry of the map outlives its row only while a DeletePipeline or the *)
(* CreatePipeline is under way, or for good if the pipeline was deleted    *)
(* between the insert and AddRunQueue of CreatePipeline (lines 139-142).   *)
NoQueueOutlivesItsPipeline ==
    \A p \in queues \ PresentPipelines :
        Busy(p, {"addQueue", "removeQueue"}) \/ p \in orphaned

(* While requests are served, a row with a schedule has a job that runs    *)
(* this schedule: two concurrent forms, whichever stores last, and a store *)
(* error between job and row leave no scheduled pipeline without its job   *)
(* (UpdatePipelineSchedule).  The exception is a schedule that a form      *)
(* cleared: its job is removed, and the row keeps the schedule.            *)
ScheduledPipelineHasItsJob ==
    Serving =>
        \A p \in ScheduledPipelines :
            \/ \E j \in JobsOf(p) : job[j].schedule = schedule[p]
            \/ p \in cleared

(* A start brings the jobs back in line with the rows: when the process    *)
(* begins to serve, each scheduled row has one job, of its schedule, and   *)
(* there is no other, whatever was replaced or orphaned before.            *)
StartMatchesRows ==
    [][~Serving /\ Serving' =>
          \A p \in Pipelines :
              IF p \in ScheduledPipelines
              THEN \E j \in Jobs : JobsOf(p) = {j} /\ job[j].schedule = schedule[p]
              ELSE JobsOf(p) = {}]_vars

(* A deleted pipeline brings the process down at most once: its job is not *)
(* there after the restart, so the process does not crash in a loop.       *)
NoCrashLoop ==
    [][\A j \in Jobs :
          JobKillsProcess(j) => job[j].pipeline \notin killers]_vars

-----------------------------------------------------------------------------
(* What the documentation says and the code does not do. *)

(* internal/views/pages/pipelines.templ:196, "Empty schedule means no      *)
(* schedule.": a pipeline whose schedule was emptied has no job.           *)
EmptyScheduleMeansNoSchedule ==
    Serving => \A p \in cleared : JobsOf(p) = {}
=============================================================================
