---------------------------- MODULE RunLifecycle ----------------------------
(***************************************************************************)
(* What the run queue of one pipeline promises, whatever its goroutines,   *)
(* channels and store calls do: runs are accepted into a bounded FIFO, at  *)
(* most one of them is in the hands of the worker, only that one changes   *)
(* status, and it moves queued -> running -> verdict.  RunQueue is shown   *)
(* to implement this module.                                               *)
(***************************************************************************)
EXTENDS Naturals, Sequences

CONSTANTS Runs,       \* the rows the runs table may come to hold
          NoRun,      \* the worker holds no run
          QueueSize   \* capacity of the queue: config.json's queue_size

VARIABLES status,     \* the status column of each run; "none": no such row
          waiting,    \* the accepted runs, oldest first
          active,     \* the run the worker holds
          cancelled   \* the runs whose cancellation was requested in time

vars == <<status, waiting, active, cancelled>>

Verdicts == {"passed", "failed", "cancelled"}
Status == {"none", "queued", "running"} \cup Verdicts
Waiting == {waiting[i] : i \in 1 .. Len(waiting)}

Init == /\ status = [r \in Runs |-> "none"]
        /\ waiting = <<>>
        /\ active = NoRun
        /\ cancelled = {}

Create(r) == /\ status[r] = "none"
             /\ status' = [status EXCEPT ![r] = "queued"]
             /\ UNCHANGED <<waiting, active, cancelled>>

Accept(r) == /\ status[r] = "queued"
             /\ r \notin Waiting \cup {active}
             /\ Len(waiting) < QueueSize
             /\ waiting' = Append(waiting, r)
             /\ UNCHANGED <<status, active, cancelled>>

Begin == /\ active = NoRun
         /\ waiting # <<>>
         /\ active' = Head(waiting)
         /\ waiting' = Tail(waiting)
         /\ UNCHANGED <<status, cancelled>>

Start == /\ active \in Runs
         /\ status[active] = "queued"
         /\ status' = [status EXCEPT ![active] = "running"]
         /\ UNCHANGED <<waiting, active, cancelled>>

(* Only the held run can still be cancelled. *)
Cancel == /\ active \in Runs
          /\ cancelled' = cancelled \cup {active}
          /\ UNCHANGED <<status, waiting, active>>

(* A run can fail before it starts; it passes or is cancelled only after,  *)
(* and is cancelled only on request.                                       *)
Conclude(v) == /\ active \in Runs
               /\ \/ v = "failed" /\ status[active] \in {"queued", "running"}
                  \/ v = "passed" /\ status[active] = "running"
                  \/ /\ v = "cancelled" /\ status[active] = "running"
                     /\ active \in cancelled
               /\ status' = [status EXCEPT ![active] = v]
               /\ UNCHANGED <<waiting, active, cancelled>>

(* The one way back: the worker fails after it stored the pass. *)
Overturn == /\ active \in Runs
            /\ status[active] = "passed"
            /\ status' = [status EXCEPT ![active] = "failed"]
            /\ UNCHANGED <<waiting, active, cancelled>>

Release == /\ active \in Runs
           /\ active' = NoRun
           /\ UNCHANGED <<status, waiting, cancelled>>

(* The process goes down: what it held in memory is gone, the rows stay. *)
Abandon == /\ active' = NoRun
           /\ waiting' = <<>>
           /\ UNCHANGED <<status, cancelled>>

Next == \/ \E r \in Runs : Create(r) \/ Accept(r)
        \/ Begin \/ Start \/ Cancel
        \/ \E v \in Verdicts : Conclude(v)
        \/ Overturn \/ Release \/ Abandon

Spec == Init /\ [][Next]_vars

(* The two ends of the queue hold different runs, none of them twice, and  *)
(* a run the store does not know is in neither: no run is executed twice   *)
(* at once, none out of thin air (Enqueue, Run).                           *)
HeldOnce == /\ \A i, j \in 1 .. Len(waiting) :
                    waiting[i] = waiting[j] => i = j
            /\ active \notin Waiting
            /\ \A r \in Waiting : status[r] = "queued"
            /\ active \in Runs => status[active] # "none"
=============================================================================
