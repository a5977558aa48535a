----------------------------- MODULE MapReduce ------------------------------
(***************************************************************************)
(* MapReduce of lab 1: the coordinator (src/mr/coordinator.go), the        *)
(* workers (src/mr/worker.go) and the files between them.                  *)
(*                                                                         *)
(* Workers are processes that crash or are slow at any point; what they    *)
(* leave in files stays.  Every partition of a map task's output has some  *)
(* records, and the user's functions are deterministic, so a file is told  *)
(* apart only by whether the process that created it last got to its end.  *)
(***************************************************************************)
EXTENDS Naturals, FiniteSets

CONSTANTS
    Worker,
    NMap, NReduce,  \* as in Coordinator: input files and reduce tasks
    None,           \* a worker without a task
    MaxCrashes,     \* bound: worker processes that crash
    MaxSlow         \* bound: time-outs of tasks whose worker is still at it

\* mrcoordinator insists on an input file and asks for ten reduce tasks.
ASSUME SizeAssumption == NMap \in Nat \ {0} /\ NReduce \in Nat \ {0}
ASSUME BoundAssumption == MaxCrashes \in Nat /\ MaxSlow \in Nat

MapTask == {"map"} \X (0..NMap - 1)
ReduceTask == {"reduce"} \X (0..NReduce - 1)
Task == MapTask \cup ReduceTask

ASSUME WorkerAssumption ==
    /\ None \notin Task
    /\ Worker \cap {"absent", "incomplete", "complete"} = {}

VARIABLES
    phase, done,  \* as in Coordinator
    status,       \* Status of mapTasks and reduceTasks
    up,           \* the coordinator's process has not exited
    process,      \* each worker's process: "running", "stopped" or "crashed"
    job,          \* the task that the worker executes, or None
    at,           \* how many files doMap has written, or doReduce has read
    open,         \* the worker has a file open for writing
    kva,          \* doReduce: the map tasks whose records it has read
    inter,        \* mr-X-Y: "absent", "complete", or the worker that is writing it
    out,          \* mr-out-Y: likewise, or "incomplete"
    executed,     \* history: tasks that some worker executed to the end
    slow          \* history: how many tasks were taken from running workers

coordinatorVars == <<phase, done, status, up>>
workerVars == <<process, job, at, open, kva>>
fileVars == <<inter, out>>
vars == <<coordinatorVars, workerVars, fileVars, executed, slow>>

-----------------------------------------------------------------------------
(* The coordinator *)

With(tasks, s) == {t \in tasks : status[t] = s}

\* Faulty: the phase changes as soon as every task has been handed out.
OverTooEarly(tasks) == With(tasks, "idle") = {}

\* Neither idle nor under way.
Over(tasks) == With(tasks, "idle") = {} /\ With(tasks, "in_progress") = {}

findIdleTask(tasks) == CHOOSE t \in With(tasks, "idle") : \A u \in With(tasks, "idle") : t[2] <= u[2]

HandOut(w, t) ==
    /\ status' = [status EXCEPT ![t] = "in_progress"]
    /\ job' = [job EXCEPT ![w] = t]
    /\ at' = [at EXCEPT ![w] = 0]
    /\ kva' = [kva EXCEPT ![w] = {}]
    /\ UNCHANGED <<done, process>>

Asks(w) == up /\ process[w] = "running" /\ job[w] = None

GetMapTask(w) ==
    /\ Asks(w) /\ phase = "map"
    /\ With(MapTask, "idle") # {}
    /\ HandOut(w, findIdleTask(MapTask))
    /\ UNCHANGED <<phase, up, open, fileVars, executed, slow>>

\* The end of the map phase is noticed here.  A worker that is told to wait asks
\* again and leaves no trace.
GetReduceTask(w) ==
    /\ Asks(w) /\ (phase = "map" => Over(MapTask))
    /\ phase' = "reduce"
    /\ \/ With(ReduceTask, "idle") # {} /\ HandOut(w, findIdleTask(ReduceTask))
       \/ /\ Over(ReduceTask)
          /\ done' = TRUE
          /\ process' = [process EXCEPT ![w] = "stopped"]
          /\ UNCHANGED <<status, job, at, kva>>
    /\ UNCHANGED <<up, open, fileVars, executed, slow>>

\* The worker has executed its task.
AtEnd(w) ==
    /\ process[w] = "running" /\ job[w] # None
    /\ at[w] = IF job[w] \in MapTask THEN NReduce ELSE NMap + 1


\* Whether the coordinator takes the report for news.
Counts(t) == t[1] = phase /\ status[t] = "in_progress"

\* Faulty: as ReportTask, without a look at the type of the task.
ReportTaskOfPhase(w) ==
    /\ up /\ AtEnd(w)
    /\ status' = [status EXCEPT ![<<phase, job[w][2]>>] = "completed"]
    /\ job' = [job EXCEPT ![w] = None]
    /\ UNCHANGED <<phase, done, up, process, at, open, kva, fileVars, executed, slow>>

ReportTask(w) ==
    /\ up /\ AtEnd(w)
    /\ status' = IF Counts(job[w]) THEN [status EXCEPT ![job[w]] = "completed"] ELSE status
    /\ job' = [job EXCEPT ![w] = None]
    /\ UNCHANGED <<phase, done, up, process, at, open, kva, fileVars, executed, slow>>

\* A running worker is still at the task.
Held(t) == \E w \in Worker : process[w] = "running" /\ job[w] = t

UnderWay == {t \in With(Task, "in_progress") : t[1] = phase}

Abandoned == {t \in UnderWay : ~Held(t)}

\* Faulty: the tasks are reset to the zero value of TaskInfo.
ResetToZero(late) == [t \in Task |-> IF t \in late THEN "" ELSE status[t]]

\* Faulty: only map tasks are taken back.
ResetMaps(late) == [t \in Task |-> IF t \in late \cap MapTask THEN "idle" ELSE status[t]]

Reset(late) == [t \in Task |-> IF t \in late THEN "idle" ELSE status[t]]

\* The scan finds the tasks in late to be older than ten seconds.
checkTimeout(late) ==
    /\ up /\ late # {}
    /\ slow + Cardinality(late \ Abandoned) <= MaxSlow
    /\ slow' = slow + Cardinality(late \ Abandoned)
    /\ status' = Reset(late)
    /\ UNCHANGED <<phase, done, up, workerVars, fileVars, executed>>

\* mrcoordinator returns some time after Done().
Exit ==
    /\ up /\ done
    /\ up' = FALSE
    /\ UNCHANGED <<phase, done, status, workerVars, fileVars, executed, slow>>

-----------------------------------------------------------------------------
(* The workers *)

Executes(w, tasks) == process[w] = "running" /\ job[w] \in tasks

\* A writer that comes to its end has written every byte of the file, unless
\* another one has emptied the file since and is still writing.
Closed(file, w, good) ==
    IF file = w THEN IF good THEN "complete" ELSE "incomplete"
    ELSE IF good THEN file ELSE "incomplete"

Log(w) == executed' = executed \cup {job[w]}

\* doMap: os.Create empties the file.
CreateInter(w) ==
    /\ Executes(w, MapTask) /\ ~open[w] /\ at[w] < NReduce
    /\ inter' = [inter EXCEPT ![job[w][2]][at[w]] = w]
    /\ open' = [open EXCEPT ![w] = TRUE]
    /\ UNCHANGED <<coordinatorVars, process, job, at, kva, out, executed, slow>>

CloseInter(w) ==
    /\ Executes(w, MapTask) /\ open[w]
    /\ inter' = [inter EXCEPT ![job[w][2]][at[w]] = Closed(@, w, TRUE)]
    /\ open' = [open EXCEPT ![w] = FALSE]
    /\ at' = [at EXCEPT ![w] = @ + 1]
    /\ IF at[w] + 1 = NReduce THEN Log(w) ELSE UNCHANGED executed
    /\ UNCHANGED <<coordinatorVars, process, job, kva, out, slow>>

\* doReduce reads what there is: a file that is absent or ends early is no error.
ReadInter(w) ==
    /\ Executes(w, ReduceTask) /\ at[w] < NMap
    /\ kva' = [kva EXCEPT ![w] =
            IF inter[at[w]][job[w][2]] = "complete" THEN @ \cup {at[w]} ELSE @]
    /\ at' = [at EXCEPT ![w] = @ + 1]
    /\ UNCHANGED <<coordinatorVars, process, job, open, fileVars, executed, slow>>

CreateOut(w) ==
    /\ Executes(w, ReduceTask) /\ ~open[w] /\ at[w] = NMap
    /\ out' = [out EXCEPT ![job[w][2]] = w]
    /\ open' = [open EXCEPT ![w] = TRUE]
    /\ UNCHANGED <<coordinatorVars, process, job, at, kva, inter, executed, slow>>

CloseOut(w) ==
    /\ Executes(w, ReduceTask) /\ open[w]
    /\ out' = [out EXCEPT ![job[w][2]] = Closed(@, w, kva[w] = 0..NMap - 1)]
    /\ open' = [open EXCEPT ![w] = FALSE]
    /\ at' = [at EXCEPT ![w] = @ + 1]
    /\ Log(w)
    /\ UNCHANGED <<coordinatorVars, process, job, kva, inter, slow>>

\* call cannot reach the coordinator any more: log.Fatal.
DialFails(w) ==
    /\ ~up /\ process[w] = "running" /\ (job[w] = None \/ AtEnd(w))
    /\ process' = [process EXCEPT ![w] = "stopped"]
    /\ UNCHANGED <<coordinatorVars, job, at, open, kva, fileVars, executed, slow>>

Crash(w) ==
    /\ process[w] = "running"
    /\ Cardinality({v \in Worker : process[v] = "crashed"}) < MaxCrashes
    /\ process' = [process EXCEPT ![w] = "crashed"]
    /\ UNCHANGED <<coordinatorVars, job, at, open, kva, fileVars, executed, slow>>

-----------------------------------------------------------------------------

Init ==
    /\ phase = "map" /\ done = FALSE /\ up = TRUE
    /\ status = [t \in Task |-> "idle"]
    /\ process = [w \in Worker |-> "running"]
    /\ job = [w \in Worker |-> None]
    /\ at = [w \in Worker |-> 0]
    /\ open = [w \in Worker |-> FALSE]
    /\ kva = [w \in Worker |-> {}]
    /\ inter = [i \in 0..NMap - 1 |-> [r \in 0..NReduce - 1 |-> "absent"]]
    /\ out = [r \in 0..NReduce - 1 |-> "absent"]
    /\ executed = {} /\ slow = 0

Work(w) ==
    \/ GetMapTask(w) \/ GetReduceTask(w) \/ ReportTask(w)
    \/ CreateInter(w) \/ CloseInter(w) \/ ReadInter(w) \/ CreateOut(w) \/ CloseOut(w)
    \/ DialFails(w)

Next ==
    \/ \E w \in Worker : Work(w) \/ Crash(w)
    \/ \E late \in SUBSET UnderWay : checkTimeout(late)
    \/ Exit

Spec == Init /\ [][Next]_vars

\* Running workers go on, and the scan that runs every second finds a task that
\* nobody executes any more once its ten seconds are over.
Fairness ==
    /\ \A w \in Worker : WF_vars(Work(w))
    /\ WF_vars(\E late \in SUBSET Abandoned : checkTimeout(late))
    /\ WF_vars(Exit)

FairSpec == Spec /\ Fairness

-----------------------------------------------------------------------------
(* Properties *)

\* Every variable keeps its type.
TypeOK ==
    /\ phase \in {"map", "reduce"} /\ done \in BOOLEAN /\ up \in BOOLEAN
    /\ status \in [Task -> {"idle", "in_progress", "completed"}]
    /\ process \in [Worker -> {"running", "stopped", "crashed"}]
    /\ job \in [Worker -> Task \cup {None}]
    /\ at \in [Worker -> Nat] /\ open \in [Worker -> BOOLEAN]
    /\ kva \in [Worker -> SUBSET (0..NMap - 1)]
    /\ inter \in [0..NMap - 1 -> [0..NReduce - 1 -> Worker \cup {"absent", "complete"}]]
    /\ out \in [0..NReduce - 1 -> Worker \cup {"absent", "incomplete", "complete"}]
    /\ executed \subseteq Task /\ slow \in Nat

\* No reduce task starts before every map task has been executed to the end by
\* some worker, and the job is done only when that holds for the reduce tasks,
\* whatever reports come late or twice.
PhasesInOrder ==
    /\ phase = "reduce" => MapTask \subseteq executed
    /\ done => ReduceTask \subseteq executed

\* If the coordinator takes tasks only from workers that crashed, then crashes
\* between any two writes leave no trace in the output of the job.
CrashesAreHarmless == done /\ slow = 0 => \A r \in 0..NReduce - 1 : out[r] = "complete"

\* Executing a task twice does no harm: the output of the job is complete.
OutputIsComplete == done => \A r \in 0..NReduce - 1 : out[r] = "complete"

\* The job comes to an end, and so does every worker.
JobEnds == <>(done /\ \A w \in Worker : process[w] # "running")
=============================================================================
