-------------------------- MODULE MapReduceProofs ---------------------------
(***************************************************************************)
(* Theorems about MapReduce, for every number of workers, map tasks and    *)
(* reduce tasks, every bound on crashes and slow workers and every input.  *)
(***************************************************************************)
EXTENDS MapReduceData, FiniteSetTheorems, TLAPS

-----------------------------------------------------------------------------
(* The inductive invariant *)

\* How far a worker is with its task, and that a task it has come to the end of
\* counts as executed.
Executing ==
    \A w \in Worker :
        /\ job[w] = None => ~open[w]
        /\ job[w] \in MapTask =>
            /\ at[w] <= NReduce /\ (open[w] => at[w] < NReduce)
            /\ at[w] = NReduce => job[w] \in executed
        /\ job[w] \in ReduceTask =>
            /\ at[w] <= NMap + 1 /\ (open[w] => at[w] = NMap) /\ phase = "reduce"
            /\ at[w] = NMap + 1 => job[w] \in executed

\* What the phase says about the tasks.
Phases ==
    /\ \A t \in Task : status[t] = "completed" => t \in executed
    /\ phase = "reduce" => \A t \in MapTask : status[t] = "completed"
    /\ done => phase = "reduce" /\ \A t \in ReduceTask : status[t] = "completed"

\* As long as tasks are taken from crashed workers only, each has one executor.
Holders ==
    slow = 0 =>
        \A w \in Worker : process[w] = "running" /\ job[w] # None =>
            /\ status[job[w]] = "in_progress"
            /\ \A v \in Worker : process[v] = "running" /\ job[v] = job[w] => v = w

\* What is in the files then.
Files ==
    slow = 0 =>
        /\ \A t \in MapTask : status[t] = "completed" =>
            \A r \in 0..NReduce - 1 : inter[t[2]][r] = "complete"
        /\ \A t \in ReduceTask : status[t] = "completed" => out[t[2]] = "complete"
        /\ \A w \in Worker : process[w] = "running" /\ job[w] \in MapTask =>
            /\ \A r \in 0..NReduce - 1 : r < at[w] => inter[job[w][2]][r] = "complete"
            /\ open[w] => inter[job[w][2]][at[w]] = w
        /\ \A w \in Worker : process[w] = "running" /\ job[w] \in ReduceTask =>
            /\ kva[w] = {i \in 0..NMap - 1 : i < at[w]}
            /\ open[w] => out[job[w][2]] = w
            /\ at[w] = NMap + 1 => out[job[w][2]] = "complete"

MRInv == TypeOK /\ Executing /\ Phases /\ Holders /\ Files

-----------------------------------------------------------------------------
(* Tasks *)

\* A task is known by its list and its number.
LEMMA TaskParts ==
    /\ \A t \in MapTask : t \in Task /\ t[1] = "map" /\ t[2] \in 0..NMap - 1
    /\ \A t \in ReduceTask : t \in Task /\ t[1] = "reduce" /\ t[2] \in 0..NReduce - 1
    /\ \A t, u \in MapTask : t[2] = u[2] => t = u
    /\ \A t, u \in ReduceTask : t[2] = u[2] => t = u
    /\ \A t \in Task : t \in MapTask \/ t \in ReduceTask
    /\ \A t \in MapTask : t \notin ReduceTask
    /\ \A r \in 0..NReduce - 1 : <<"reduce", r>> \in ReduceTask /\ <<"reduce", r>>[2] = r
    /\ None \notin MapTask /\ None \notin ReduceTask
  BY WorkerAssumption DEF Task, MapTask, ReduceTask

\* There are finitely many tasks.
LEMMA TaskFinite == IsFiniteSet(Task)
<1>1. \A n \in Nat : IsFiniteSet(0..n - 1)
  BY FS_Interval
<1>2. NMap \in Nat /\ NReduce \in Nat
  BY SizeAssumption
<1>3. IsFiniteSet({"map"}) /\ IsFiniteSet({"reduce"})
  BY FS_Singleton
<1>4. IsFiniteSet(MapTask) /\ IsFiniteSet(ReduceTask)
  BY <1>1, <1>2, <1>3, FS_Product DEF MapTask, ReduceTask
<1> QED
  BY <1>4, FS_Union DEF Task

\* A set of natural numbers has a least element.
LEMMA LeastNumber ==
    ASSUME NEW S \in SUBSET Nat, S # {}
    PROVE  \E x \in S : \A y \in S : x =< y
<1> DEFINE R == OpToRel(<, Nat)
<1>1. IsWellFoundedOn(R, Nat) /\ \A x, y \in Nat : y < x => <<y, x>> \in R
  BY NatLessThanWellFounded, Zenon DEF OpToRel
<1> HIDE DEF R
<1>2. \E x \in S : \A y \in S : ~ (<<y, x>> \in R)
  BY <1>1, WFMin
<1>3. \E x \in S : \A y \in S : ~ (y < x)
  BY <1>1, <1>2, Zenon
<1> QED
  BY <1>3

\* findIdleTask finds an idle task of the list if there is one.
LEMMA IdleTask ==
    ASSUME NEW tasks \in {MapTask, ReduceTask}, With(tasks, "idle") # {}
    PROVE  findIdleTask(tasks) \in tasks /\ status[findIdleTask(tasks)] = "idle"
<1> DEFINE S == {t[2] : t \in With(tasks, "idle")}
<1>1. \A t \in tasks : t[2] \in Nat
  BY TaskParts, SizeAssumption
<1>2. S \in SUBSET Nat /\ S # {}
  BY <1>1 DEF With
<1>3. PICK x \in S : \A y \in S : x =< y
  BY <1>2, LeastNumber
<1>4. \E t \in With(tasks, "idle") : \A u \in With(tasks, "idle") : t[2] <= u[2]
  BY <1>3
<1>5. findIdleTask(tasks) \in With(tasks, "idle")
  BY <1>4 DEF findIdleTask
<1> QED
  BY <1>5 DEF With

\* The initial state satisfies the invariant.
LEMMA MRInit == Init => MRInv
<1> SUFFICES ASSUME Init PROVE MRInv
  OBVIOUS
<1>1. TypeOK
  BY DEF Init, TypeOK
<1> QED
  BY <1>1, TaskParts DEF Init, MRInv, Executing, Phases, Holders, Files

-----------------------------------------------------------------------------
(* The coordinator *)

\* Handing out an idle task: nobody else is at it.
LEMMA MRHandOut ==
    ASSUME MRInv, NEW w \in Worker, NEW t \in Task, Asks(w), status[t] = "idle", HandOut(w, t),
           phase' \in {"map", "reduce"}, t \in ReduceTask => phase' = "reduce",
           phase' = "reduce" => t \in ReduceTask /\ \A u \in MapTask : status[u] = "completed",
           UNCHANGED <<up, open, fileVars, executed, slow>>
    PROVE  MRInv'
<1>1. /\ status' = [status EXCEPT ![t] = "in_progress"] /\ job' = [job EXCEPT ![w] = t]
      /\ at' = [at EXCEPT ![w] = 0] /\ kva' = [kva EXCEPT ![w] = {}]
      /\ UNCHANGED <<done, process, up, open, inter, out, executed, slow>>
      /\ process[w] = "running" /\ job[w] = None
  BY DEF HandOut, Asks, fileVars
<1>2. TypeOK'
  BY <1>1 DEF MRInv, TypeOK
<1>3. /\ \A v \in Worker \ {w} : job'[v] = job[v] /\ at'[v] = at[v] /\ kva'[v] = kva[v]
      /\ job'[w] = t /\ at'[w] = 0 /\ kva'[w] = {} /\ open[w] = FALSE
  BY <1>1 DEF MRInv, TypeOK, Executing
<1>4. /\ \A u \in Task \ {t} : status'[u] = status[u]
      /\ status'[t] = "in_progress"
  BY <1>1 DEF MRInv, TypeOK
<1>5. NMap > 0 /\ NReduce > 0 /\ NMap + 1 > 0 /\ 0 \notin {NReduce, NMap + 1}
  BY SizeAssumption
<1>6. ~done
  BY TaskParts DEF MRInv, Phases
<1>7. Executing'
  <2>1. phase = "reduce" => phase' = "reduce"
    BY <1>1, TaskParts DEF MRInv, Phases, TypeOK
  <2> SUFFICES ASSUME NEW v \in Worker
               PROVE  /\ job'[v] = None => ~open[v]
                      /\ job'[v] \in MapTask =>
                          /\ at'[v] <= NReduce /\ (open[v] => at'[v] < NReduce)
                          /\ at'[v] = NReduce => job'[v] \in executed
                      /\ job'[v] \in ReduceTask =>
                          /\ at'[v] <= NMap + 1 /\ (open[v] => at'[v] = NMap) /\ phase' = "reduce"
                          /\ at'[v] = NMap + 1 => job'[v] \in executed
    BY <1>1 DEF Executing
  <2>2. CASE v = w
    BY <1>3, <1>5, <2>2, SizeAssumption
  <2>3. CASE v # w
    BY <1>3, <2>1, <2>3 DEF MRInv, Executing
  <2> QED
    BY <2>2, <2>3
<1>8. Phases'
  BY <1>1, <1>4, <1>6, TaskParts DEF MRInv, Phases
<1>9. Holders'
  <2>1. slow = 0 => \A v \in Worker : process[v] = "running" /\ job[v] # None =>
                      job[v] # t /\ job[v] \in Task
    BY DEF MRInv, Holders, TypeOK
  <2> QED
    BY <1>1, <1>3, <1>4, <2>1 DEF MRInv, Holders
<1>10. Files'
  <2> SUFFICES ASSUME slow = 0 PROVE Files'
    BY <1>1 DEF Files
  <2>1. \A u \in Task : status'[u] = "completed" => status[u] = "completed"
    BY <1>4
  <2>2. {i \in 0..NMap - 1 : i < 0} = {}
    BY SizeAssumption
  <2> QED
    BY <1>1, <1>3, <1>5, <2>1, <2>2, TaskParts, SizeAssumption DEF MRInv, Files
<1> QED
  BY <1>2, <1>7, <1>8, <1>9, <1>10 DEF MRInv

\* GetTask, in the map phase and after.
LEMMA MRGetTask ==
    ASSUME MRInv, NEW w \in Worker, GetMapTask(w) \/ GetReduceTask(w)
    PROVE  MRInv'
<1>1. CASE GetMapTask(w)
  <2> DEFINE t == findIdleTask(MapTask)
  <2>1. t \in MapTask /\ status[t] = "idle"
    BY <1>1, IdleTask DEF GetMapTask
  <2>2. HandOut(w, t) /\ Asks(w) /\ phase' = "map"
        /\ UNCHANGED <<up, open, fileVars, executed, slow>>
    BY <1>1 DEF GetMapTask
  <2> HIDE DEF t
  <2> QED
    BY <2>1, <2>2, MRHandOut, TaskParts
<1>2. ASSUME GetReduceTask(w) PROVE \A u \in MapTask : status[u] = "completed"
  <2>1. CASE phase = "map"
    BY <1>2, <2>1, TaskParts DEF GetReduceTask, Over, With, MRInv, TypeOK
  <2>2. CASE phase # "map"
    BY <2>2 DEF MRInv, TypeOK, Phases
  <2> QED
    BY <2>1, <2>2
<1>3. CASE GetReduceTask(w) /\ ~Over(ReduceTask)
  <2> DEFINE t == findIdleTask(ReduceTask)
  <2>0. /\ With(ReduceTask, "idle") # {} /\ HandOut(w, t) /\ Asks(w) /\ phase' = "reduce"
        /\ UNCHANGED <<up, open, fileVars, executed, slow>>
    BY <1>3 DEF GetReduceTask
  <2>1. t \in ReduceTask /\ status[t] = "idle"
    BY <2>0, IdleTask
  <2> HIDE DEF t
  <2> QED
    BY <1>2, <1>3, <2>0, <2>1, MRHandOut, TaskParts
<1>4. CASE GetReduceTask(w) /\ Over(ReduceTask)
  <2>1. /\ phase' = "reduce" /\ done' = TRUE /\ process' = [process EXCEPT ![w] = "stopped"]
        /\ UNCHANGED <<status, job, at, kva, up, open, inter, out, executed, slow>>
    BY <1>4 DEF GetReduceTask, Over, fileVars
  <2>2. \A u \in ReduceTask : status[u] = "completed"
    BY <1>4, TaskParts DEF Over, With, MRInv, TypeOK
  <2>3. \A u \in MapTask : status[u] = "completed"
    BY <1>2, <1>4
  <2>4. \A v \in Worker : process'[v] = "running" => process[v] = "running"
    BY <2>1 DEF MRInv, TypeOK
  <2>5. TypeOK'
    BY <2>1 DEF MRInv, TypeOK
  <2>6. Executing' /\ Phases'
    BY <2>1, <2>2, <2>3 DEF MRInv, Executing, Phases
  <2>7. Holders'
    BY <2>1, <2>4 DEF MRInv, Holders
  <2>8. Files'
    BY <2>1, <2>4 DEF MRInv, Files
  <2> QED
    BY <2>5, <2>6, <2>7, <2>8 DEF MRInv
<1> QED
  BY <1>1, <1>3, <1>4

\* ReportTask: the worker has executed the task that it reports.
LEMMA MRReportTask ==
    ASSUME MRInv, NEW w \in Worker, ReportTask(w)
    PROVE  MRInv'
<1> DEFINE t == job[w]
<1>1. /\ status' = IF Counts(t) THEN [status EXCEPT ![t] = "completed"] ELSE status
      /\ job' = [job EXCEPT ![w] = None]
      /\ UNCHANGED <<phase, done, up, process, at, open, kva, inter, out, executed, slow>>
      /\ AtEnd(w)
  BY DEF ReportTask, fileVars
<1>2. /\ t \in Task /\ process[w] = "running"
      /\ at[w] = IF t \in MapTask THEN NReduce ELSE NMap + 1
  BY <1>1 DEF AtEnd, MRInv, TypeOK
<1>3. t \in executed /\ ~open[w]
  <2>1. NReduce \in Nat /\ NMap \in Nat /\ ~(NReduce < NReduce) /\ NMap + 1 # NMap
    BY SizeAssumption
  <2> QED
    BY <1>2, <2>1, TaskParts DEF MRInv, Executing
<1>4. /\ \A v \in Worker \ {w} : job'[v] = job[v]
      /\ job'[w] = None
  BY <1>1 DEF MRInv, TypeOK
<1>5. \A u \in Task : status'[u] = IF Counts(t) /\ u = t THEN "completed" ELSE status[u]
  BY <1>1 DEF MRInv, TypeOK
<1>6. TypeOK'
  BY <1>1, <1>2 DEF MRInv, TypeOK
<1>7. Executing'
  BY <1>1, <1>3, <1>4, TaskParts DEF MRInv, Executing
<1>8. Phases'
  BY <1>1, <1>3, <1>5, TaskParts DEF MRInv, Phases
<1>9. Holders'
  <2> SUFFICES ASSUME slow = 0 PROVE Holders'
    BY <1>1 DEF Holders
  <2>1. \A v \in Worker \ {w} : process[v] = "running" /\ job[v] # None => job[v] # t /\ job[v] \in Task
    BY <1>2 DEF MRInv, Holders, TypeOK
  <2> QED
    BY <1>1, <1>4, <1>5, <2>1 DEF MRInv, Holders
<1>10. Files'
  <2> SUFFICES ASSUME slow = 0 PROVE Files'
    BY <1>1 DEF Files
  <2>1. t \in MapTask => \A r \in 0..NReduce - 1 : inter[t[2]][r] = "complete"
    BY <1>2, SizeAssumption DEF MRInv, Files
  <2>2. t \in ReduceTask => out[t[2]] = "complete"
    BY <1>2, TaskParts DEF MRInv, Files
  <2>3. /\ \A u \in MapTask : status'[u] = "completed" =>
              \A r \in 0..NReduce - 1 : inter[u[2]][r] = "complete"
        /\ \A u \in ReduceTask : status'[u] = "completed" => out[u[2]] = "complete"
    BY <1>5, <2>1, <2>2, TaskParts DEF MRInv, Files
  <2> QED
    BY <1>1, <1>4, <2>3, TaskParts DEF MRInv, Files
<1> QED
  BY <1>6, <1>7, <1>8, <1>9, <1>10 DEF MRInv

\* checkTimeout takes tasks back; without slow workers nobody executes them.
LEMMA MRTimeout ==
    ASSUME MRInv, NEW late \in SUBSET UnderWay, checkTimeout(late)
    PROVE  MRInv'
<1>1. /\ status' = Reset(late) /\ slow' = slow + Cardinality(late \ Abandoned)
      /\ UNCHANGED <<phase, done, up, process, job, at, open, kva, inter, out, executed>>
  BY DEF checkTimeout, workerVars, fileVars
<1>2. \A t \in late : t \in Task /\ status[t] = "in_progress"
  BY DEF UnderWay, With
<1>3. IsFiniteSet(late \ Abandoned)
  BY <1>2, TaskFinite, FS_Subset
<1>4. Cardinality(late \ Abandoned) \in Nat /\ slow \in Nat
  BY <1>3, FS_CardinalityType DEF MRInv, TypeOK
<1>5. slow' \in Nat /\ (slow' = 0 => slow = 0 /\ Cardinality(late \ Abandoned) = 0)
  BY <1>1, <1>4
<1>6. slow' = 0 => late \subseteq Abandoned
  BY <1>3, <1>5, FS_EmptySet
<1>7. \A t \in Task : status'[t] = IF t \in late THEN "idle" ELSE status[t]
  BY <1>1 DEF Reset
<1>8. TypeOK'
  <2>1. status' \in [Task -> {"idle", "in_progress", "completed"}]
    BY <1>1 DEF Reset, MRInv, TypeOK
  <2> QED
    BY <1>1, <1>5, <2>1 DEF MRInv, TypeOK
<1>9. Executing'
  BY <1>1 DEF MRInv, Executing
<1>10. Phases'
  BY <1>1, <1>2, <1>7, TaskParts DEF MRInv, Phases
<1>11. Holders'
  <2> SUFFICES ASSUME slow' = 0, NEW w \in Worker, process[w] = "running", job[w] # None
               PROVE  /\ status'[job[w]] = "in_progress"
                      /\ \A v \in Worker : process[v] = "running" /\ job[v] = job[w] => v = w
    BY <1>1 DEF Holders
  <2>1. job[w] \notin late
    BY <1>6 DEF Abandoned, Held
  <2>2. job[w] \in Task
    BY DEF MRInv, TypeOK
  <2> QED
    BY <1>5, <1>7, <2>1, <2>2 DEF MRInv, Holders
<1>12. Files'
  <2>1. \A t \in Task : status'[t] = "completed" => status[t] = "completed"
    BY <1>7
  <2> QED
    BY <1>1, <1>5, <2>1, TaskParts DEF MRInv, Files
<1> QED
  BY <1>8, <1>9, <1>10, <1>11, <1>12 DEF MRInv

\* The coordinator exits, or a worker's process ends.
LEMMA MRProcessEnds ==
    ASSUME MRInv,
           Exit \/ (\E w \in Worker : DialFails(w) \/ Crash(w)) \/ UNCHANGED vars
    PROVE  MRInv'
<1>1. /\ UNCHANGED <<phase, done, status, job, at, open, kva, inter, out, executed, slow>>
      /\ up' \in {up, FALSE}
  BY DEF Exit, DialFails, Crash, vars, coordinatorVars, workerVars, fileVars
<1>2. /\ process' \in [Worker -> {"running", "stopped", "crashed"}]
      /\ \A v \in Worker : process'[v] = "running" => process[v] = "running"
  BY DEF Exit, DialFails, Crash, vars, workerVars, MRInv, TypeOK
<1>3. TypeOK'
  BY <1>1, <1>2 DEF MRInv, TypeOK
<1>4. Executing' /\ Phases'
  BY <1>1 DEF MRInv, Executing, Phases
<1>5. Holders'
  BY <1>1, <1>2 DEF MRInv, Holders
<1>6. Files'
  BY <1>1, <1>2 DEF MRInv, Files
<1> QED
  BY <1>3, <1>4, <1>5, <1>6 DEF MRInv

-----------------------------------------------------------------------------
(* The workers *)

\* What holds of a worker that executes a task, and of the others.
LEMMA Executor ==
    ASSUME MRInv, NEW w \in Worker, NEW tasks \in {MapTask, ReduceTask}, Executes(w, tasks)
    PROVE  /\ process[w] = "running" /\ job[w] \in tasks /\ job[w] \in Task /\ job[w] # None
           /\ at[w] \in Nat
           /\ slow = 0 =>
                /\ status[job[w]] = "in_progress"
                /\ \A v \in Worker \ {w} : process[v] = "running" => job[v] # job[w]
  BY TaskParts DEF Executes, MRInv, TypeOK, Holders

\* doMap creates a file.
LEMMA MRCreateInter ==
    ASSUME MRInv, NEW w \in Worker, CreateInter(w)
    PROVE  MRInv'
<1> DEFINE t == job[w]
           i == job[w][2]
           n == at[w]
<1>1. /\ inter' = [inter EXCEPT ![i][n] = w] /\ open' = [open EXCEPT ![w] = TRUE]
      /\ UNCHANGED <<phase, done, status, up, process, job, at, kva, out, executed, slow>>
      /\ Executes(w, MapTask) /\ n < NReduce
  BY DEF CreateInter, coordinatorVars
<1>2. /\ process[w] = "running" /\ t \in MapTask /\ t \in Task /\ t # None /\ n \in Nat
      /\ slow = 0 =>
           /\ status[t] = "in_progress"
           /\ \A v \in Worker \ {w} : process[v] = "running" => job[v] # t
  BY <1>1, Executor
<1>3. i \in 0..NMap - 1 /\ n \in 0..NReduce - 1 /\ n # NReduce
  BY <1>1, <1>2, TaskParts, SizeAssumption
<1>4. /\ \A j \in 0..NMap - 1, r \in 0..NReduce - 1 :
           inter'[j][r] = IF j = i /\ r = n THEN w ELSE inter[j][r]
      /\ \A v \in Worker : open'[v] = (open[v] \/ v = w)
  BY <1>1, <1>3 DEF MRInv, TypeOK
<1>5. TypeOK'
  <2>1. inter' \in [0..NMap - 1 -> [0..NReduce - 1 -> Worker \cup {"absent", "complete"}]]
    BY <1>1, <1>3 DEF MRInv, TypeOK
  <2> QED
    BY <1>1, <2>1 DEF MRInv, TypeOK
<1>6. Executing'
  BY <1>1, <1>2, <1>4, TaskParts DEF MRInv, Executing
<1>7. Phases'
  BY <1>1 DEF MRInv, Phases
<1>8. Holders'
  BY <1>1 DEF MRInv, Holders
<1>9. Files'
  <2> SUFFICES ASSUME slow = 0 PROVE Files'
    BY <1>1 DEF Files
  <2>1. \A u \in MapTask : status[u] = "completed" =>
          \A r \in 0..NReduce - 1 : inter'[u[2]][r] = "complete"
    <3>1. \A u \in MapTask : status[u] = "completed" => u[2] # i /\ u[2] \in 0..NMap - 1
      BY <1>2, TaskParts
    <3> QED
      BY <1>4, <3>1 DEF MRInv, Files
  <2>2. ASSUME NEW v \in Worker, process[v] = "running", job[v] \in MapTask
        PROVE  /\ \A r \in 0..NReduce - 1 : r < at[v] => inter'[job[v][2]][r] = "complete"
               /\ open'[v] => inter'[job[v][2]][at[v]] = v
    <3>1. job[v][2] \in 0..NMap - 1
      BY <2>2, TaskParts
    <3>2. /\ \A r \in 0..NReduce - 1 : r < at[v] => inter[job[v][2]][r] = "complete"
          /\ open[v] => inter[job[v][2]][at[v]] = v
      BY <2>2 DEF MRInv, Files
    <3>3. CASE v = w
      <4>1. \A r \in 0..NReduce - 1 : r < n => r # n
        BY <1>2
      <4> QED
        BY <1>3, <1>4, <3>2, <3>3, <4>1
    <3>4. CASE v # w
      <4>1. job[v][2] # i
        BY <1>2, <2>2, <3>4, TaskParts
      <4>2. open[v] => at[v] \in 0..NReduce - 1
        BY <2>2, SizeAssumption DEF MRInv, Executing, TypeOK
      <4>3. \A r \in 0..NReduce - 1 : inter'[job[v][2]][r] = inter[job[v][2]][r]
        BY <1>4, <3>1, <4>1
      <4>4. open'[v] => open[v]
        BY <1>4, <3>4
      <4> QED
        BY <3>2, <4>2, <4>3, <4>4
    <3> QED
      BY <3>3, <3>4
  <2>3. ASSUME NEW v \in Worker, process[v] = "running", job[v] \in ReduceTask
        PROVE  /\ kva[v] = {j \in 0..NMap - 1 : j < at[v]}
               /\ open'[v] => out[job[v][2]] = v
               /\ at[v] = NMap + 1 => out[job[v][2]] = "complete"
    BY <1>2, <1>4, <2>3, TaskParts DEF MRInv, Files
  <2>4. \A u \in ReduceTask : status[u] = "completed" => out[u[2]] = "complete"
    BY DEF MRInv, Files
  <2> QED
    BY <1>1, <2>1, <2>2, <2>3, <2>4 DEF Files
<1> QED
  BY <1>5, <1>6, <1>7, <1>8, <1>9 DEF MRInv

\* doMap closes a file, and perhaps comes to its end.
LEMMA MRCloseInter ==
    ASSUME MRInv, NEW w \in Worker, CloseInter(w)
    PROVE  MRInv'
<1> DEFINE t == job[w]
           i == job[w][2]
           n == at[w]
           c == Closed(inter[i][n], w, TRUE)
<1>1. /\ inter' = [inter EXCEPT ![i][n] = c] /\ open' = [open EXCEPT ![w] = FALSE]
      /\ at' = [at EXCEPT ![w] = n + 1]
      /\ executed' = IF n + 1 = NReduce THEN executed \cup {t} ELSE executed
      /\ UNCHANGED <<phase, done, status, up, process, job, kva, out, slow>>
      /\ Executes(w, MapTask) /\ open[w]
  BY DEF CloseInter, coordinatorVars, Log
<1>2. /\ process[w] = "running" /\ t \in MapTask /\ t \in Task /\ t # None /\ n \in Nat
      /\ slow = 0 =>
           /\ status[t] = "in_progress"
           /\ \A v \in Worker \ {w} : process[v] = "running" => job[v] # t
  BY <1>1, Executor
<1>3. i \in 0..NMap - 1 /\ n \in 0..NReduce - 1 /\ n + 1 \in Nat /\ n + 1 <= NReduce
  <2>1. n < NReduce
    BY <1>1, <1>2 DEF MRInv, Executing
  <2> QED
    BY <1>2, <2>1, TaskParts, SizeAssumption
<1>4. /\ inter[i][n] \in Worker \cup {"absent", "complete"}
      /\ c = IF inter[i][n] = w THEN "complete" ELSE inter[i][n]
  <2>1. inter[i] \in [0..NReduce - 1 -> Worker \cup {"absent", "complete"}]
    BY <1>3 DEF MRInv, TypeOK
  <2>2. inter[i][n] \in Worker \cup {"absent", "complete"}
    BY <1>3, <2>1
  <2> QED
    BY <2>2 DEF Closed
<1> HIDE DEF c
<1>5. /\ \A j \in 0..NMap - 1, r \in 0..NReduce - 1 :
           inter'[j][r] = IF j = i /\ r = n THEN c ELSE inter[j][r]
      /\ \A v \in Worker \ {w} : open'[v] = open[v] /\ at'[v] = at[v]
      /\ open'[w] = FALSE /\ at'[w] = n + 1
  BY <1>1, <1>3 DEF MRInv, TypeOK
<1>6. TypeOK'
  <2>1. inter' \in [0..NMap - 1 -> [0..NReduce - 1 -> Worker \cup {"absent", "complete"}]]
    BY <1>1, <1>3, <1>4 DEF MRInv, TypeOK
  <2>2. executed' \subseteq Task
    BY <1>1, <1>2 DEF MRInv, TypeOK
  <2> QED
    BY <1>1, <1>3, <2>1, <2>2 DEF MRInv, TypeOK
<1>7. executed \subseteq executed' /\ (n + 1 = NReduce => t \in executed')
  BY <1>1
<1>8. Executing'
  <2> SUFFICES ASSUME NEW v \in Worker
               PROVE  /\ job[v] = None => ~open'[v]
                      /\ job[v] \in MapTask =>
                          /\ at'[v] <= NReduce /\ (open'[v] => at'[v] < NReduce)
                          /\ at'[v] = NReduce => job[v] \in executed'
                      /\ job[v] \in ReduceTask =>
                          /\ at'[v] <= NMap + 1 /\ (open'[v] => at'[v] = NMap) /\ phase = "reduce"
                          /\ at'[v] = NMap + 1 => job[v] \in executed'
    BY <1>1 DEF Executing
  <2>1. CASE v = w
    BY <1>2, <1>3, <1>5, <1>7, <2>1, TaskParts
  <2>2. CASE v # w
    BY <1>5, <1>7, <2>2 DEF MRInv, Executing
  <2> QED
    BY <2>1, <2>2
<1>9. Phases'
  BY <1>1, <1>7 DEF MRInv, Phases
<1>10. Holders'
  BY <1>1 DEF MRInv, Holders
<1>11. Files'
  <2> SUFFICES ASSUME slow = 0 PROVE Files'
    BY <1>1 DEF Files
  <2>0. inter[i][n] = w /\ c = "complete"
    BY <1>1, <1>2, <1>4 DEF MRInv, Files
  <2>1. \A j \in 0..NMap - 1, r \in 0..NReduce - 1 :
          inter[j][r] = "complete" => inter'[j][r] = "complete"
    BY <1>5, <2>0
  <2>2. \A u \in MapTask : status[u] = "completed" =>
          \A r \in 0..NReduce - 1 : inter'[u[2]][r] = "complete"
    BY <2>1, TaskParts DEF MRInv, Files
  <2>3. ASSUME NEW v \in Worker, process[v] = "running", job[v] \in MapTask
        PROVE  /\ \A r \in 0..NReduce - 1 : r < at'[v] => inter'[job[v][2]][r] = "complete"
               /\ open'[v] => inter'[job[v][2]][at'[v]] = v
    <3>1. job[v][2] \in 0..NMap - 1
      BY <2>3, TaskParts
    <3>2. /\ \A r \in 0..NReduce - 1 : r < at[v] => inter[job[v][2]][r] = "complete"
          /\ open[v] => inter[job[v][2]][at[v]] = v
      BY <2>3 DEF MRInv, Files
    <3>3. CASE v = w
      <4>1. \A r \in 0..NReduce - 1 : r < n + 1 => r < n \/ r = n
        BY <1>2
      <4> QED
        BY <1>3, <1>5, <2>0, <2>1, <3>2, <3>3, <4>1
    <3>4. CASE v # w
      <4>1. job[v][2] # i
        BY <1>2, <2>3, <3>4, TaskParts
      <4>2. open[v] => at[v] \in 0..NReduce - 1
        BY <2>3, SizeAssumption DEF MRInv, Executing, TypeOK
      <4>3. \A r \in 0..NReduce - 1 : inter'[job[v][2]][r] = inter[job[v][2]][r]
        BY <1>5, <3>1, <4>1
      <4> QED
        BY <1>5, <3>2, <3>4, <4>2, <4>3
    <3> QED
      BY <3>3, <3>4
  <2>4. ASSUME NEW v \in Worker, process[v] = "running", job[v] \in ReduceTask
        PROVE  /\ kva[v] = {j \in 0..NMap - 1 : j < at'[v]}
               /\ open'[v] => out[job[v][2]] = v
               /\ at'[v] = NMap + 1 => out[job[v][2]] = "complete"
    <3>1. v # w
      BY <1>2, <2>4, TaskParts
    <3> QED
      BY <1>5, <2>4, <3>1 DEF MRInv, Files
  <2>5. \A u \in ReduceTask : status[u] = "completed" => out[u[2]] = "complete"
    BY DEF MRInv, Files
  <2> QED
    BY <1>1, <2>2, <2>3, <2>4, <2>5 DEF Files
<1> QED
  BY <1>6, <1>8, <1>9, <1>10, <1>11 DEF MRInv

\* doReduce reads a file.
LEMMA MRReadInter ==
    ASSUME MRInv, NEW w \in Worker, ReadInter(w)
    PROVE  MRInv'
<1> DEFINE t == job[w]
           n == at[w]
           k == IF inter[n][t[2]] = "complete" THEN kva[w] \cup {n} ELSE kva[w]
<1>1. /\ kva' = [kva EXCEPT ![w] = k] /\ at' = [at EXCEPT ![w] = n + 1]
      /\ UNCHANGED <<phase, done, status, up, process, job, open, inter, out, executed, slow>>
      /\ Executes(w, ReduceTask) /\ n < NMap
  BY DEF ReadInter, coordinatorVars, fileVars
<1>2. process[w] = "running" /\ t \in ReduceTask /\ t \in Task /\ t # None /\ n \in Nat
  BY <1>1, Executor
<1>3. n \in 0..NMap - 1 /\ n + 1 \in Nat /\ n + 1 <= NMap /\ n # NMap /\ n + 1 # NMap + 1
      /\ n + 1 <= NMap + 1
  BY <1>1, <1>2, SizeAssumption
<1>4. k \in SUBSET (0..NMap - 1)
  BY <1>3 DEF MRInv, TypeOK
<1>5. phase = "reduce" /\ ~open[w]
  BY <1>2, <1>3 DEF MRInv, Executing, TypeOK
<1>6. slow = 0 => k = {j \in 0..NMap - 1 : j < n + 1}
  <2> SUFFICES ASSUME slow = 0 PROVE k = {j \in 0..NMap - 1 : j < n + 1}
    OBVIOUS
  <2>1. <<"map", n>> \in MapTask /\ <<"map", n>>[2] = n
    BY <1>3 DEF MapTask
  <2>2. status[<<"map", n>>] = "completed"
    BY <1>5, <2>1 DEF MRInv, Phases
  <2>3. inter[n][t[2]] = "complete"
    BY <1>2, <2>1, <2>2, TaskParts DEF MRInv, Files
  <2>4. kva[w] = {j \in 0..NMap - 1 : j < n}
    BY <1>2 DEF MRInv, Files
  <2> QED
    BY <1>2, <1>3, <2>3, <2>4
<1> HIDE DEF k
<1>7. /\ \A v \in Worker \ {w} : kva'[v] = kva[v] /\ at'[v] = at[v]
      /\ kva'[w] = k /\ at'[w] = n + 1
  BY <1>1 DEF MRInv, TypeOK
<1>8. TypeOK'
  BY <1>1, <1>3, <1>4 DEF MRInv, TypeOK
<1>9. Executing'
  <2> SUFFICES ASSUME NEW v \in Worker
               PROVE  /\ job[v] = None => ~open[v]
                      /\ job[v] \in MapTask =>
                          /\ at'[v] <= NReduce /\ (open[v] => at'[v] < NReduce)
                          /\ at'[v] = NReduce => job[v] \in executed
                      /\ job[v] \in ReduceTask =>
                          /\ at'[v] <= NMap + 1 /\ (open[v] => at'[v] = NMap) /\ phase = "reduce"
                          /\ at'[v] = NMap + 1 => job[v] \in executed
    BY <1>1 DEF Executing
  <2>1. CASE v = w
    BY <1>2, <1>3, <1>5, <1>7, <2>1, TaskParts
  <2>2. CASE v # w
    BY <1>7, <2>2 DEF MRInv, Executing
  <2> QED
    BY <2>1, <2>2
<1>10. Phases' /\ Holders'
  BY <1>1 DEF MRInv, Phases, Holders
<1>11. Files'
  <2> SUFFICES ASSUME slow = 0 PROVE Files'
    BY <1>1 DEF Files
  <2>1. ASSUME NEW v \in Worker, process[v] = "running", job[v] \in MapTask
        PROVE  /\ \A r \in 0..NReduce - 1 : r < at'[v] => inter[job[v][2]][r] = "complete"
               /\ open[v] => inter[job[v][2]][at'[v]] = v
    <3>1. v # w
      BY <1>2, <2>1, TaskParts
    <3> QED
      BY <1>7, <2>1, <3>1 DEF MRInv, Files
  <2>2. ASSUME NEW v \in Worker, process[v] = "running", job[v] \in ReduceTask
        PROVE  /\ kva'[v] = {j \in 0..NMap - 1 : j < at'[v]}
               /\ open[v] => out[job[v][2]] = v
               /\ at'[v] = NMap + 1 => out[job[v][2]] = "complete"
    <3>1. CASE v = w
      BY <1>3, <1>5, <1>6, <1>7, <3>1
    <3>2. CASE v # w
      BY <1>7, <2>2, <3>2 DEF MRInv, Files
    <3> QED
      BY <3>1, <3>2
  <2>3. /\ \A u \in MapTask : status[u] = "completed" =>
             \A r \in 0..NReduce - 1 : inter[u[2]][r] = "complete"
        /\ \A u \in ReduceTask : status[u] = "completed" => out[u[2]] = "complete"
    BY DEF MRInv, Files
  <2> QED
    BY <1>1, <2>1, <2>2, <2>3 DEF Files
<1> QED
  BY <1>8, <1>9, <1>10, <1>11 DEF MRInv

\* doReduce creates its output.
LEMMA MRCreateOut ==
    ASSUME MRInv, NEW w \in Worker, CreateOut(w)
    PROVE  MRInv'
<1> DEFINE t == job[w]
<1>1. /\ out' = [out EXCEPT ![t[2]] = w] /\ open' = [open EXCEPT ![w] = TRUE]
      /\ UNCHANGED <<phase, done, status, up, process, job, at, kva, inter, executed, slow>>
      /\ Executes(w, ReduceTask) /\ at[w] = NMap
  BY DEF CreateOut, coordinatorVars
<1>2. /\ process[w] = "running" /\ t \in ReduceTask /\ t \in Task /\ t # None
      /\ slow = 0 =>
           /\ status[t] = "in_progress"
           /\ \A v \in Worker \ {w} : process[v] = "running" => job[v] # t
  BY <1>1, Executor
<1>3. t[2] \in 0..NReduce - 1 /\ NMap # NMap + 1
  BY <1>2, TaskParts, SizeAssumption
<1>4. /\ \A r \in 0..NReduce - 1 : out'[r] = IF r = t[2] THEN w ELSE out[r]
      /\ \A v \in Worker : open'[v] = (open[v] \/ v = w)
  BY <1>1, <1>3 DEF MRInv, TypeOK
<1>5. TypeOK'
  BY <1>1, <1>3 DEF MRInv, TypeOK
<1>6. Executing'
  BY <1>1, <1>2, <1>4, TaskParts DEF MRInv, Executing
<1>7. Phases' /\ Holders'
  BY <1>1 DEF MRInv, Phases, Holders
<1>8. Files'
  <2> SUFFICES ASSUME slow = 0 PROVE Files'
    BY <1>1 DEF Files
  <2>1. \A u \in ReduceTask : status[u] = "completed" => out'[u[2]] = "complete"
    <3>1. \A u \in ReduceTask : status[u] = "completed" => u[2] # t[2] /\ u[2] \in 0..NReduce - 1
      BY <1>2, TaskParts
    <3> QED
      BY <1>4, <3>1 DEF MRInv, Files
  <2>2. ASSUME NEW v \in Worker, process[v] = "running", job[v] \in ReduceTask
        PROVE  /\ kva[v] = {j \in 0..NMap - 1 : j < at[v]}
               /\ open'[v] => out'[job[v][2]] = v
               /\ at[v] = NMap + 1 => out'[job[v][2]] = "complete"
    <3>1. CASE v = w
      BY <1>1, <1>2, <1>3, <1>4, <3>1 DEF MRInv, Files
    <3>2. CASE v # w
      <4>1. job[v][2] # t[2] /\ job[v][2] \in 0..NReduce - 1
        BY <1>2, <2>2, <3>2, TaskParts
      <4>2. out'[job[v][2]] = out[job[v][2]] /\ (open'[v] => open[v])
        BY <1>4, <3>2, <4>1
      <4> QED
        BY <2>2, <4>2 DEF MRInv, Files
    <3> QED
      BY <3>1, <3>2
  <2>3. ASSUME NEW v \in Worker, process[v] = "running", job[v] \in MapTask
        PROVE  /\ \A r \in 0..NReduce - 1 : r < at[v] => inter[job[v][2]][r] = "complete"
               /\ open'[v] => inter[job[v][2]][at[v]] = v
    BY <1>2, <1>4, <2>3, TaskParts DEF MRInv, Files
  <2>4. \A u \in MapTask : status[u] = "completed" =>
             \A r \in 0..NReduce - 1 : inter[u[2]][r] = "complete"
    BY DEF MRInv, Files
  <2> QED
    BY <1>1, <2>1, <2>2, <2>3, <2>4 DEF Files
<1> QED
  BY <1>5, <1>6, <1>7, <1>8 DEF MRInv

\* doReduce closes its output.
LEMMA MRCloseOut ==
    ASSUME MRInv, NEW w \in Worker, CloseOut(w)
    PROVE  MRInv'
<1> DEFINE t == job[w]
           c == Closed(out[t[2]], w, kva[w] = 0..NMap - 1)
<1>1. /\ out' = [out EXCEPT ![t[2]] = c] /\ open' = [open EXCEPT ![w] = FALSE]
      /\ at' = [at EXCEPT ![w] = at[w] + 1] /\ executed' = executed \cup {t}
      /\ UNCHANGED <<phase, done, status, up, process, job, kva, inter, slow>>
      /\ Executes(w, ReduceTask) /\ open[w]
  BY DEF CloseOut, coordinatorVars, Log
<1>2. /\ process[w] = "running" /\ t \in ReduceTask /\ t \in Task /\ t # None /\ at[w] \in Nat
      /\ slow = 0 =>
           /\ status[t] = "in_progress"
           /\ \A v \in Worker \ {w} : process[v] = "running" => job[v] # t
  BY <1>1, Executor
<1>3. t[2] \in 0..NReduce - 1 /\ at[w] = NMap /\ phase = "reduce"
  BY <1>1, <1>2, TaskParts DEF MRInv, Executing
<1>4. NMap + 1 \in Nat /\ NMap + 1 <= NMap + 1
  BY SizeAssumption
<1>5. c \in Worker \cup {"absent", "incomplete", "complete"}
  BY <1>3 DEF Closed, MRInv, TypeOK
<1>6. slow = 0 => c = "complete"
  <2> SUFFICES ASSUME slow = 0 PROVE c = "complete"
    OBVIOUS
  <2>1. kva[w] = {j \in 0..NMap - 1 : j < NMap} /\ out[t[2]] = w
    BY <1>1, <1>2, <1>3 DEF MRInv, Files
  <2>2. kva[w] = 0..NMap - 1
    BY <2>1, SizeAssumption
  <2> QED
    BY <2>1, <2>2 DEF Closed
<1> HIDE DEF c
<1>7. /\ \A r \in 0..NReduce - 1 : out'[r] = IF r = t[2] THEN c ELSE out[r]
      /\ \A v \in Worker \ {w} : open'[v] = open[v] /\ at'[v] = at[v]
      /\ open'[w] = FALSE /\ at'[w] = NMap + 1
  BY <1>1, <1>3 DEF MRInv, TypeOK
<1>8. TypeOK'
  BY <1>1, <1>2, <1>3, <1>4, <1>5 DEF MRInv, TypeOK
<1>9. Executing'
  <2> SUFFICES ASSUME NEW v \in Worker
               PROVE  /\ job[v] = None => ~open'[v]
                      /\ job[v] \in MapTask =>
                          /\ at'[v] <= NReduce /\ (open'[v] => at'[v] < NReduce)
                          /\ at'[v] = NReduce => job[v] \in executed'
                      /\ job[v] \in ReduceTask =>
                          /\ at'[v] <= NMap + 1 /\ (open'[v] => at'[v] = NMap) /\ phase = "reduce"
                          /\ at'[v] = NMap + 1 => job[v] \in executed'
    BY <1>1 DEF Executing
  <2>1. CASE v = w
    BY <1>1, <1>2, <1>3, <1>4, <1>7, <2>1, TaskParts
  <2>2. CASE v # w
    BY <1>1, <1>7, <2>2 DEF MRInv, Executing
  <2> QED
    BY <2>1, <2>2
<1>10. Phases' /\ Holders'
  BY <1>1 DEF MRInv, Phases, Holders
<1>11. Files'
  <2> SUFFICES ASSUME slow = 0 PROVE Files'
    BY <1>1 DEF Files
  <2>1. \A u \in ReduceTask : status[u] = "completed" => out'[u[2]] = "complete"
    BY <1>6, <1>7, TaskParts DEF MRInv, Files
  <2>2. ASSUME NEW v \in Worker, process[v] = "running", job[v] \in ReduceTask
        PROVE  /\ kva[v] = {j \in 0..NMap - 1 : j < at'[v]}
               /\ open'[v] => out'[job[v][2]] = v
               /\ at'[v] = NMap + 1 => out'[job[v][2]] = "complete"
    <3>1. CASE v = w
      <4>1. kva[w] = {j \in 0..NMap - 1 : j < NMap}
        BY <1>2, <1>3 DEF MRInv, Files
      <4>2. {j \in 0..NMap - 1 : j < NMap} = {j \in 0..NMap - 1 : j < NMap + 1}
        BY SizeAssumption
      <4> QED
        BY <1>3, <1>6, <1>7, <3>1, <4>1, <4>2
    <3>2. CASE v # w
      <4>1. job[v][2] # t[2] /\ job[v][2] \in 0..NReduce - 1
        BY <1>2, <2>2, <3>2, TaskParts
      <4>2. out'[job[v][2]] = out[job[v][2]]
        BY <1>7, <4>1
      <4> QED
        BY <1>7, <2>2, <3>2, <4>2 DEF MRInv, Files
    <3> QED
      BY <3>1, <3>2
  <2>3. ASSUME NEW v \in Worker, process[v] = "running", job[v] \in MapTask
        PROVE  /\ \A r \in 0..NReduce - 1 : r < at'[v] => inter[job[v][2]][r] = "complete"
               /\ open'[v] => inter[job[v][2]][at'[v]] = v
    <3>1. v # w
      BY <1>2, <2>3, TaskParts
    <3> QED
      BY <1>7, <2>3, <3>1 DEF MRInv, Files
  <2>4. \A u \in MapTask : status[u] = "completed" =>
             \A r \in 0..NReduce - 1 : inter[u[2]][r] = "complete"
    BY DEF MRInv, Files
  <2> QED
    BY <1>1, <2>1, <2>2, <2>3, <2>4 DEF Files
<1> QED
  BY <1>8, <1>9, <1>10, <1>11 DEF MRInv

-----------------------------------------------------------------------------
(* Theorems *)

\* Every step keeps the invariant.
LEMMA MRNext == MRInv /\ [Next]_vars => MRInv'
  BY MRGetTask, MRReportTask, MRTimeout, MRProcessEnds, MRCreateInter, MRCloseInter,
     MRReadInter, MRCreateOut, MRCloseOut DEF Next, Work

\* Coordinator, workers and files keep their types.
THEOREM MRTypes == Spec => []TypeOK
  BY MRInit, MRNext, PTL DEF Spec, MRInv

\* Late and repeated reports (ReportTask, coordinator.go:91-106) never let the
\* coordinator begin the reduce phase, or end the job, before every task of the
\* list has been executed to its end.
THEOREM MRPhases == Spec => []PhasesInOrder
<1>1. MRInv => PhasesInOrder
  BY TaskParts DEF MRInv, Phases, PhasesInOrder
<1> QED
  BY <1>1, MRInit, MRNext, PTL DEF Spec

\* If no task was taken from a running worker, a finished job has all its output.
LEMMA OutputWritten == MRInv => CrashesAreHarmless
<1> SUFFICES ASSUME MRInv, done, slow = 0, NEW r \in 0..NReduce - 1
             PROVE  out[r] = "complete"
  BY DEF CrashesAreHarmless
<1>1. <<"reduce", r>> \in ReduceTask /\ <<"reduce", r>>[2] = r
  BY TaskParts
<1>2. status[<<"reduce", r>>] = "completed"
  BY <1>1 DEF MRInv, Phases
<1> QED
  BY <1>1, <1>2 DEF MRInv, Files

\* If tasks are taken only from crashed workers, the output of the job is
\* complete, wherever in doMap or doReduce the crashes happened: a task that is
\* executed again creates its files anew (worker.go:79 and 117) and no other
\* worker writes to them.
THEOREM MRCrashes == Spec => []CrashesAreHarmless
  BY OutputWritten, MRInit, MRNext, PTL DEF Spec

-----------------------------------------------------------------------------
(* The lines of the output *)

\* The image of a finite set is finite.
LEMMA ImageFinite ==
    ASSUME NEW S, IsFiniteSet(S), NEW I, NEW f \in [S -> I], \A y \in I : \E x \in S : f[x] = y
    PROVE  IsFiniteSet(I)
<1>1. f \in Surjection(S, I)
  BY DEF Surjection
<1> QED
  BY <1>1, FS_Surjection

\* A document has finitely many records.
LEMMA MapFinite ==
    ASSUME NEW app \in Apps, NEW doc, NEW words \in Seq(Word)
    PROVE  IsFiniteSet(Map(app, doc, words))
<1>1. IsFiniteSet(DOMAIN words)
  <2>1. DOMAIN words = 1..Len(words) /\ Len(words) \in Int /\ 1 \in Int
    OBVIOUS
  <2> QED
    BY <2>1, FS_Interval
<1>2. IsFiniteSet(WcMap(doc, words))
  <2> DEFINE f == [n \in DOMAIN words |-> Record(words[n], 1, doc, n)]
             I == WcMap(doc, words)
  <2>1. f \in [DOMAIN words -> I] /\ \A y \in I : \E n \in DOMAIN words : f[n] = y
    BY DEF WcMap
  <2> HIDE DEF f, I
  <2>2. IsFiniteSet(I)
    BY <1>1, <2>1, ImageFinite
  <2> QED
    BY <2>2 DEF I
<1>3. IsFiniteSet(IndexerMap(doc, words))
  <2> DEFINE f == [n \in DOMAIN words |-> Record(words[n], doc, doc, 0)]
             I == IndexerMap(doc, words)
  <2>1. f \in [DOMAIN words -> I] /\ \A y \in I : \E n \in DOMAIN words : f[n] = y
    BY DEF IndexerMap
  <2> HIDE DEF f, I
  <2>2. IsFiniteSet(I)
    BY <1>1, <2>1, ImageFinite
  <2> QED
    BY <2>2 DEF I
<1> QED
  BY <1>2, <1>3 DEF Map

\* So has the whole input.
LEMMA IntermediateFinite ==
    ASSUME NEW app \in Apps, NEW input \in Inputs
    PROVE  IsFiniteSet(Intermediate(app, input))
<1>1. \A i \in 0..NMap - 1 : IsFiniteSet(Map(app, i, input[i]))
  BY MapFinite, InputsAssumption
<1> DEFINE I == {Map(app, i, input[i]) : i \in 0..NMap - 1}
           f == [i \in 0..NMap - 1 |-> Map(app, i, input[i])]
<1>2. IsFiniteSet(0..NMap - 1)
  <2>1. 0 \in Int /\ NMap - 1 \in Int
    BY SizeAssumption
  <2> QED
    BY <2>1, FS_Interval
<1>3. f \in [0..NMap - 1 -> I] /\ \A y \in I : \E i \in 0..NMap - 1 : f[i] = y
  OBVIOUS
<1>4. IsFiniteSet(I)
  <2> HIDE DEF f, I
  <2> QED
    BY <1>2, <1>3, ImageFinite
<1>5. \A T \in I : IsFiniteSet(T)
  BY <1>1
<1>6. IsFiniteSet(UNION I)
  <2> HIDE DEF I
  <2> QED
    BY <1>4, <1>5, FS_UNION
<1> QED
  BY <1>6 DEF Intermediate

\* The keys are words.
LEMMA KeysAreWords ==
    ASSUME NEW app \in Apps, NEW input \in Inputs, NEW rec \in Intermediate(app, input)
    PROVE  rec.key \in Word
<1>1. PICK i \in 0..NMap - 1 : rec \in Map(app, i, input[i])
  BY DEF Intermediate
<1>2. input[i] \in Seq(Word)
  BY InputsAssumption
<1>3. PICK n \in DOMAIN input[i] : rec.key = input[i][n]
  BY <1>1 DEF Map, WcMap, IndexerMap, Record
<1> QED
  BY <1>2, <1>3

\* doReduce number r reads the records whose key hashes to r, of all map tasks.
LEMMA WhatIsGathered ==
    ASSUME NEW app \in Apps, NEW input \in Inputs, NEW r
    PROVE  Gathered(app, input, r)
             = {rec \in Intermediate(app, input) : Hash[rec.key] % NReduce = r}
  BY DEF Gathered, Intermediate, InterFile, Partition

\* So each key has all its records in one reduce task, and the lines of the job
\* are those of the sequential program.
LEMMA LinesTogether ==
    ASSUME NEW app \in Apps, NEW input \in Inputs
    PROVE  UNION {OutFile[app][input][r] : r \in 0..NReduce - 1} = mrsequential[app][input]
<1> DEFINE all == Intermediate(app, input)
           some(r) == Gathered(app, input, r)
           L(recs, key) == {<<key, Reduce(app, values)>> : values \in Orders(Of(recs, key))}
<1>1. \A r \in 0..NReduce - 1 : OutFile[app][input][r] = Lines(app, some(r))
  BY DEF OutFile
<1>2. mrsequential[app][input] = Lines(app, all)
  BY DEF mrsequential
<1>3. \A recs, l : l \in Lines(app, recs) <=> \E rec \in recs : l \in L(recs, rec.key)
  BY DEF Lines
<1>4. \A r : some(r) = {rec \in all : Hash[rec.key] % NReduce = r}
  BY WhatIsGathered
<1>5. \A rec \in all : Hash[rec.key] % NReduce \in 0..NReduce - 1
  <2>1. \A rec \in all : rec.key \in Word
    BY KeysAreWords
  <2>2. \A h \in Nat : h % NReduce \in 0..NReduce - 1
    BY SizeAssumption
  <2> HIDE DEF all
  <2> QED
    BY <2>1, <2>2, WordAssumption
<1>6. \A r : \A rec \in some(r) : Of(some(r), rec.key) = Of(all, rec.key)
  BY <1>4 DEF Of
<1>7. \A r : \A rec \in some(r) : L(some(r), rec.key) = L(all, rec.key)
  BY <1>6
<1> HIDE DEF all, some, L
<1>8. \A l : l \in Lines(app, all) => \E r \in 0..NReduce - 1 : l \in Lines(app, some(r))
  <2> SUFFICES ASSUME NEW l \in Lines(app, all)
               PROVE  \E r \in 0..NReduce - 1 : l \in Lines(app, some(r))
    OBVIOUS
  <2>1. PICK rec \in all : l \in L(all, rec.key)
    BY <1>3
  <2>2. PICK r \in 0..NReduce - 1 : r = Hash[rec.key] % NReduce
    BY <1>5
  <2>3. rec \in some(r)
    BY <1>4, <2>2
  <2>4. l \in L(some(r), rec.key)
    BY <1>7, <2>1, <2>3
  <2> QED
    BY <1>3, <2>3, <2>4
<1>9. \A l : \A r \in 0..NReduce - 1 : l \in Lines(app, some(r)) => l \in Lines(app, all)
  <2> SUFFICES ASSUME NEW r \in 0..NReduce - 1, NEW l \in Lines(app, some(r))
               PROVE  l \in Lines(app, all)
    OBVIOUS
  <2>1. PICK rec \in some(r) : l \in L(some(r), rec.key)
    BY <1>3
  <2>2. rec \in all
    BY <1>4
  <2>3. l \in L(all, rec.key)
    BY <1>7, <2>1
  <2> QED
    BY <1>3, <2>2, <2>3
<1> QED
  BY <1>1, <1>2, <1>8, <1>9

\* However the records of a key are ordered, their values are as many, the same,
\* and each as often.
LEMMA ValuesOf ==
    ASSUME NEW S, IsFiniteSet(S), NEW v \in Orders(S)
    PROVE  /\ DOMAIN v = 1..Cardinality(S) /\ Len(v) = Cardinality(S)
           /\ Range(v) = {rec.value : rec \in S}
           /\ \A x : Count(v, x) = Cardinality({rec \in S : rec.value = x})
<1> DEFINE n == Cardinality(S)
<1>1. n \in Nat
  BY FS_CardinalityType
<1>2. PICK o \in Bijection(1..n, S) : v = [m \in 1..n |-> o[m].value]
  BY DEF Orders
<1>3. /\ o \in [1..n -> S]
      /\ \A k, m \in 1..n : o[k] = o[m] => k = m
      /\ \A rec \in S : \E m \in 1..n : o[m] = rec
  BY DEF Bijection, Injection, Surjection, IsInjective
<1>4. DOMAIN v = 1..n /\ \A m \in 1..n : v[m] = o[m].value
  BY <1>2
<1>5. Len(v) = n
  <2> HIDE DEF n
  <2>1. v \in Seq({rec.value : rec \in S})
    BY <1>1, <1>2, <1>3
  <2> QED
    BY <1>1, <1>4, <2>1
<1>6. Range(v) = {rec.value : rec \in S}
  <2> HIDE DEF n
  <2> QED
    BY <1>3, <1>4 DEF Range
<1>7. ASSUME NEW x PROVE Count(v, x) = Cardinality({rec \in S : rec.value = x})
  <2> DEFINE A == {m \in 1..n : v[m] = x}
             B == {rec \in S : rec.value = x}
             g == [m \in A |-> o[m]]
  <2>1. IsFiniteSet(A)
    <3>1. IsFiniteSet(1..n)
      BY <1>1, FS_Interval
    <3>2. A \in SUBSET (1..n)
      OBVIOUS
    <3> HIDE DEF A
    <3> QED
      BY <3>1, <3>2, FS_Subset
  <2>2. g \in Bijection(A, B)
    <3> HIDE DEF n
    <3>1. g \in [A -> B] /\ (\A k, m \in A : g[k] = g[m] => k = m)
      BY <1>3, <1>4
    <3>2. \A rec \in B : \E m \in A : g[m] = rec
      BY <1>3, <1>4
    <3> HIDE DEF A, B, g
    <3> QED
      BY <3>1, <3>2 DEF Bijection, Injection, Surjection, IsInjective
  <2>3. Cardinality(B) = Cardinality(A)
    <3> HIDE DEF A, B, g
    <3>1. ExistsBijection(A, B)
      BY <2>2 DEF ExistsBijection
    <3> QED
      BY <2>1, <3>1, FS_Bijection
  <2>4. Count(v, x) = Cardinality(A)
    BY <1>4 DEF Count
  <2> QED
    BY <2>3, <2>4
<1> QED
  BY <1>4, <1>5, <1>6, <1>7

\* Sorting depends on the values only.
LEMMA SortedIs ==
    ASSUME NEW v, NEW w, DOMAIN v = DOMAIN w, Range(v) = Range(w),
           \A x : Count(v, x) = Count(w, x)
    PROVE  Sorted(v) = Sorted(w)
  BY DEF Sorted

\* So the sort, which is not stable, cannot be seen in a line.
LEMMA OneLine ==
    ASSUME NEW app \in Apps, NEW S, IsFiniteSet(S), NEW v \in Orders(S), NEW w \in Orders(S)
    PROVE  Reduce(app, v) = Reduce(app, w)
<1>1. DOMAIN v = DOMAIN w /\ Len(v) = Len(w) /\ Range(v) = Range(w)
  BY ValuesOf
<1>2. \A x : Count(v, x) = Count(w, x)
  <2>1. \A u \in Orders(S) : \A x : Count(u, x) = Cardinality({rec \in S : rec.value = x})
    BY ValuesOf
  <2> QED
    BY <2>1, Zenon
<1>3. Sorted(v) = Sorted(w)
  BY <1>1, <1>2, SortedIs
<1> QED
  BY <1>1, <1>3 DEF Reduce, WcReduce, IndexerReduce

LEMMA OneLinePerKey ==
    ASSUME NEW app \in Apps, NEW input \in Inputs,
           NEW l1 \in mrsequential[app][input], NEW l2 \in mrsequential[app][input],
           l1[1] = l2[1]
    PROVE  l1 = l2
<1> DEFINE all == Intermediate(app, input)
<1>1. \A l \in mrsequential[app][input] :
        \E key : \E values \in Orders(Of(all, key)) : l = <<key, Reduce(app, values)>>
  BY DEF mrsequential, Lines
<1>2. PICK k1, k2 : /\ \E values \in Orders(Of(all, k1)) : l1 = <<k1, Reduce(app, values)>>
                    /\ \E values \in Orders(Of(all, k2)) : l2 = <<k2, Reduce(app, values)>>
  BY <1>1
<1>3. PICK v \in Orders(Of(all, k1)) : l1 = <<k1, Reduce(app, v)>>
  BY <1>2
<1>4. PICK w \in Orders(Of(all, k2)) : l2 = <<k2, Reduce(app, w)>>
  BY <1>2
<1>5. k1 = k2
  BY <1>3, <1>4
<1>6. IsFiniteSet(Of(all, k1))
  <2>1. Of(all, k1) \in SUBSET all
    BY DEF Of
  <2> QED
    BY <2>1, IntermediateFinite, FS_Subset
<1>7. Reduce(app, v) = Reduce(app, w)
  <2> HIDE DEF all
  <2> QED
    BY <1>5, <1>6, OneLine
<1> QED
  BY <1>3, <1>4, <1>5, <1>7

\* If tasks are taken only from crashed workers, the output files of a finished
\* job hold the lines of mrsequential.go, one for each key, for wc and for indexer,
\* for every input and every hash: doMap's partition (worker.go:73) sends all records
\* of a key to one reduce task, and the order in which the sort leaves the values of
\* a key (worker.go:114) does not reach the line.
THEOREM MRSequential == Spec => []OutputIsSequential
<1>1. MRInv => OutputIsSequential
  <2> SUFFICES ASSUME MRInv, done, slow = 0, NEW app \in Apps, NEW input \in Inputs
               PROVE  LET files == {OutFile[app][input][r] :
                                      r \in {q \in 0..NReduce - 1 : out[q] = "complete"}}
                      IN  /\ UNION files = mrsequential[app][input]
                          /\ \A l1, l2 \in UNION files : l1[1] = l2[1] => l1 = l2
    BY DEF OutputIsSequential
  <2>1. {q \in 0..NReduce - 1 : out[q] = "complete"} = 0..NReduce - 1
    BY OutputWritten DEF CrashesAreHarmless
  <2>2. UNION {OutFile[app][input][r] : r \in 0..NReduce - 1} = mrsequential[app][input]
    BY LinesTogether
  <2>3. \A l1, l2 \in mrsequential[app][input] : l1[1] = l2[1] => l1 = l2
    BY OneLinePerKey
  <2> QED
    BY <2>1, <2>2, <2>3
<1> QED
  BY <1>1, MRInit, MRNext, PTL DEF Spec
=============================================================================
