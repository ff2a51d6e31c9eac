---------------------------- MODULE Scheduler_proofs ----------------------------
(* For every number of tasks, every delay and every width of xTickCount: no task *)
(* is switched out before it gives up the processor; no tick is lost; the task   *)
(* of the highest priority has the processor; a sleeper is woken by the tick its *)
(* delay ends with; and no other has more than two turns while a task waits.     *)
EXTENDS Scheduler, SequenceTheorems, FiniteSetTheorems, TLAPS

(* The tasks a delay wakes have the priority of the application's, all others than
   the idle task have at least that. *)
LEMMA PriorityOfAll ==
  /\ \A t \in AppTasks : t \in Tasks /\ uxPriority[t] = 2
  /\ IdleTask \in Tasks /\ TimerTask \in Tasks /\ uxPriority[TimerTask] = 4
BY SchedulerAssumption DEF uxPriority, Tasks

(* Who sleeps with a timeout belongs to the application. *)
SleepersAreApps ==
  /\ pxDelayedTaskList \in Seq(AppTasks)
  /\ pxOverflowDelayedTaskList \in Seq(AppTasks)

PlacesKnown ==
  /\ pc \in [Tasks -> Places]
  /\ xSchedulerRunning \in BOOLEAN
  /\ pendSV \in BOOLEAN
  /\ ticking \in {"nobody", "handler", "resuming"}

(* Before the scheduler runs nobody has begun, sleeps or waits for a switch. *)
BeforeStart ==
  /\ xSchedulerRunning => created = Len(Created)
  /\ ~xSchedulerRunning =>
       /\ \A t \in Tasks : pc[t] = "off"
       /\ pendSV = FALSE
       /\ pxDelayedTaskList = <<>> /\ pxOverflowDelayedTaskList = <<>>
       /\ xPendedTicks = 0

(* Whoever has not the processor has given it up, or is the idle task. *)
OneThread ==
  /\ pc[IdleTask] \in {"off", "turn"}
  /\ \A t \in Tasks \ {IdleTask} : t # pxCurrentTCB => pc[t] = "off"

(* A switch is pending only when the task it takes the processor from gave it up. *)
SwitchFindsNobody == pendSV => \A t \in Tasks \ {IdleTask} : pc[t] = "off"

(* The scheduler is suspended by the one task that is on its way to sleep. *)
SuspendedByOne ==
  uxSchedulerSuspended =
    IF \E t \in Tasks : pc[t] \in {"suspended", "placed"} THEN 1 ELSE 0

NeverPends == xYieldPending = FALSE

(* Pended ticks are counted by a task, not by the idle task. *)
ResumingByTask == ticking = "resuming" => pxCurrentTCB \in Tasks \ {IdleTask}

IInv ==
  /\ PlacesKnown /\ SleepersAreApps /\ BeforeStart /\ OneThread
  /\ SwitchFindsNobody /\ SuspendedByOne /\ NeverPends /\ ResumingByTask

(* A newcomer of the application keeps a list one of its tasks. *)
LEMMA InsertKeepsApps ==
  ASSUME NEW s \in Seq(AppTasks), NEW t \in AppTasks, NEW value
  PROVE  vListInsert(s, t, value) \in Seq(AppTasks)
<1> DEFINE before == {j \in 1 .. Len(s) : wake[s[j]] <= value}
           i == Cardinality(before)
<1>1. Len(s) \in Nat
  OBVIOUS
<1>2. IsFiniteSet(1 .. Len(s)) /\ Cardinality(1 .. Len(s)) = Len(s)
  BY <1>1, FS_Interval, SMTT(20)
<1>3. before \subseteq 1 .. Len(s)
  OBVIOUS
<1>4. i \in Nat /\ i <= Len(s)
  BY <1>2, <1>3, FS_Subset, FS_CardinalityType
<1> HIDE DEF before
<1>5. SubSeq(s, 1, i) \in Seq(AppTasks) /\ SubSeq(s, i + 1, Len(s)) \in Seq(AppTasks)
  BY <1>1, <1>4
<1>6. <<t>> \in Seq(AppTasks)
  OBVIOUS
<1>7. SubSeq(s, 1, i) \o <<t>> \o SubSeq(s, i + 1, Len(s)) \in Seq(AppTasks)
  BY <1>5, <1>6
<1>8. vListInsert(s, t, value) = SubSeq(s, 1, i) \o <<t>> \o SubSeq(s, i + 1, Len(s))
  BY Zenon DEF vListInsert, before
<1> QED
  BY <1>7, <1>8, Zenon

LEMMA InitHolds == Init => IInv
<1> SUFFICES ASSUME Init PROVE IInv
  OBVIOUS
<1>1. /\ xSchedulerRunning = FALSE
      /\ pxDelayedTaskList = <<>> /\ pxOverflowDelayedTaskList = <<>>
      /\ uxSchedulerSuspended = 0 /\ xPendedTicks = 0 /\ xYieldPending = FALSE
      /\ pendSV = FALSE /\ ticking = "nobody" /\ pc = [t \in Tasks |-> "off"]
  BY Zenon DEF Init
<1>2. xSchedulerRunning \in BOOLEAN /\ pendSV \in BOOLEAN
  BY <1>1, Zenon
<1>3. PlacesKnown
  BY <1>1, <1>2 DEF PlacesKnown, Places
<1>4. SleepersAreApps
  BY <1>1 DEF SleepersAreApps
<1>5. OneThread
  BY <1>1, PriorityOfAll DEF OneThread
<1>6. SuspendedByOne
  BY <1>1 DEF SuspendedByOne
<1>7. BeforeStart /\ SwitchFindsNobody /\ NeverPends
  BY <1>1, Zenon DEF BeforeStart, SwitchFindsNobody, NeverPends
<1>8. ResumingByTask
  BY <1>1 DEF ResumingByTask
<1> QED
  BY <1>3, <1>4, <1>5, <1>6, <1>7, <1>8 DEF IInv

--------------------------------------------------------------------------------
(* What every action of a task, and every action of a tick, leaves alone. *)

(* A step of a running task: nobody else is in the middle of anything. *)
LEMMA StepFromTurn ==
  ASSUME IInv, NEW t \in Tasks, NEW place, Thread(t, place), place # "off"
  PROVE  /\ xSchedulerRunning = TRUE /\ pendSV = FALSE /\ ticking = "nobody"
         /\ pxCurrentTCB = t /\ pc[t] = place
         /\ \A u \in Tasks \ {IdleTask} : u # t => pc[u] = "off"
         /\ pc[IdleTask] \in {"off", "turn"}
         /\ pc \in [Tasks -> Places]
         /\ place \in {"suspended", "placed", "resuming", "yielding"} => t # IdleTask
BY DEF IInv, PlacesKnown, OneThread, Thread

(* A task that moves on, the suspension following it, keeps what concerns places. *)
LEMMA MoveKeepsPlaces ==
  ASSUME IInv, NEW t \in Tasks, NEW place, NEW next \in Places, Thread(t, place), place # "off",
         t # IdleTask, pc' = [pc EXCEPT ![t] = next],
         UNCHANGED <<pxCurrentTCB, xSchedulerRunning, created>>,
         ticking' \in {"nobody", "resuming"}, pendSV' \in BOOLEAN,
         pendSV' => next = "off",
         uxSchedulerSuspended' = IF next \in {"suspended", "placed"} THEN 1 ELSE 0
  PROVE  /\ PlacesKnown' /\ BeforeStart' /\ OneThread' /\ SwitchFindsNobody' /\ SuspendedByOne'
         /\ ResumingByTask'
<1>1. /\ xSchedulerRunning = TRUE /\ pc \in [Tasks -> Places] /\ pxCurrentTCB = t
      /\ \A u \in Tasks \ {IdleTask} : u # t => pc[u] = "off"
      /\ pc[IdleTask] \in {"off", "turn"}
  BY StepFromTurn
<1>2. pc' \in [Tasks -> Places] /\ pc'[t] = next /\ \A u \in Tasks : u # t => pc'[u] = pc[u]
  BY <1>1
<1>3. PlacesKnown'
  BY <1>1, <1>2 DEF PlacesKnown
<1>4. BeforeStart'
  BY <1>1 DEF IInv, BeforeStart
<1>5. OneThread'
  BY <1>1, <1>2, PriorityOfAll DEF OneThread
<1>6. SwitchFindsNobody'
  BY <1>1, <1>2, PriorityOfAll DEF SwitchFindsNobody
<1>7. SuspendedByOne'
  BY <1>1, <1>2, PriorityOfAll DEF SuspendedByOne
<1>8. ResumingByTask'
  BY <1>1 DEF ResumingByTask
<1> QED
  BY <1>3, <1>4, <1>5, <1>6, <1>7, <1>8

(* A counted tick exchanges the lists of sleepers at most. *)
LEMMA CountHolds ==
  ASSUME IInv, NEW who \in {"handler", "resuming"}, CountTick(who),
         UNCHANGED xPendedTicks \/ xSchedulerRunning,
         who = "resuming" => pxCurrentTCB \in Tasks \ {IdleTask}
  PROVE  IInv'
<1>1. /\ UNCHANGED <<pxCurrentTCB, xSchedulerRunning, created, pendSV, uxSchedulerSuspended, xYieldPending, pc>>
      /\ ticking' = who
  BY Zenon DEF CountTick, bootVars
<1>2. \/ UNCHANGED <<pxDelayedTaskList, pxOverflowDelayedTaskList>>
      \/ /\ pxDelayedTaskList' = pxOverflowDelayedTaskList
         /\ pxOverflowDelayedTaskList' = pxDelayedTaskList
  BY Zenon DEF CountTick, taskSWITCH_DELAYED_LISTS
<1>3. SleepersAreApps'
  BY <1>2 DEF IInv, SleepersAreApps
<1>4. PlacesKnown'
  BY <1>1 DEF IInv, PlacesKnown
<1>5. BeforeStart'
  BY <1>1, <1>2 DEF IInv, BeforeStart
<1>6. OneThread' /\ SwitchFindsNobody' /\ SuspendedByOne' /\ NeverPends'
  BY <1>1 DEF IInv, OneThread, SwitchFindsNobody, SuspendedByOne, NeverPends
<1>7. ResumingByTask'
  BY <1>1 DEF ResumingByTask
<1> QED
  BY <1>7, <1>3, <1>4, <1>5, <1>6 DEF IInv

(* What a task does about its place in the lists, its delay included, is its own. *)
LEMMA StepHolds ==
  ASSUME IInv, NEW t \in Tasks, Step(t)
  PROVE  IInv'
<1>0. /\ NeverPends /\ SleepersAreApps
  BY DEF IInv
<1>1. CASE vTaskSuspendAll(t)
  <2>1. Thread(t, "turn") /\ t # IdleTask /\ pc' = [pc EXCEPT ![t] = "suspended"]
    BY <1>1, Zenon DEF vTaskSuspendAll, Goto
  <2>2. UNCHANGED <<pxCurrentTCB, xSchedulerRunning, created, ticking, pendSV,
                    pxDelayedTaskList, pxOverflowDelayedTaskList, xYieldPending>>
    BY <1>1 DEF vTaskSuspendAll, bootVars, tickVars, sleepVars
  <2>3. uxSchedulerSuspended = 0
    BY <2>1, StepFromTurn, PriorityOfAll DEF IInv, SuspendedByOne
  <2>4. uxSchedulerSuspended' = 1
    BY <1>1, <2>3 DEF vTaskSuspendAll
  <2>5. /\ ticking' \in {"nobody", "resuming"} /\ pendSV' = FALSE
    BY <2>1, <2>2, StepFromTurn
  <2>6. /\ PlacesKnown' /\ BeforeStart' /\ OneThread' /\ SwitchFindsNobody'
        /\ SuspendedByOne' /\ ResumingByTask'
    BY <2>1, <2>2, <2>4, <2>5, MoveKeepsPlaces DEF Places
  <2> QED
    BY <1>0, <2>2, <2>6 DEF IInv, NeverPends, SleepersAreApps
<1>2. CASE prvAddCurrentTaskToDelayedList(t)
  <2>1. Thread(t, "suspended") /\ pc' = [pc EXCEPT ![t] = "placed"]
    BY <1>2, Zenon DEF prvAddCurrentTaskToDelayedList, Goto
  <2>2. UNCHANGED <<pxCurrentTCB, xSchedulerRunning, created, ticking, pendSV,
                    uxSchedulerSuspended, xYieldPending>>
    BY <1>2, Zenon DEF prvAddCurrentTaskToDelayedList, bootVars
  <2>3. t # IdleTask
    BY <2>1, StepFromTurn
  <2>4. uxSchedulerSuspended' = 1
    BY <2>1, <2>2, StepFromTurn DEF IInv, SuspendedByOne
  <2>5. ticking' \in {"nobody", "resuming"} /\ pendSV' = FALSE
    BY <2>1, <2>2, StepFromTurn
  <2>6. /\ PlacesKnown' /\ BeforeStart' /\ OneThread' /\ SwitchFindsNobody'
        /\ SuspendedByOne' /\ ResumingByTask'
    BY <2>1, <2>2, <2>3, <2>4, <2>5, MoveKeepsPlaces DEF Places
  <2>7. SleepersAreApps'
    <3>1. CASE t = TimerTask
      BY <1>0, <1>2, <3>1, Zenon DEF prvAddCurrentTaskToDelayedList, SleepersAreApps
    <3>2. CASE t # TimerTask
      <4>1. t \in AppTasks
        BY <2>3, <3>2 DEF Tasks
      <4>2. Sleep(t, TicksLater(DelayOf[t]))
        BY <1>2, <3>2, Zenon DEF prvAddCurrentTaskToDelayedList
      <4> DEFINE at == TicksLater(DelayOf[t])
      <4>3. /\ vListInsert(pxDelayedTaskList, t, at) \in Seq(AppTasks)
            /\ vListInsert(pxOverflowDelayedTaskList, t, at) \in Seq(AppTasks)
        BY <1>0, <4>1, InsertKeepsApps, Zenon DEF SleepersAreApps
      <4> HIDE DEF at
      <4> QED
        BY <1>0, <4>2, <4>3, Zenon DEF Sleep, SleepersAreApps, at
    <3> QED
      BY <3>1, <3>2
  <2> QED
    BY <1>0, <2>2, <2>6, <2>7 DEF IInv, NeverPends
<1>3. CASE xTaskResumeAll(t)
  <2>1. Thread(t, "placed") /\ pc' = [pc EXCEPT ![t] = "resuming"]
    BY <1>3, Zenon DEF xTaskResumeAll, Goto
  <2>2. UNCHANGED <<pxCurrentTCB, xSchedulerRunning, created, ticking, pendSV,
                    pxDelayedTaskList, pxOverflowDelayedTaskList, xYieldPending>>
    BY <1>3 DEF xTaskResumeAll, bootVars, tickVars, sleepVars
  <2>3. uxSchedulerSuspended = 1 /\ t # IdleTask
    BY <2>1, StepFromTurn DEF IInv, SuspendedByOne
  <2>4. uxSchedulerSuspended' = 0
    BY <1>3, <2>3 DEF xTaskResumeAll
  <2>5. ticking' \in {"nobody", "resuming"} /\ pendSV' = FALSE
    BY <2>1, <2>2, StepFromTurn
  <2>6. /\ PlacesKnown' /\ BeforeStart' /\ OneThread' /\ SwitchFindsNobody'
        /\ SuspendedByOne' /\ ResumingByTask'
    BY <2>1, <2>2, <2>3, <2>4, <2>5, MoveKeepsPlaces DEF Places
  <2> QED
    BY <1>0, <2>2, <2>6 DEF IInv, NeverPends, SleepersAreApps
<1>4. CASE UnwindTick(t)
  <2>1. Thread(t, "resuming") /\ CountTick("resuming")
    BY <1>4, Zenon DEF UnwindTick
  <2> QED
    BY <2>1, StepFromTurn, CountHolds
<1>5. CASE Resumed(t)
  <2>1. Thread(t, "resuming") /\ pendSV' = FALSE /\ pc' = [pc EXCEPT ![t] = "yielding"]
    BY <1>0, <1>5, Zenon DEF Resumed, Goto, NeverPends
  <2>2. UNCHANGED <<pxCurrentTCB, xSchedulerRunning, created, ticking, uxSchedulerSuspended,
                    pxDelayedTaskList, pxOverflowDelayedTaskList, xYieldPending>>
    BY <1>5 DEF Resumed, bootVars, tickVars, sleepVars
  <2>3. t # IdleTask
    BY <2>1, StepFromTurn
  <2>4. uxSchedulerSuspended' = 0
    BY <2>1, <2>2, StepFromTurn, PriorityOfAll, ZenonT(30) DEF IInv, SuspendedByOne
  <2>5. ticking' \in {"nobody", "resuming"}
    BY <2>1, <2>2, StepFromTurn
  <2>6. /\ PlacesKnown' /\ BeforeStart' /\ OneThread' /\ SwitchFindsNobody'
        /\ SuspendedByOne' /\ ResumingByTask'
    BY <2>1, <2>2, <2>3, <2>4, <2>5, MoveKeepsPlaces DEF Places
  <2> QED
    BY <1>0, <2>2, <2>6 DEF IInv, NeverPends, SleepersAreApps
<1>6. CASE vPortYield(t)
  <2>1. Thread(t, "yielding") /\ pc' = [pc EXCEPT ![t] = "off"]
    BY <1>6, Zenon DEF vPortYield, Goto
  <2>2. UNCHANGED <<pxCurrentTCB, xSchedulerRunning, created, ticking, uxSchedulerSuspended,
                    pxDelayedTaskList, pxOverflowDelayedTaskList, xYieldPending>>
    BY <1>6 DEF vPortYield, bootVars, tickVars, sleepVars
  <2>3. t # IdleTask
    BY <2>1, StepFromTurn
  <2>4. uxSchedulerSuspended' = 0
    BY <2>1, <2>2, StepFromTurn, PriorityOfAll, ZenonT(30) DEF IInv, SuspendedByOne
  <2>5. ticking' \in {"nobody", "resuming"}
    BY <2>1, <2>2, StepFromTurn
  <2>6. pendSV' \in BOOLEAN
    BY <1>6, Zenon DEF vPortYield
  <2>7. /\ PlacesKnown' /\ BeforeStart' /\ OneThread' /\ SwitchFindsNobody'
        /\ SuspendedByOne' /\ ResumingByTask'
    BY <2>1, <2>2, <2>3, <2>4, <2>5, <2>6, MoveKeepsPlaces DEF Places
  <2> QED
    BY <1>0, <2>2, <2>7 DEF IInv, NeverPends, SleepersAreApps
<1> QED
  BY <1>1, <1>2, <1>3, <1>4, <1>5, <1>6 DEF Step

LEMMA HandlerHolds == IInv /\ SysTick_Handler => IInv'
<1> SUFFICES ASSUME IInv, SysTick_Handler PROVE IInv'
  OBVIOUS
<1>1. CASE uxSchedulerSuspended = 0
  <2>1. CountTick("handler") /\ UNCHANGED xPendedTicks
    BY <1>1, Zenon DEF SysTick_Handler
  <2> QED
    BY <2>1, CountHolds
<1>2. CASE uxSchedulerSuspended # 0
  <2>1. UNCHANGED <<pxCurrentTCB, xSchedulerRunning, created, pendSV, uxSchedulerSuspended,
                    xYieldPending, pc, ticking, pxDelayedTaskList, pxOverflowDelayedTaskList>>
    BY <1>2, Zenon DEF SysTick_Handler, bootVars, sleepVars
  <2>2. xSchedulerRunning = TRUE
    <3>1. \E t \in Tasks : pc[t] # "off"
      BY <1>2 DEF IInv, SuspendedByOne
    <3> QED
      BY <3>1, Zenon DEF IInv, BeforeStart, PlacesKnown
  <2>3. PlacesKnown' /\ SleepersAreApps' /\ ResumingByTask'
    BY <2>1 DEF IInv, PlacesKnown, SleepersAreApps, ResumingByTask
  <2>4. BeforeStart'
    BY <2>1, <2>2 DEF IInv, BeforeStart
  <2>5. OneThread' /\ SwitchFindsNobody' /\ SuspendedByOne' /\ NeverPends'
    BY <2>1 DEF IInv, OneThread, SwitchFindsNobody, SuspendedByOne, NeverPends
  <2> QED
    BY <2>3, <2>4, <2>5 DEF IInv
<1> QED
  BY <1>1, <1>2

(* Only the idle task has a priority below that of a task that is woken. *)
LEMMA WakeHolds == IInv /\ WakeOne => IInv'
<1> SUFFICES ASSUME IInv, WakeOne PROVE IInv'
  OBVIOUS
<1> DEFINE t == Head(pxDelayedTaskList)
<1>1. /\ UNCHANGED <<pxCurrentTCB, xSchedulerRunning, created, uxSchedulerSuspended, pc,
                     ticking, pxOverflowDelayedTaskList, xPendedTicks>>
      /\ ticking # "nobody" /\ pxDelayedTaskList # <<>>
      /\ pxDelayedTaskList' = Tail(pxDelayedTaskList)
  BY Zenon DEF WakeOne, Due, bootVars, tickVars
<1>2. IF MustSwitch(t) THEN AskForSwitch ELSE UNCHANGED <<xYieldPending, pendSV>>
  BY Zenon DEF WakeOne
<1>3. t \in AppTasks /\ pxDelayedTaskList' \in Seq(AppTasks)
  BY <1>1 DEF IInv, SleepersAreApps
<1>4. SleepersAreApps'
  BY <1>1, <1>3 DEF IInv, SleepersAreApps
<1>5. xSchedulerRunning = TRUE
  BY <1>1, Zenon DEF IInv, BeforeStart, PlacesKnown
<1>6. pxCurrentTCB \in Tasks \ {IdleTask} => ~MustSwitch(t)
  BY <1>3, PriorityOfAll DEF MustSwitch, uxPriority, Tasks
<1>7. /\ xYieldPending' = FALSE
      /\ \/ UNCHANGED pendSV
         \/ pendSV' = TRUE /\ pxCurrentTCB \notin Tasks \ {IdleTask}
  <2>1. CASE ~MustSwitch(t)
    BY <1>2, <2>1, Zenon DEF IInv, NeverPends
  <2>2. CASE MustSwitch(t)
    <3>1. pxCurrentTCB \notin Tasks \ {IdleTask} /\ AskForSwitch
      BY <1>2, <1>6, <2>2, Zenon
    <3>2. ticking = "handler"
      BY <1>1, <3>1 DEF IInv, ResumingByTask, PlacesKnown
    <3> QED
      BY <3>1, <3>2, Zenon DEF AskForSwitch, IInv, NeverPends
  <2> QED
    BY <2>1, <2>2
<1>8. PlacesKnown' /\ ResumingByTask'
  <2>1. pendSV' \in BOOLEAN
    BY <1>7, Zenon DEF IInv, PlacesKnown
  <2> QED
    BY <1>1, <2>1 DEF IInv, PlacesKnown, ResumingByTask
<1>9. BeforeStart' /\ OneThread' /\ SuspendedByOne'
  BY <1>1, <1>5 DEF IInv, BeforeStart, OneThread, SuspendedByOne
<1>10. SwitchFindsNobody'
  BY <1>1, <1>7 DEF IInv, OneThread, SwitchFindsNobody
<1> QED
  BY <1>4, <1>7, <1>8, <1>9, <1>10 DEF IInv, NeverPends

LEMMA TickDoneHolds == IInv /\ TickDone => IInv'
<1> SUFFICES ASSUME IInv, TickDone PROVE IInv'
  OBVIOUS
<1>1. /\ UNCHANGED <<pxCurrentTCB, xSchedulerRunning, created, uxSchedulerSuspended, pc,
                     pxDelayedTaskList, pxOverflowDelayedTaskList, xPendedTicks>>
      /\ ticking' = "nobody"
  BY Zenon DEF TickDone, bootVars, sleepVars
<1>2. xYieldPending' = FALSE /\ UNCHANGED pendSV
  BY Zenon DEF TickDone, IInv, NeverPends
<1>3. PlacesKnown' /\ SleepersAreApps' /\ ResumingByTask'
  BY <1>1, <1>2 DEF IInv, PlacesKnown, SleepersAreApps, ResumingByTask
<1>4. BeforeStart'
  BY <1>1, <1>2 DEF IInv, BeforeStart
<1>5. OneThread' /\ SwitchFindsNobody' /\ SuspendedByOne'
  BY <1>1, <1>2 DEF IInv, OneThread, SwitchFindsNobody, SuspendedByOne
<1> QED
  BY <1>2, <1>3, <1>4, <1>5 DEF IInv, NeverPends

LEMMA CreateHolds == IInv /\ prvAddNewTaskToReadyList => IInv'
<1> SUFFICES ASSUME IInv, prvAddNewTaskToReadyList PROVE IInv'
  OBVIOUS
<1>1. /\ UNCHANGED <<xSchedulerRunning, uxSchedulerSuspended, pc, pendSV, ticking, xYieldPending,
                     pxDelayedTaskList, pxOverflowDelayedTaskList, xPendedTicks>>
      /\ ticking = "nobody" /\ created < Len(Created)
  BY Zenon DEF prvAddNewTaskToReadyList, sleepVars, tickVars
<1>2. xSchedulerRunning = FALSE
  <2>1. Len(Created) \in Nat
    BY SchedulerAssumption DEF Created
  <2>2. created # Len(Created)
    BY <1>1, <2>1
  <2> QED
    BY <2>2, Zenon DEF IInv, BeforeStart, PlacesKnown
<1>3. \A t \in Tasks : pc[t] = "off"
  BY <1>2, Zenon DEF IInv, BeforeStart
<1>4. PlacesKnown' /\ SleepersAreApps' /\ ResumingByTask'
  BY <1>1 DEF IInv, PlacesKnown, SleepersAreApps, ResumingByTask
<1>5. BeforeStart'
  BY <1>1, <1>2, Zenon DEF IInv, BeforeStart
<1>6. OneThread' /\ SwitchFindsNobody' /\ SuspendedByOne' /\ NeverPends'
  BY <1>1, <1>3, PriorityOfAll DEF IInv, OneThread, SwitchFindsNobody, SuspendedByOne, NeverPends
<1> QED
  BY <1>4, <1>5, <1>6 DEF IInv

LEMMA StartHolds == IInv /\ vTaskStartScheduler => IInv'
<1> SUFFICES ASSUME IInv, vTaskStartScheduler PROVE IInv'
  OBVIOUS
<1>1. /\ UNCHANGED <<pxCurrentTCB, created, uxSchedulerSuspended, pendSV, ticking, xYieldPending,
                     pxDelayedTaskList, pxOverflowDelayedTaskList, xPendedTicks>>
      /\ ticking = "nobody" /\ created = Len(Created) /\ xSchedulerRunning = FALSE
      /\ xSchedulerRunning' = TRUE /\ pc' = [pc EXCEPT ![pxCurrentTCB] = "turn"]
  BY Zenon DEF vTaskStartScheduler, sleepVars, IInv, PlacesKnown
<1>2. pendSV = FALSE /\ \A t \in Tasks : pc[t] = "off"
  BY <1>1, Zenon DEF IInv, BeforeStart
<1>3. /\ pc' \in [Tasks -> Places]
      /\ \A t \in Tasks : pc'[t] = IF t = pxCurrentTCB THEN "turn" ELSE "off"
  BY <1>1, <1>2 DEF IInv, PlacesKnown, Places
<1>4. PlacesKnown' /\ SleepersAreApps' /\ ResumingByTask'
  <2>1. xSchedulerRunning' \in BOOLEAN
    BY <1>1, Zenon
  <2> QED
    BY <1>1, <1>3, <2>1 DEF IInv, PlacesKnown, SleepersAreApps, ResumingByTask
<1>5. BeforeStart' /\ SwitchFindsNobody' /\ NeverPends'
  BY <1>1, <1>2, Zenon DEF IInv, BeforeStart, SwitchFindsNobody, NeverPends
<1>6. OneThread'
  BY <1>1, <1>3, PriorityOfAll DEF OneThread
<1>7. SuspendedByOne'
  BY <1>1, <1>2, <1>3 DEF IInv, SuspendedByOne
<1> QED
  BY <1>4, <1>5, <1>6, <1>7 DEF IInv

(* The new task goes on where it was: nowhere but at the begin of a turn. *)
LEMMA SwitchHolds == IInv /\ vTaskSwitchContext => IInv'
<1> SUFFICES ASSUME IInv, vTaskSwitchContext PROVE IInv'
  OBVIOUS
<1> DEFINE t == pxCurrentTCB'
<1>1. /\ UNCHANGED <<xSchedulerRunning, created, uxSchedulerSuspended, ticking,
                     pxDelayedTaskList, pxOverflowDelayedTaskList, xPendedTicks>>
      /\ ticking = "nobody" /\ pendSV = TRUE /\ pendSV' = FALSE
  BY Zenon DEF vTaskSwitchContext, bootVars, sleepVars, tickVars, IInv, PlacesKnown
<1>2. /\ \A u \in Tasks \ {IdleTask} : pc[u] = "off"
      /\ pc[IdleTask] \in {"off", "turn"}
  BY <1>1 DEF IInv, SwitchFindsNobody, OneThread
<1>3. uxSchedulerSuspended = 0
  BY <1>2 DEF IInv, SuspendedByOne
<1>4. xYieldPending' = FALSE /\ taskSELECT_HIGHEST_PRIORITY_TASK
  BY <1>3, Zenon DEF vTaskSwitchContext
<1>5. pc' = [pc EXCEPT ![t] = IF pc[t] = "off" THEN "turn" ELSE pc[t]]
  BY <1>4, Zenon DEF taskSELECT_HIGHEST_PRIORITY_TASK, Goto
<1>6. /\ pc' \in [Tasks -> Places]
      /\ \A u \in Tasks \ {IdleTask} : pc'[u] = IF u = t THEN "turn" ELSE "off"
      /\ pc'[IdleTask] \in {"off", "turn"}
  <2> HIDE DEF t
  <2> QED
    BY <1>2, <1>5, PriorityOfAll DEF IInv, PlacesKnown, Places
<1>7. xSchedulerRunning = TRUE
  BY <1>1, Zenon DEF IInv, BeforeStart, PlacesKnown
<1>8. PlacesKnown' /\ SleepersAreApps' /\ ResumingByTask'
  <2>1. pendSV' \in BOOLEAN
    BY <1>1, Zenon
  <2> QED
    BY <1>1, <1>6, <2>1 DEF IInv, PlacesKnown, SleepersAreApps, ResumingByTask
<1>9. BeforeStart' /\ SwitchFindsNobody' /\ NeverPends'
  BY <1>1, <1>4, <1>7, Zenon DEF IInv, BeforeStart, SwitchFindsNobody, NeverPends
<1>10. OneThread'
  BY <1>6 DEF OneThread
<1>11. SuspendedByOne'
  BY <1>1, <1>3, <1>6 DEF SuspendedByOne
<1> QED
  BY <1>8, <1>9, <1>10, <1>11 DEF IInv

LEMMA NextHolds == IInv /\ [Next]_vars => IInv'
<1> SUFFICES ASSUME IInv, [Next]_vars PROVE IInv'
  OBVIOUS
<1>1. CASE \E t \in Tasks : Step(t)
  BY <1>1, StepHolds
<1>2. CASE UNCHANGED vars
  BY <1>2 DEF vars, bootVars, sleepVars, tickVars, IInv, PlacesKnown, SleepersAreApps, BeforeStart, OneThread,
              SwitchFindsNobody, SuspendedByOne, NeverPends, ResumingByTask
<1> QED
  BY <1>1, <1>2, CreateHolds, StartHolds, SwitchHolds, HandlerHolds, WakeHolds, TickDoneHolds
     DEF Next, Processor, Tick

(* The invariant of the kernel. *)
THEOREM KernelInvariant == Spec => []IInv
BY InitHolds, NextHolds, PTL DEF Spec

(* A task of the application keeps the processor until its vTaskDelay has given
   it up, for every number of tasks and whatever the tick interrupts. *)
THEOREM TasksCooperate == Spec => Cooperative
<1> DEFINE C == xSchedulerRunning /\ pxCurrentTCB \in AppTasks /\ pxCurrentTCB' # pxCurrentTCB
                  => pc[pxCurrentTCB] = "off"
<1>1. IInv /\ [Next]_vars => [C]_vars
  <2> SUFFICES ASSUME IInv, Next, xSchedulerRunning, pxCurrentTCB \in AppTasks,
                      pxCurrentTCB' # pxCurrentTCB
               PROVE  pc[pxCurrentTCB] = "off"
    OBVIOUS
  <2>1. ~prvAddNewTaskToReadyList
    <3>1. created = Len(Created)
      BY Zenon DEF IInv, BeforeStart
    <3>2. Len(Created) \in Nat
      BY SchedulerAssumption DEF Created
    <3>3. prvAddNewTaskToReadyList => created < Len(Created)
      BY Zenon DEF prvAddNewTaskToReadyList
    <3> QED
      BY <3>1, <3>2, <3>3
  <2>2. ~vTaskStartScheduler
    BY Zenon DEF vTaskStartScheduler
  <2>3. ~\E t \in Tasks : Step(t)
    BY Zenon DEF Step, vTaskSuspendAll, prvAddCurrentTaskToDelayedList, xTaskResumeAll, UnwindTick,
             CountTick, Resumed, vPortYield
  <2>4. ~Tick
    BY Zenon DEF Tick, SysTick_Handler, CountTick, WakeOne, TickDone
  <2>5. pendSV
    BY <2>1, <2>2, <2>3, <2>4, Zenon DEF Next, Processor, vTaskSwitchContext
  <2> QED
    BY <2>5, PriorityOfAll, SchedulerAssumption DEF IInv, SwitchFindsNobody
<1> HIDE DEF C
<1>2. Spec => [][C]_vars
  BY <1>1, KernelInvariant, PTL DEF Spec
<1> QED
  BY <1>2 DEF Cooperative, C

--------------------------------------------------------------------------------
CountsKnown ==
  /\ xTickCount \in 0 .. MaxTick /\ beats \in 0 .. MaxTick /\ xPendedTicks \in 0 .. MaxPended

LEMMA Widths == MaxTick \in Nat \ {0} /\ MaxPended \in 0 .. MaxTick
BY SchedulerAssumption, Zenon

LEMMA OneLaterInRange == \A n \in 0 .. MaxTick : OneLater(n) \in 0 .. MaxTick
BY Widths DEF OneLater

(* The count that n ticks add up to from c on, as the counter's width holds it. *)
LEMMA OneMoreTick ==
  ASSUME CountsKnown, TickCountKeepsUp, xSchedulerRunning
  PROVE  (* counted at once *)
         /\ OneLater(beats) = IF OneLater(xTickCount) + xPendedTicks > MaxTick
                              THEN OneLater(xTickCount) + xPendedTicks - MaxTick - 1
                              ELSE OneLater(xTickCount) + xPendedTicks
         (* pended *)
         /\ xPendedTicks < MaxPended =>
              OneLater(beats) = IF xTickCount + xPendedTicks + 1 > MaxTick
                                THEN xTickCount + xPendedTicks - MaxTick
                                ELSE xTickCount + xPendedTicks + 1
         (* a pended one counted *)
         /\ xPendedTicks > 0 =>
              beats = IF OneLater(xTickCount) + (xPendedTicks - 1) > MaxTick
                      THEN OneLater(xTickCount) + (xPendedTicks - 1) - MaxTick - 1
                      ELSE OneLater(xTickCount) + (xPendedTicks - 1)
BY Widths DEF CountsKnown, TickCountKeepsUp, OneLater

Counted == CountsKnown /\ TickCountKeepsUp

LEMMA CountedNext == IInv /\ Counted /\ [Next]_vars => Counted'
<1> SUFFICES ASSUME IInv, Counted, [Next]_vars PROVE Counted'
  OBVIOUS
<1> DEFINE Same == UNCHANGED <<xTickCount, beats, xPendedTicks, xSchedulerRunning>>
<1>0. /\ MaxTick \in Nat /\ MaxPended \in Nat
      /\ OneLater(xTickCount) \in 0 .. MaxTick /\ OneLater(beats) \in 0 .. MaxTick
      /\ xPendedTicks \in 0 .. MaxPended
  BY OneLaterInRange, Widths DEF Counted, CountsKnown
<1>1. Same => Counted'
  BY DEF Counted, CountsKnown, TickCountKeepsUp
<1>2. CASE UNCHANGED vars
  BY <1>1, <1>2, Zenon DEF vars, bootVars, tickVars
<1>3. CASE prvAddNewTaskToReadyList
  <2>1. UNCHANGED tickVars /\ UNCHANGED xSchedulerRunning
    BY <1>3, Zenon DEF prvAddNewTaskToReadyList
  <2> QED
    BY <1>1, <2>1, Zenon DEF tickVars
<1>4. CASE vTaskStartScheduler
  <2>1. xTickCount' = 0 /\ beats' = 0 /\ xPendedTicks' = 0
    BY <1>4, Zenon DEF vTaskStartScheduler, IInv, BeforeStart
  <2> QED
    BY <2>1, Widths DEF Counted, CountsKnown, TickCountKeepsUp
<1>5. CASE vTaskSwitchContext
  BY <1>1, <1>5, Zenon DEF vTaskSwitchContext, bootVars, tickVars
<1>6. ASSUME NEW t \in Tasks, Step(t) PROVE Counted'
  <2>1. CASE UnwindTick(t)
    <3>1. /\ xTickCount' = OneLater(xTickCount) /\ UNCHANGED <<beats, xSchedulerRunning>>
          /\ xPendedTicks > 0 /\ xPendedTicks' = xPendedTicks - 1 /\ xSchedulerRunning
      BY <2>1, Zenon DEF UnwindTick, CountTick, Thread, bootVars
    <3>2. CountsKnown'
      BY <1>0, <3>1 DEF Counted, CountsKnown
    <3>3. TickCountKeepsUp'
      BY <3>1, OneMoreTick, Zenon DEF Counted, TickCountKeepsUp
    <3> QED
      BY <3>2, <3>3 DEF Counted
  <2>2. CASE ~UnwindTick(t)
    BY <1>1, <1>6, <2>2, Zenon
       DEF Step, vTaskSuspendAll, prvAddCurrentTaskToDelayedList, xTaskResumeAll, Resumed,
           vPortYield, bootVars, tickVars
  <2> QED
    BY <2>1, <2>2
<1>7. CASE SysTick_Handler
  <2>1. beats' = OneLater(beats) /\ UNCHANGED xSchedulerRunning
    BY <1>7, Zenon DEF SysTick_Handler, CountTick, bootVars
  <2>2. \/ xTickCount' = OneLater(xTickCount) /\ UNCHANGED xPendedTicks
        \/ UNCHANGED xTickCount /\ xPendedTicks < MaxPended /\ xPendedTicks' = xPendedTicks + 1
    BY <1>7, Zenon DEF SysTick_Handler, CountTick
  <2>3. CountsKnown'
    BY <1>0, <2>1, <2>2 DEF Counted, CountsKnown
  <2>4. TickCountKeepsUp'
    <3>1. xTickCount \in Nat /\ xPendedTicks \in Nat /\ MaxTick \in Nat
      BY <1>0 DEF Counted, CountsKnown
    <3>2. CASE xSchedulerRunning /\ xTickCount' = OneLater(xTickCount) /\ UNCHANGED xPendedTicks
      BY <2>1, <3>2, OneMoreTick, Zenon DEF Counted, TickCountKeepsUp
    <3>3. CASE xSchedulerRunning /\ UNCHANGED xTickCount /\ xPendedTicks < MaxPended
               /\ xPendedTicks' = xPendedTicks + 1
      <4>1. /\ (xTickCount' + xPendedTicks' > MaxTick) = (xTickCount + xPendedTicks + 1 > MaxTick)
            /\ xTickCount' + xPendedTicks' - MaxTick - 1 = xTickCount + xPendedTicks - MaxTick
            /\ xTickCount' + xPendedTicks' = xTickCount + xPendedTicks + 1
        BY <3>1, <3>3
      <4> QED
        BY <2>1, <3>3, <4>1, OneMoreTick, Zenon DEF Counted, TickCountKeepsUp
    <3>4. CASE ~xSchedulerRunning
      BY <2>1, <3>4, Zenon DEF TickCountKeepsUp
    <3> QED
      BY <2>2, <3>2, <3>3, <3>4
  <2> QED
    BY <2>3, <2>4 DEF Counted
<1>8. CASE WakeOne \/ TickDone
  BY <1>1, <1>8, Zenon DEF WakeOne, TickDone, bootVars, tickVars
<1> QED
  BY <1>2, <1>3, <1>4, <1>5, <1>6, <1>7, <1>8 DEF Next, Processor, Tick

LEMMA CountedInvariant == Spec => []Counted
<1>1. Init => Counted
  <2>1. ASSUME Init PROVE xTickCount = 0 /\ beats = 0 /\ xPendedTicks = 0
    BY <2>1, Zenon DEF Init
  <2> QED
    BY <2>1, Widths DEF Counted, CountsKnown, TickCountKeepsUp
<1> QED
  BY <1>1, CountedNext, KernelInvariant, PTL DEF Spec

(* No tick is lost, for every width of the count and every number of ticks pended
   that the width can tell apart. *)
THEOREM NoTickIsLost == Spec => []TickCountKeepsUp
BY CountedInvariant, PTL DEF Counted

--------------------------------------------------------------------------------
(* The lists of the kernel.  A list with one item more (Put) is what every       *)
(* operation on them leaves, or what it was left from.                           *)

(* d is c with x put in as its item number k; read the other way round, c is what
   removing that item leaves of d. *)
Put(d, c, k, x) ==
  /\ k \in 1 .. Len(c) + 1
  /\ Len(d) = Len(c) + 1
  /\ d[k] = x
  /\ \A i \in 1 .. Len(c) : d[IF i < k THEN i ELSE i + 1] = c[i]

Distinct(s) == \A i, j \in 1 .. Len(s) : s[i] = s[j] => i = j

Before(s, x, y) == \E i, j \in 1 .. Len(s) : i < j /\ s[i] = x /\ s[j] = y

LEMMA RangeOfList ==
  ASSUME NEW S, NEW s \in Seq(S)
  PROVE  /\ Range(s) \subseteq S
         /\ \A x : x \in Range(s) <=> \E i \in 1 .. Len(s) : s[i] = x
BY DEF Range

LEMMA PutPlaces ==
  ASSUME NEW S, NEW c \in Seq(S), NEW d \in Seq(S), NEW k, NEW x, Put(d, c, k, x)
  PROVE  \A j \in 1 .. Len(d) : d[j] = IF j < k THEN c[j] ELSE IF j = k THEN x ELSE c[j - 1]
<1> TAKE j \in 1 .. Len(d)
<1>0. Len(c) \in Nat /\ Len(d) = Len(c) + 1 /\ k \in 1 .. Len(c) + 1
  BY DEF Put
<1>1. CASE j < k
  <2>1. j \in 1 .. Len(c)
    BY <1>0, <1>1
  <2> QED
    BY <1>1, <2>1 DEF Put
<1>2. CASE j = k
  BY <1>0, <1>2 DEF Put
<1>3. CASE j > k
  <2>1. j - 1 \in 1 .. Len(c) /\ ~(j - 1 < k) /\ (j - 1) + 1 = j
    BY <1>0, <1>3
  <2>2. d[IF j - 1 < k THEN j - 1 ELSE (j - 1) + 1] = c[j - 1]
    BY <2>1 DEF Put
  <2> QED
    BY <1>0, <1>3, <2>1, <2>2
<1> QED
  BY <1>0, <1>1, <1>2, <1>3

LEMMA PutContents ==
  ASSUME NEW S, NEW c \in Seq(S), NEW d \in Seq(S), NEW k, NEW x, Put(d, c, k, x)
  PROVE  /\ Range(d) = Range(c) \union {x}
         /\ Distinct(d) <=> Distinct(c) /\ x \notin Range(c)
<1>0. /\ Len(c) \in Nat /\ Len(d) = Len(c) + 1 /\ k \in 1 .. Len(c) + 1 /\ d[k] = x
      /\ \A i \in 1 .. Len(c) : d[IF i < k THEN i ELSE i + 1] = c[i]
  BY DEF Put
<1>1. \A j \in 1 .. Len(d) : d[j] = IF j < k THEN c[j] ELSE IF j = k THEN x ELSE c[j - 1]
  BY PutPlaces
<1>2. \A j \in 1 .. Len(d) : d[j] \in Range(c) \union {x}
  <2> TAKE j \in 1 .. Len(d)
  <2>1. /\ j < k => j \in 1 .. Len(c) /\ d[j] = c[j]
        /\ j = k => d[j] = x
        /\ j > k => j - 1 \in 1 .. Len(c) /\ d[j] = c[j - 1]
    BY <1>0, <1>1
  <2>2. j < k \/ j = k \/ j > k
    BY <1>0
  <2> QED
    BY <2>1, <2>2, RangeOfList
<1>3. \A i \in 1 .. Len(c) : (IF i < k THEN i ELSE i + 1) \in 1 .. Len(d)
  BY <1>0
<1>4. \A i \in 1 .. Len(c) : c[i] \in Range(d)
  BY <1>0, <1>3, RangeOfList
<1>5. k \in 1 .. Len(d)
  BY <1>0
<1>6. x \in Range(d)
  BY <1>0, <1>5, RangeOfList
<1>7. Range(d) = Range(c) \union {x}
  BY <1>2, <1>4, <1>6, RangeOfList
<1>8. ASSUME Distinct(d) PROVE Distinct(c) /\ x \notin Range(c)
  <2>1. ASSUME NEW i \in 1 .. Len(c), NEW j \in 1 .. Len(c), c[i] = c[j] PROVE i = j
    <3>1. (IF i < k THEN i ELSE i + 1) = (IF j < k THEN j ELSE j + 1)
      BY <1>0, <1>3, <1>8, <2>1 DEF Distinct
    <3> QED
      BY <1>0, <3>1
  <2>2. ASSUME NEW i \in 1 .. Len(c), c[i] = x PROVE FALSE
    <3>1. (IF i < k THEN i ELSE i + 1) = k
      BY <1>0, <1>3, <1>5, <1>8, <2>2 DEF Distinct
    <3> QED
      BY <1>0, <3>1
  <2> QED
    BY <2>1, <2>2, RangeOfList DEF Distinct
<1>9. ASSUME Distinct(c), x \notin Range(c) PROVE Distinct(d)
  <2> SUFFICES ASSUME NEW i \in 1 .. Len(d), NEW j \in 1 .. Len(d), d[i] = d[j] PROVE i = j
    BY DEF Distinct
  <2>1. \A m \in 1 .. Len(c) : c[m] # x
    BY <1>9, RangeOfList
  <2> DEFINE a == IF i < k THEN i ELSE i - 1
             b == IF j < k THEN j ELSE j - 1
  <2>2. /\ i # k => a \in 1 .. Len(c) /\ d[i] = c[a]
        /\ j # k => b \in 1 .. Len(c) /\ d[j] = c[b]
    BY <1>0, <1>1
  <2>3. i = k <=> j = k
    BY <1>0, <2>1, <2>2
  <2>4. CASE i # k
    <3>1. a = b
      BY <1>9, <2>2, <2>3, <2>4 DEF Distinct
    <3> QED
      BY <1>0, <2>3, <2>4, <3>1
  <2> QED
    BY <2>3, <2>4
<1> QED
  BY <1>7, <1>8, <1>9

LEMMA PutOrder ==
  ASSUME NEW S, NEW c \in Seq(S), NEW d \in Seq(S), NEW k, NEW x, Put(d, c, k, x),
         NEW u, NEW v, u # x, v # x
  PROVE  Before(d, u, v) <=> Before(c, u, v)
<1>0. /\ Len(c) \in Nat /\ Len(d) = Len(c) + 1 /\ k \in 1 .. Len(c) + 1 /\ d[k] = x
      /\ \A i \in 1 .. Len(c) : d[IF i < k THEN i ELSE i + 1] = c[i]
  BY DEF Put
<1>1. \A j \in 1 .. Len(d) : d[j] = IF j < k THEN c[j] ELSE IF j = k THEN x ELSE c[j - 1]
  BY PutPlaces
<1>2. ASSUME Before(c, u, v) PROVE Before(d, u, v)
  <2>1. PICK i, j \in 1 .. Len(c) : i < j /\ c[i] = u /\ c[j] = v
    BY <1>2 DEF Before
  <2> DEFINE a == IF i < k THEN i ELSE i + 1
             b == IF j < k THEN j ELSE j + 1
  <2>2. a \in 1 .. Len(d) /\ b \in 1 .. Len(d) /\ a < b /\ d[a] = u /\ d[b] = v
    BY <1>0, <2>1
  <2> QED
    BY <2>2 DEF Before
<1>3. ASSUME Before(d, u, v) PROVE Before(c, u, v)
  <2>1. PICK i, j \in 1 .. Len(d) : i < j /\ d[i] = u /\ d[j] = v
    BY <1>3 DEF Before
  <2> DEFINE a == IF i < k THEN i ELSE i - 1
             b == IF j < k THEN j ELSE j - 1
  <2>2. i # k /\ j # k
    BY <1>0, <2>1
  <2>3. a \in 1 .. Len(c) /\ b \in 1 .. Len(c) /\ a < b /\ c[a] = u /\ c[b] = v
    BY <1>0, <1>1, <2>1, <2>2
  <2> QED
    BY <2>3 DEF Before
<1> QED
  BY <1>2, <1>3

(* The list operations of the kernel in these terms. *)
LEMMA InsertEndPuts ==
  ASSUME NEW S, NEW c \in Seq(S), c # <<>>, NEW x \in S
  PROVE  /\ listINSERT_END(c, x) \in Seq(S)
         /\ Put(listINSERT_END(c, x), c, Len(c), x)
<1> DEFINE a == SubSeq(c, 1, Len(c) - 1)
           b == <<x, c[Len(c)]>>
<1>1. Len(c) \in Nat \ {0} /\ c[Len(c)] \in S
  <2>1. Len(c) \in Nat /\ Len(c) # 0
    BY EmptySeq
  <2>2. Len(c) \in 1 .. Len(c)
    BY <2>1
  <2> QED
    BY <2>1, <2>2
<1>2. /\ a \in Seq(S) /\ Len(a) = Len(c) - 1
      /\ \A i \in 1 .. Len(c) - 1 : a[i] = c[i]
  BY <1>1
<1>3. b \in Seq(S) /\ Len(b) = 2 /\ b[1] = x /\ b[2] = c[Len(c)]
  BY <1>1
<1> HIDE DEF a, b
<1>4. /\ a \o b \in Seq(S) /\ Len(a \o b) = Len(c) + 1
      /\ \A i \in 1 .. Len(c) + 1 : (a \o b)[i] = IF i <= Len(c) - 1 THEN a[i] ELSE b[i - (Len(c) - 1)]
  <2>1. /\ a \o b \in Seq(S) /\ Len(a \o b) = Len(a) + Len(b)
        /\ \A i \in 1 .. Len(a) + Len(b) : (a \o b)[i] = IF i <= Len(a) THEN a[i] ELSE b[i - Len(a)]
    BY <1>2, <1>3, ConcatProperties
  <2>2. Len(a) + Len(b) = Len(c) + 1 /\ Len(a) = Len(c) - 1
    BY <1>1, <1>2, <1>3
  <2> QED
    BY <2>1, <2>2
<1>5. listINSERT_END(c, x) = a \o b
  BY Zenon DEF listINSERT_END, a, b
<1> DEFINE d == a \o b
<1>6. d[Len(c)] = x /\ d[Len(c) + 1] = c[Len(c)] /\ \A i \in 1 .. Len(c) - 1 : d[i] = c[i]
  BY <1>1, <1>2, <1>3, <1>4
<1>7. \A i \in 1 .. Len(c) : d[IF i < Len(c) THEN i ELSE i + 1] = c[i]
  <2> HIDE DEF d
  <2> TAKE i \in 1 .. Len(c)
  <2>1. CASE i < Len(c)
    BY <1>1, <1>6, <2>1
  <2>2. CASE ~(i < Len(c))
    <3>1. i = Len(c)
      BY <1>1, <2>2
    <3> QED
      BY <1>6, <2>2, <3>1
  <2> QED
    BY <2>1, <2>2
<1>8. Put(d, c, Len(c), x)
  BY <1>1, <1>4, <1>6, <1>7 DEF Put
<1> QED
  BY <1>4, <1>5, <1>8

LEMMA RemovePuts ==
  ASSUME NEW S, NEW c \in Seq(S), NEW x \in Range(c)
  PROVE  /\ uxListRemove(c, x) \in Seq(S)
         /\ \E k \in 1 .. Len(c) : Put(c, uxListRemove(c, x), k, x)
<1> DEFINE k == CHOOSE i \in 1 .. Len(c) : c[i] = x
           a == SubSeq(c, 1, k - 1)
           b == SubSeq(c, k + 1, Len(c))
           d == a \o b
<1>1. k \in 1 .. Len(c) /\ c[k] = x
  BY RangeOfList
<1> HIDE DEF k
<1>2. Len(c) \in Nat
  OBVIOUS
<1>3. a \in Seq(S) /\ Len(a) = k - 1 /\ \A i \in 1 .. k - 1 : a[i] = c[i]
  BY <1>1, <1>2
<1>4. b \in Seq(S) /\ Len(b) = Len(c) - k /\ \A i \in 1 .. Len(c) - k : b[i] = c[k + i]
  <2>1. \A i \in k + 1 .. Len(c) : c[i] \in S
    BY <1>1, <1>2
  <2>2. /\ b \in Seq(S) /\ Len(b) = IF k + 1 <= Len(c) THEN Len(c) - (k + 1) + 1 ELSE 0
        /\ \A i \in 1 .. Len(c) - (k + 1) + 1 : b[i] = c[(k + 1) + i - 1]
    BY <1>1, <1>2, <2>1, SubSeqProperties
  <2> QED
    BY <1>1, <1>2, <2>2
<1> HIDE DEF a, b
<1>5. /\ d \in Seq(S) /\ Len(d) = Len(c) - 1
      /\ \A i \in 1 .. Len(c) - 1 : d[i] = IF i <= k - 1 THEN a[i] ELSE b[i - (k - 1)]
  <2>1. /\ d \in Seq(S) /\ Len(d) = Len(a) + Len(b)
        /\ \A i \in 1 .. Len(a) + Len(b) : d[i] = IF i <= Len(a) THEN a[i] ELSE b[i - Len(a)]
    BY <1>3, <1>4, ConcatProperties
  <2>2. Len(a) + Len(b) = Len(c) - 1 /\ Len(a) = k - 1
    BY <1>1, <1>2, <1>3, <1>4
  <2> QED
    BY <2>1, <2>2
<1> HIDE DEF d
<1>6. \A i \in 1 .. Len(d) : d[i] = IF i < k THEN c[i] ELSE c[i + 1]
  <2> TAKE i \in 1 .. Len(d)
  <2>1. CASE i < k
    BY <1>1, <1>2, <1>3, <1>5, <2>1
  <2>2. CASE ~(i < k)
    <3>1. i - (k - 1) \in 1 .. Len(c) - k /\ k + (i - (k - 1)) = i + 1
      BY <1>1, <1>2, <1>5, <2>2
    <3> QED
      BY <1>1, <1>2, <1>4, <1>5, <2>2, <3>1
  <2> QED
    BY <2>1, <2>2
<1>7. Put(c, d, k, x)
  <2>1. k \in 1 .. Len(d) + 1 /\ Len(c) = Len(d) + 1
    BY <1>1, <1>2, <1>5
  <2>2. \A i \in 1 .. Len(d) : c[IF i < k THEN i ELSE i + 1] = d[i]
    BY <1>6
  <2> QED
    BY <1>1, <2>1, <2>2 DEF Put
<1>8. uxListRemove(c, x) = d
  BY Zenon DEF uxListRemove, d, a, b, k
<1> QED
  BY <1>1, <1>5, <1>7, <1>8

LEMMA TailPuts ==
  ASSUME NEW S, NEW c \in Seq(S), c # <<>>
  PROVE  /\ Tail(c) \in Seq(S) /\ Head(c) \in S /\ Head(c) = c[1]
         /\ Put(c, Tail(c), 1, Head(c))
<1>1. Head(c) = c[1]
  OBVIOUS
<1>2. Len(c) \in Nat \ {0}
  BY EmptySeq
<1>3. Head(c) \in S /\ Tail(c) \in Seq(S) /\ Len(Tail(c)) = Len(c) - 1
      /\ \A i \in 1 .. Len(Tail(c)) : Tail(c)[i] = c[i + 1]
  BY HeadTailProperties
<1> QED
  BY <1>1, <1>2, <1>3 DEF Put

(* Who comes before whom in a list without repetition. *)
LEMMA OrderFacts ==
  ASSUME NEW S, NEW s \in Seq(S), Distinct(s)
  PROVE  /\ \A x, y : Before(s, x, y) => x \in Range(s) /\ y \in Range(s) /\ x # y
         /\ \A x, y \in Range(s) : x # y => Before(s, x, y) \/ Before(s, y, x)
         /\ \A x, y : ~(Before(s, x, y) /\ Before(s, y, x))
         /\ \A y : ~Before(s, s[Len(s)], y)
         /\ \A x \in Range(s) : x # s[Len(s)] => Before(s, x, s[Len(s)])
         /\ \A y : ~Before(s, y, s[1])
<1>1. Len(s) \in Nat
  OBVIOUS
<1>2. ASSUME NEW x, NEW y, Before(s, x, y) PROVE x \in Range(s) /\ y \in Range(s) /\ x # y
  <2>1. PICK i, j \in 1 .. Len(s) : i < j /\ s[i] = x /\ s[j] = y
    BY <1>2 DEF Before
  <2>2. i # j
    BY <2>1
  <2> QED
    BY <2>1, <2>2, RangeOfList DEF Distinct
<1>3. ASSUME NEW x \in Range(s), NEW y \in Range(s), x # y PROVE Before(s, x, y) \/ Before(s, y, x)
  <2>1. PICK i \in 1 .. Len(s) : s[i] = x
    BY RangeOfList
  <2>2. PICK j \in 1 .. Len(s) : s[j] = y
    BY RangeOfList
  <2>3. i < j \/ j < i
    BY <1>3, <2>1, <2>2
  <2> QED
    BY <2>1, <2>2, <2>3 DEF Before
<1>4. ASSUME NEW x, NEW y, Before(s, x, y), Before(s, y, x) PROVE FALSE
  <2>1. PICK i, j \in 1 .. Len(s) : i < j /\ s[i] = x /\ s[j] = y
    BY <1>4 DEF Before
  <2>2. PICK m, n \in 1 .. Len(s) : m < n /\ s[m] = y /\ s[n] = x
    BY <1>4 DEF Before
  <2>3. i = n /\ j = m
    BY <2>1, <2>2 DEF Distinct
  <2> QED
    BY <2>1, <2>2, <2>3
<1>5. ASSUME NEW y, Before(s, s[Len(s)], y) PROVE FALSE
  <2>1. PICK i, j \in 1 .. Len(s) : i < j /\ s[i] = s[Len(s)] /\ s[j] = y
    BY <1>5 DEF Before
  <2>2. Len(s) \in 1 .. Len(s)
    BY <1>1, <2>1
  <2>3. i = Len(s)
    BY <2>1, <2>2 DEF Distinct
  <2> QED
    BY <1>1, <2>1, <2>3
<1>6. ASSUME NEW x \in Range(s), x # s[Len(s)] PROVE Before(s, x, s[Len(s)])
  <2>1. PICK i \in 1 .. Len(s) : s[i] = x
    BY RangeOfList
  <2>2. i < Len(s) /\ Len(s) \in 1 .. Len(s)
    BY <1>1, <1>6, <2>1
  <2> QED
    BY <2>1, <2>2 DEF Before
<1>7. ASSUME NEW y, Before(s, y, s[1]) PROVE FALSE
  <2>1. PICK i, j \in 1 .. Len(s) : i < j /\ s[i] = y /\ s[j] = s[1]
    BY <1>7 DEF Before
  <2>2. 1 \in 1 .. Len(s)
    BY <1>1, <2>1
  <2>3. j = 1
    BY <2>1, <2>2 DEF Distinct
  <2> QED
    BY <1>1, <2>1, <2>3
<1> QED
  BY <1>2, <1>3, <1>4, <1>5, <1>6, <1>7

(* An item put in at the end comes before the last one and no other. *)
LEMMA InsertEndOrder ==
  ASSUME NEW S, NEW c \in Seq(S), c # <<>>, NEW x \in S, Distinct(c), x \notin Range(c),
         NEW y, Before(listINSERT_END(c, x), x, y)
  PROVE  y = c[Len(c)]
<1> DEFINE d == listINSERT_END(c, x)
<1>1. d \in Seq(S) /\ Put(d, c, Len(c), x)
  BY InsertEndPuts
<1> HIDE DEF d
<1>2. Distinct(d)
  BY <1>1, PutContents
<1>3. Len(d) = Len(c) + 1 /\ d[Len(c)] = x /\ Len(c) \in Nat \ {0}
  BY <1>1, EmptySeq DEF Put
<1>4. \A j \in 1 .. Len(d) : d[j] = IF j < Len(c) THEN c[j] ELSE IF j = Len(c) THEN x ELSE c[j - 1]
  BY <1>1, PutPlaces
<1>5. PICK i, j \in 1 .. Len(d) : i < j /\ d[i] = x /\ d[j] = y
  BY DEF Before, d
<1>6. i = Len(c)
  BY <1>2, <1>3, <1>5 DEF Distinct
<1>7. j = Len(c) + 1
  BY <1>3, <1>5, <1>6
<1> QED
  BY <1>3, <1>4, <1>5, <1>7

(* pxIndex moves on by one item: the first becomes the last. *)
LEMMA AdvanceMoves ==
  ASSUME NEW S, NEW c \in Seq(S), c # <<>>, Distinct(c)
  PROVE  /\ Advance(c) \in Seq(S) /\ Advance(c) # <<>> /\ Distinct(Advance(c))
         /\ Range(Advance(c)) = Range(c) /\ Len(Advance(c)) = Len(c)
         /\ Advance(c)[Len(c)] = Head(c) /\ Head(c) = c[1] /\ Head(c) \in Range(c)
         /\ \A u, v : u # Head(c) /\ v # Head(c) => (Before(Advance(c), u, v) <=> Before(c, u, v))
         /\ Len(c) > 1 => Head(Advance(c)) = c[2]
<1> DEFINE m == Tail(c)
           h == Head(c)
           d == m \o <<h>>
<1>1. m \in Seq(S) /\ h \in S /\ h = c[1] /\ Put(c, m, 1, h)
  BY TailPuts
<1>2. Len(m) \in Nat /\ Len(c) = Len(m) + 1 /\ \A i \in 1 .. Len(m) : m[i] = c[i + 1]
  BY <1>1, HeadTailProperties, EmptySeq
<1>3. <<h>> \in Seq(S) /\ Len(<<h>>) = 1 /\ <<h>>[1] = h
  BY <1>1
<1> HIDE DEF m, h
<1>4. /\ d \in Seq(S) /\ Len(d) = Len(m) + 1
      /\ \A i \in 1 .. Len(m) + 1 : d[i] = IF i <= Len(m) THEN m[i] ELSE <<h>>[i - Len(m)]
  <2>1. /\ d \in Seq(S) /\ Len(d) = Len(m) + Len(<<h>>)
        /\ \A i \in 1 .. Len(m) + Len(<<h>>) : d[i] = IF i <= Len(m) THEN m[i] ELSE <<h>>[i - Len(m)]
    BY <1>1, <1>3, ConcatProperties
  <2> QED
    BY <1>3, <2>1
<1> HIDE DEF d
<1>5. d[Len(m) + 1] = h /\ \A i \in 1 .. Len(m) : d[i] = m[i]
  BY <1>2, <1>3, <1>4
<1>6. Put(d, m, Len(m) + 1, h)
  <2>1. \A i \in 1 .. Len(m) : d[IF i < Len(m) + 1 THEN i ELSE i + 1] = m[i]
    BY <1>2, <1>5
  <2> QED
    BY <1>2, <1>4, <1>5, <2>1 DEF Put
<1>7. /\ Range(c) = Range(m) \union {h} /\ Distinct(m) /\ h \notin Range(m)
      /\ Range(d) = Range(m) \union {h} /\ Distinct(d)
  BY <1>1, <1>4, <1>6, PutContents
<1>8. \A u, v : u # h /\ v # h => (Before(d, u, v) <=> Before(c, u, v))
  BY <1>1, <1>4, <1>6, PutOrder
<1>9. Advance(c) = d
  BY Zenon DEF Advance, d, m, h
<1>10. d # <<>>
  BY <1>2, <1>4
<1>11. Len(c) > 1 => Head(d) = c[2]
  <2> HAVE Len(c) > 1
  <2>1. Head(d) = d[1] /\ 1 \in 1 .. Len(m)
    BY <1>2, <1>4, <1>10
  <2> QED
    BY <1>2, <1>5, <2>1
<1>12. d[Len(c)] = h /\ h \in Range(c) /\ Len(d) = Len(c)
  BY <1>2, <1>4, <1>5, <1>7
<1> QED
  BY <1>1, <1>4, <1>7, <1>8, <1>9, <1>10, <1>11, <1>12 DEF h

(* Who is next: the first item, or the second if the first is the list's end.  In
   the second case everyone else is now before the end. *)
LEMMA NextEntry ==
  ASSUME NEW S, NEW c \in Seq(S), Distinct(c), End \in Range(c), c # <<End>>,
         NEW d, d = listGET_OWNER_OF_NEXT_ENTRY(c), NEW t, t = d[Len(d)]
  PROVE  /\ d \in Seq(S) /\ Distinct(d) /\ Range(d) = Range(c)
         /\ t \in Range(c) /\ t # End
         /\ \/ /\ \A u \in Range(c) \ {t} : Before(c, t, u)
               /\ \A u, v : u # t /\ v # t => (Before(d, u, v) <=> Before(c, u, v))
            \/ /\ \A u \in Range(c) \ {End} : Before(c, End, u)
               /\ \A u \in Range(c) \ {t, End} : Before(d, u, End)
               /\ \A u, v : u \notin {t, End} /\ v \notin {t, End}
                              => (Before(d, u, v) <=> Before(c, u, v))
<1> DEFINE e == Advance(c)
           f == Advance(e)
<1>1. c # <<>>
  BY RangeOfList
<1>2. /\ e \in Seq(S) /\ e # <<>> /\ Distinct(e) /\ Range(e) = Range(c) /\ Len(e) = Len(c)
      /\ e[Len(c)] = Head(c) /\ Head(c) = c[1] /\ Head(c) \in Range(c)
      /\ \A u, v : u # Head(c) /\ v # Head(c) => (Before(e, u, v) <=> Before(c, u, v))
      /\ Len(c) > 1 => Head(e) = c[2]
  BY <1>1, AdvanceMoves
<1> HIDE DEF e
<1>3. /\ f \in Seq(S) /\ f # <<>> /\ Distinct(f) /\ Range(f) = Range(e) /\ Len(f) = Len(e)
      /\ f[Len(e)] = Head(e) /\ Head(e) \in Range(e)
      /\ \A u, v : u # Head(e) /\ v # Head(e) => (Before(f, u, v) <=> Before(e, u, v))
  BY <1>2, AdvanceMoves
<1> HIDE DEF f
<1>4. /\ \A x, y \in Range(c) : x # y => Before(c, x, y) \/ Before(c, y, x)
      /\ \A y : ~Before(c, y, c[1])
  BY OrderFacts
<1>5. \A u \in Range(c) \ {Head(c)} : Before(c, Head(c), u)
  BY <1>2, <1>4
<1>6. CASE Head(c) # End
  <2>1. d = e
    BY <1>6, Zenon DEF listGET_OWNER_OF_NEXT_ENTRY, e
  <2>2. t = Head(c)
    BY <1>2, <2>1
  <2> QED
    BY <1>2, <1>5, <1>6, <2>1, <2>2
<1>7. CASE Head(c) = End
  <2>1. d = f
    BY <1>7, Zenon DEF listGET_OWNER_OF_NEXT_ENTRY, e, f
  <2>2. t = Head(e)
    BY <1>2, <1>3, <2>1
  <2>3. Len(c) > 1
    <3>1. Len(c) \in Nat /\ Len(c) # 0
      BY <1>1, EmptySeq
    <3>2. Len(c) = 1 => c = <<c[1]>>
      OBVIOUS
    <3> QED
      BY <1>2, <1>7, <3>1, <3>2
  <2>4. t # End
    <3>1. 1 \in 1 .. Len(c) /\ 2 \in 1 .. Len(c) /\ c[1] = End /\ t = c[2]
      BY <1>2, <1>7, <2>2, <2>3
    <3> QED
      BY <3>1 DEF Distinct
  <2>5. \A u \in Range(e) : u # End => Before(e, u, End)
    <3>1. e[Len(e)] = End
      BY <1>2, <1>7
    <3> QED
      BY <1>2, <3>1, OrderFacts
  <2>6. \A u \in Range(c) \ {t, End} : Before(d, u, End)
    BY <1>2, <1>3, <2>1, <2>2, <2>4, <2>5
  <2>7. \A u, v : u \notin {t, End} /\ v \notin {t, End} => (Before(d, u, v) <=> Before(c, u, v))
    BY <1>2, <1>3, <1>7, <2>1, <2>2
  <2> QED
    BY <1>2, <1>3, <1>5, <1>7, <2>1, <2>2, <2>4, <2>6, <2>7
<1> QED
  BY <1>6, <1>7

(* vListInsert puts a newcomer behind all that do not wake later. *)
LEMMA ListInsertPuts ==
  ASSUME NEW S, NEW s \in Seq(S), NEW t \in S, NEW value
  PROVE  /\ vListInsert(s, t, value) \in Seq(S)
         /\ \E k \in 1 .. Len(s) + 1 :
              /\ Put(vListInsert(s, t, value), s, k, t)
              /\ k - 1 = Cardinality({j \in 1 .. Len(s) : wake[s[j]] <= value})
<1> DEFINE before == {j \in 1 .. Len(s) : wake[s[j]] <= value}
           i == Cardinality(before)
           a == SubSeq(s, 1, i)
           b == SubSeq(s, i + 1, Len(s))
           ta == a \o <<t>>
           d == ta \o b
<1>1. Len(s) \in Nat
  OBVIOUS
<1>2. i \in Nat /\ i <= Len(s)
  <2>1. IsFiniteSet(1 .. Len(s)) /\ Cardinality(1 .. Len(s)) = Len(s)
    BY <1>1, FS_Interval, SMTT(20)
  <2> QED
    BY <2>1, FS_Subset, FS_CardinalityType
<1> HIDE DEF i, before
<1>3. a \in Seq(S) /\ Len(a) = i /\ \A j \in 1 .. i : a[j] = s[j]
  BY <1>1, <1>2
<1>4. b \in Seq(S) /\ Len(b) = Len(s) - i /\ \A j \in 1 .. Len(s) - i : b[j] = s[i + j]
  <2>1. \A j \in i + 1 .. Len(s) : s[j] \in S
    BY <1>1, <1>2
  <2>2. /\ b \in Seq(S) /\ Len(b) = IF i + 1 <= Len(s) THEN Len(s) - (i + 1) + 1 ELSE 0
        /\ \A j \in 1 .. Len(s) - (i + 1) + 1 : b[j] = s[(i + 1) + j - 1]
    BY <1>1, <1>2, <2>1, SubSeqProperties
  <2> QED
    BY <1>1, <1>2, <2>2
<1> HIDE DEF a, b
<1>5. ta \in Seq(S) /\ Len(ta) = i + 1 /\ ta[i + 1] = t /\ \A j \in 1 .. i : ta[j] = s[j]
  <2>1. <<t>> \in Seq(S) /\ Len(<<t>>) = 1 /\ <<t>>[1] = t
    OBVIOUS
  <2>2. /\ ta \in Seq(S) /\ Len(ta) = Len(a) + Len(<<t>>)
        /\ \A j \in 1 .. Len(a) + Len(<<t>>) : ta[j] = IF j <= Len(a) THEN a[j] ELSE <<t>>[j - Len(a)]
    BY <1>3, <2>1, ConcatProperties
  <2> HIDE DEF ta
  <2> QED
    BY <1>2, <1>3, <2>1, <2>2
<1> HIDE DEF ta
<1>6. /\ d \in Seq(S) /\ Len(d) = Len(s) + 1
      /\ \A j \in 1 .. Len(s) + 1 : d[j] = IF j <= i + 1 THEN ta[j] ELSE b[j - (i + 1)]
  <2>1. /\ d \in Seq(S) /\ Len(d) = Len(ta) + Len(b)
        /\ \A j \in 1 .. Len(ta) + Len(b) : d[j] = IF j <= Len(ta) THEN ta[j] ELSE b[j - Len(ta)]
    BY <1>4, <1>5, ConcatProperties
  <2>2. Len(ta) + Len(b) = Len(s) + 1 /\ Len(ta) = i + 1
    BY <1>1, <1>2, <1>4, <1>5
  <2> QED
    BY <2>1, <2>2
<1> HIDE DEF d
<1>7. d[i + 1] = t
  BY <1>1, <1>2, <1>5, <1>6
<1>8. \A j \in 1 .. Len(s) : d[IF j < i + 1 THEN j ELSE j + 1] = s[j]
  <2> TAKE j \in 1 .. Len(s)
  <2>1. CASE j < i + 1
    BY <1>1, <1>2, <1>5, <1>6, <2>1
  <2>2. CASE ~(j < i + 1)
    <3>1. (j + 1) - (i + 1) \in 1 .. Len(s) - i /\ i + ((j + 1) - (i + 1)) = j
          /\ j + 1 \in 1 .. Len(s) + 1 /\ ~(j + 1 <= i + 1)
      BY <1>1, <1>2, <2>2
    <3> QED
      BY <1>4, <1>6, <2>2, <3>1
  <2> QED
    BY <2>1, <2>2
<1>9. Put(d, s, i + 1, t) /\ i + 1 \in 1 .. Len(s) + 1 /\ (i + 1) - 1 = i
  BY <1>1, <1>2, <1>6, <1>7, <1>8 DEF Put
<1>10. vListInsert(s, t, value) = d
  <2>1. vListInsert(s, t, value) = a \o <<t>> \o b
    BY Zenon DEF vListInsert, i, before, a, b
  <2> QED
    BY <2>1, Zenon DEF d, ta
<1> QED
  BY <1>6, <1>9, <1>10 DEF i, before

--------------------------------------------------------------------------------
(* The ready lists. *)

Items == Tasks \union {End}

(* c is the ready list of priority p: a circle of End and of tasks of that priority. *)
ListOf(c, p) ==
  /\ c \in Seq(Items) /\ Distinct(c) /\ End \in Range(c)
  /\ \A t \in Range(c) \ {End} : t \in Tasks /\ uxPriority[t] = p

ReadyLists(r) ==
  /\ DOMAIN r = Priorities /\ r = [p \in Priorities |-> r[p]]
  /\ \A p \in Priorities : ListOf(r[p], p)

ReadyIn(r) == (UNION {Range(r[p]) : p \in Priorities}) \ {End}

LEMMA PriorityInRange ==
  /\ \A t \in Tasks : uxPriority[t] \in Priorities /\ t # End
  /\ Priorities \subseteq Int
BY SchedulerAssumption DEF uxPriority, Priorities

LEMMA ReadyInSome ==
  ASSUME NEW r
  PROVE  \A t : t \in ReadyIn(r) <=> t # End /\ \E p \in Priorities : t \in Range(r[p])
<1> DEFINE lists == {Range(r[p]) : p \in Priorities}
<1> TAKE t
<1>1. \A s : s \in lists <=> \E p \in Priorities : s = Range(r[p])
  OBVIOUS
<1>2. ReadyIn(r) = (UNION lists) \ {End}
  BY Zenon DEF ReadyIn
<1> HIDE DEF lists
<1>3. t \in UNION lists <=> \E s \in lists : t \in s
  OBVIOUS
<1>4. t \in UNION lists <=> \E p \in Priorities : t \in Range(r[p])
  BY <1>1, <1>3, Zenon
<1> QED
  BY <1>2, <1>4

LEMMA ReadyInOwnList ==
  ASSUME NEW r, ReadyLists(r)
  PROVE  \A t : t \in ReadyIn(r) <=> t \in Tasks /\ t \in Range(r[uxPriority[t]])
<1> TAKE t
<1>1. ASSUME t \in ReadyIn(r) PROVE t \in Tasks /\ t \in Range(r[uxPriority[t]])
  <2>1. PICK p \in Priorities : t \in Range(r[p]) /\ t # End
    BY <1>1, ReadyInSome
  <2>2. t \in Tasks /\ uxPriority[t] = p
    BY <2>1 DEF ReadyLists, ListOf
  <2> QED
    BY <2>1, <2>2
<1>2. ASSUME t \in Tasks, t \in Range(r[uxPriority[t]]) PROVE t \in ReadyIn(r)
  <2>1. uxPriority[t] \in Priorities /\ t # End
    BY <1>2, PriorityInRange
  <2> QED
    BY <1>2, <2>1, ReadyInSome
<1> QED
  BY <1>1, <1>2

(* What replacing one of the lists by another does to the tasks that are ready. *)
Replaced(r, p, c) == [r EXCEPT ![p] = c]

LEMMA ReplaceList ==
  ASSUME NEW r, ReadyLists(r), NEW p, p \in Priorities, NEW c, ListOf(c, p)
  PROVE  /\ ReadyLists(Replaced(r, p, c))
         /\ ReadyIn(Replaced(r, p, c)) = (ReadyIn(r) \ Range(r[p])) \union (Range(c) \ {End})
<1> DEFINE q == Replaced(r, p, c)
<1>1. DOMAIN q = Priorities /\ q = [o \in Priorities |-> q[o]] /\ q[p] = c /\ \A o \in Priorities : o # p => q[o] = r[o]
  BY DEF ReadyLists, Replaced
<1>2. ReadyLists(q)
  BY <1>1 DEF ReadyLists
<1>3. ASSUME NEW t
      PROVE  t \in ReadyIn(q) <=> t \in (ReadyIn(r) \ Range(r[p])) \union (Range(c) \ {End})
  <2>1. /\ t \in ReadyIn(q) <=> t \in Tasks /\ t \in Range(q[uxPriority[t]])
        /\ t \in ReadyIn(r) <=> t \in Tasks /\ t \in Range(r[uxPriority[t]])
    BY <1>2, ReadyInOwnList
  <2>2. t \in Tasks => uxPriority[t] \in Priorities /\ t # End
    BY PriorityInRange
  <2>3. t \in Tasks /\ uxPriority[t] # p => t \notin Range(r[p]) /\ t \notin Range(c) \ {End}
    BY <2>2 DEF ReadyLists, ListOf
  <2>4. t \notin Tasks => t \notin Range(c) \ {End}
    BY DEF ListOf
  <2>5. CASE t \in Tasks /\ uxPriority[t] = p
    BY <1>1, <2>1, <2>2, <2>5
  <2>6. CASE t \in Tasks /\ uxPriority[t] # p
    BY <1>1, <2>1, <2>2, <2>3, <2>6
  <2>7. CASE t \notin Tasks
    BY <2>1, <2>4, <2>7
  <2> QED
    BY <2>5, <2>6, <2>7
<1> QED
  BY <1>2, <1>3

LEMMA AddReady ==
  ASSUME NEW r, ReadyLists(r), NEW t \in Tasks, t \notin ReadyIn(r),
         NEW q, q = [r EXCEPT ![uxPriority[t]] = listINSERT_END(@, t)]
  PROVE  ReadyLists(q) /\ ReadyIn(q) = ReadyIn(r) \union {t}
<1> DEFINE p == uxPriority[t]
           c == r[p]
           d == listINSERT_END(c, t)
<1>1. p \in Priorities /\ t # End /\ t \in Items
  BY PriorityInRange DEF Items
<1>2. c \in Seq(Items) /\ Distinct(c) /\ End \in Range(c)
      /\ \A u \in Range(c) \ {End} : u \in Tasks /\ uxPriority[u] = p
  BY <1>1 DEF ReadyLists, ListOf
<1>3. t \notin Range(c)
  BY <1>1, ReadyInOwnList
<1>4. c # <<>>
  BY <1>2, RangeOfList
<1> HIDE DEF c
<1>5. d \in Seq(Items) /\ Put(d, c, Len(c), t)
  BY <1>1, <1>2, <1>4, InsertEndPuts
<1> HIDE DEF d
<1>6. Range(d) = Range(c) \union {t} /\ Distinct(d)
  BY <1>2, <1>3, <1>5, PutContents
<1>7. ListOf(d, p)
  BY <1>2, <1>5, <1>6 DEF ListOf
<1> HIDE DEF p
<1>8. q = Replaced(r, p, d)
  BY Zenon DEF Replaced, p, d, c
<1>9. /\ ReadyLists(Replaced(r, p, d))
      /\ ReadyIn(Replaced(r, p, d)) = (ReadyIn(r) \ Range(r[p])) \union (Range(d) \ {End})
  BY <1>1, <1>7, ReplaceList, Zenon
<1>10. Range(c) \ {End} \subseteq ReadyIn(r) /\ c = r[p] /\ End \notin ReadyIn(r)
  BY <1>1, ReadyInSome DEF c
<1> QED
  BY <1>1, <1>6, <1>8, <1>9, <1>10, ZenonT(30)

LEMMA DropReady ==
  ASSUME NEW r, ReadyLists(r), NEW t \in ReadyIn(r),
         NEW q, q = [r EXCEPT ![uxPriority[t]] = uxListRemove(@, t)]
  PROVE  ReadyLists(q) /\ ReadyIn(q) = ReadyIn(r) \ {t}
<1> DEFINE p == uxPriority[t]
           c == r[p]
           d == uxListRemove(c, t)
<1>1. t \in Tasks /\ t \in Range(c)
  BY ReadyInOwnList
<1>2. p \in Priorities /\ t # End
  BY <1>1, PriorityInRange
<1>3. c \in Seq(Items) /\ Distinct(c) /\ End \in Range(c)
      /\ \A u \in Range(c) \ {End} : u \in Tasks /\ uxPriority[u] = p
  BY <1>2 DEF ReadyLists, ListOf
<1> HIDE DEF c
<1>5. d \in Seq(Items) /\ \E k \in 1 .. Len(c) : Put(c, d, k, t)
  BY <1>1, <1>3, RemovePuts
<1> HIDE DEF d
<1>6. Range(c) = Range(d) \union {t} /\ Distinct(d) /\ t \notin Range(d)
  BY <1>3, <1>5, PutContents
<1>7. ListOf(d, p)
  BY <1>2, <1>3, <1>5, <1>6 DEF ListOf
<1> HIDE DEF p
<1>8. q = Replaced(r, p, d)
  BY Zenon DEF Replaced, p, d, c
<1>9. /\ ReadyLists(Replaced(r, p, d))
      /\ ReadyIn(Replaced(r, p, d)) = (ReadyIn(r) \ Range(r[p])) \union (Range(d) \ {End})
  BY <1>2, <1>7, ReplaceList, Zenon
<1>10. Range(c) \ {End} \subseteq ReadyIn(r) /\ c = r[p] /\ End \notin ReadyIn(r)
  BY <1>2, ReadyInSome DEF c
<1> QED
  BY <1>2, <1>6, <1>8, <1>9, <1>10

(* Choosing the next task of a list leaves everyone ready. *)
LEMMA NextReady ==
  ASSUME NEW r, ReadyLists(r), NEW p, p \in Priorities, r[p] # <<End>>,
         NEW d, d = listGET_OWNER_OF_NEXT_ENTRY(r[p]), NEW t, t = d[Len(d)]
  PROVE  /\ ReadyLists(Replaced(r, p, d)) /\ ReadyIn(Replaced(r, p, d)) = ReadyIn(r)
         /\ t \in ReadyIn(r) /\ uxPriority[t] = p
<1> DEFINE c == r[p]
<1>1. c \in Seq(Items) /\ Distinct(c) /\ End \in Range(c)
      /\ \A u \in Range(c) \ {End} : u \in Tasks /\ uxPriority[u] = p
  BY DEF ReadyLists, ListOf
<1> HIDE DEF c
<1>2. /\ d \in Seq(Items) /\ Distinct(d) /\ Range(d) = Range(c)
      /\ t \in Range(c) /\ t # End
  BY <1>1, NextEntry DEF c
<1>3. ListOf(d, p)
  BY <1>1, <1>2 DEF ListOf
<1>4. /\ ReadyLists(Replaced(r, p, d))
      /\ ReadyIn(Replaced(r, p, d)) = (ReadyIn(r) \ Range(r[p])) \union (Range(d) \ {End})
  BY <1>3, ReplaceList, Zenon
<1>5. Range(c) \ {End} \subseteq ReadyIn(r) /\ c = r[p] /\ End \notin ReadyIn(r)
  BY ReadyInSome DEF c
<1>6. ReadyIn(r) = (ReadyIn(r) \ Range(c)) \union (Range(c) \ {End})
  BY <1>5
<1>7. t \in ReadyIn(r) /\ uxPriority[t] = p
  BY <1>1, <1>2, <1>5
<1> QED
  BY <1>2, <1>5, <1>4, <1>6, <1>7, Zenon

--------------------------------------------------------------------------------
(* Who is ready, and who runs.                                                  *)

LEMMA CreatedTasks ==
  /\ Len(Apps) \in Nat \ {0} /\ Len(Created) = Len(Apps) + 2
  /\ \A i \in 1 .. Len(Created) : Created[i] \in Tasks
  /\ \A i, j \in 1 .. Len(Created) : Created[i] = Created[j] => i = j
  /\ \A t \in Tasks : \E i \in 1 .. Len(Created) : Created[i] = t
  /\ \A i \in 1 .. Len(Created) : Created[i] = IdleTask <=> i = Len(Apps) + 1
<1>1. /\ Apps \in Seq(AppTasks) /\ Apps # <<>>
      /\ \A i, j \in 1 .. Len(Apps) : Apps[i] = Apps[j] => i = j
      /\ IdleTask \notin AppTasks /\ TimerTask \notin AppTasks /\ IdleTask # TimerTask
  BY SchedulerAssumption
<1>2. Len(Apps) \in Nat \ {0}
  BY <1>1, EmptySeq
<1>3. \A i \in 1 .. Len(Apps) : Apps[i] \in AppTasks
  BY DEF AppTasks
<1>4. \A t \in AppTasks : \E i \in 1 .. Len(Apps) : Apps[i] = t
  BY DEF AppTasks
<1> HIDE DEF AppTasks
<1>5. /\ Len(Created) = Len(Apps) + 2
      /\ \A i \in 1 .. Len(Created) :
           Created[i] = IF i <= Len(Apps) THEN Apps[i]
                        ELSE IF i = Len(Apps) + 1 THEN IdleTask ELSE TimerTask
  BY <1>1, <1>2 DEF Created
<1>6. \A i \in 1 .. Len(Created) :
        \/ i \in 1 .. Len(Apps) /\ Created[i] = Apps[i] /\ Created[i] \in AppTasks
        \/ i = Len(Apps) + 1 /\ Created[i] = IdleTask
        \/ i = Len(Apps) + 2 /\ Created[i] = TimerTask
  BY <1>2, <1>3, <1>5
<1>7. \A i \in 1 .. Len(Created) : Created[i] \in Tasks
  BY <1>6 DEF Tasks
<1>8. \A i, j \in 1 .. Len(Created) : Created[i] = Created[j] => i = j
  BY <1>1, <1>6
<1>9. \A t \in Tasks : \E i \in 1 .. Len(Created) : Created[i] = t
  <2> TAKE t \in Tasks
  <2>1. CASE t \in AppTasks
    <3>1. PICK i \in 1 .. Len(Apps) : Apps[i] = t
      BY <1>4, <2>1
    <3>2. i \in 1 .. Len(Created) /\ Created[i] = t
      BY <1>2, <1>5, <3>1
    <3> QED
      BY <3>2
  <2>2. CASE t \notin AppTasks
    <3>1. Len(Apps) + 1 \in 1 .. Len(Created) /\ Created[Len(Apps) + 1] = IdleTask
      BY <1>2, <1>5
    <3>2. Len(Apps) + 2 \in 1 .. Len(Created) /\ Created[Len(Apps) + 2] = TimerTask
      BY <1>2, <1>5
    <3>3. t = IdleTask \/ t = TimerTask
      BY <2>2 DEF Tasks
    <3> QED
      BY <3>1, <3>2, <3>3
  <2> QED
    BY <2>1, <2>2
<1>10. \A i \in 1 .. Len(Created) : Created[i] = IdleTask <=> i = Len(Apps) + 1
  BY <1>1, <1>2, <1>6
<1> QED
  BY <1>2, <1>5, <1>7, <1>8, <1>9, <1>10

(* Every task is in one list at most, and in the ready list of its priority. *)
ListsSound ==
  /\ ReadyLists(pxReadyTasksLists)
  /\ Distinct(pxDelayedTaskList) /\ Distinct(pxOverflowDelayedTaskList)
  /\ Range(pxDelayedTaskList) \cap Range(pxOverflowDelayedTaskList) = {}
  /\ Asleep \cap Ready = {}

(* No list has a task that is not yet created; the idle task never leaves its list. *)
CreatedReady ==
  /\ created \in 0 .. Len(Created)
  /\ \A i \in 1 .. Len(Created) : i > created => Created[i] \notin Ready
  /\ created > Len(Apps) => IdleTask \in Ready

CurrentKnown ==
  /\ created = 0 => pxCurrentTCB = End
  /\ created > 0 => pxCurrentTCB \in Tasks
  /\ ~xSchedulerRunning /\ created > 0 => pxCurrentTCB \in Ready

(* Whoever has not yet put itself to sleep can go on. *)
TurnsReady == \A t \in Tasks : pc[t] \in {"turn", "suspended"} => t \in Ready

Highest ==
  created > 0 /\ ~pendSV => \A t \in Ready : uxPriority[t] <= uxPriority[pxCurrentTCB]

Lists == ListsSound /\ CreatedReady /\ CurrentKnown /\ TurnsReady /\ Highest

LEMMA InitLists == Init => Lists
<1> SUFFICES ASSUME Init PROVE Lists
  OBVIOUS
<1>1. /\ created = 0 /\ pxCurrentTCB = End
      /\ pxReadyTasksLists = [p \in Priorities |-> <<End>>]
      /\ pxDelayedTaskList = <<>> /\ pxOverflowDelayedTaskList = <<>>
      /\ pc = [t \in Tasks |-> "off"]
  BY Zenon DEF Init
<1>2. ListOf(<<End>>, 0) /\ ListOf(<<End>>, 1) /\ ListOf(<<End>>, 2) /\ ListOf(<<End>>, 3) /\ ListOf(<<End>>, 4)
  BY DEF ListOf, Items, Distinct, Range
<1>3. ReadyLists(pxReadyTasksLists)
  BY <1>1, <1>2 DEF ReadyLists, Priorities
<1>4. Ready = {}
  BY <1>1 DEF Ready, Range
<1>5. ListsSound
  BY <1>1, <1>3, <1>4 DEF ListsSound, Asleep, Distinct, Range
<1>6. CreatedReady
  BY <1>1, <1>4, CreatedTasks DEF CreatedReady
<1>7. CurrentKnown /\ TurnsReady /\ Highest
  BY <1>1 DEF CurrentKnown, TurnsReady, Highest
<1> QED
  BY <1>5, <1>6, <1>7 DEF Lists

LEMMA ReadyOfLists == Ready = ReadyIn(pxReadyTasksLists) /\ Ready' = ReadyIn(pxReadyTasksLists')
BY Zenon DEF Ready, ReadyIn

(* A step that moves no task from one list to another. *)
LEMMA QuietLists ==
  ASSUME Lists,
         UNCHANGED <<created, xSchedulerRunning, pxCurrentTCB, pxReadyTasksLists>>,
         \/ UNCHANGED <<pxDelayedTaskList, pxOverflowDelayedTaskList>>
         \/ /\ pxDelayedTaskList' = pxOverflowDelayedTaskList
            /\ pxOverflowDelayedTaskList' = pxDelayedTaskList,
         \A t \in Tasks : pc'[t] \in {"turn", "suspended"} => pc[t] \in {"turn", "suspended"},
         pendSV' = pendSV \/ pendSV' = TRUE
  PROVE  Lists'
<1>1. Ready' = Ready
  BY DEF Ready
<1>2. Asleep' = Asleep
  BY DEF Asleep
<1>3. ListsSound'
  BY <1>1, <1>2 DEF Lists, ListsSound
<1>4. CreatedReady' /\ CurrentKnown' /\ TurnsReady'
  BY <1>1 DEF Lists, CreatedReady, CurrentKnown, TurnsReady
<1>5. Highest'
  BY <1>1 DEF Lists, Highest
<1> QED
  BY <1>3, <1>4, <1>5 DEF Lists

LEMMA CountLists ==
  ASSUME Lists, NEW who, CountTick(who)
  PROVE  Lists'
<1>1. UNCHANGED <<created, xSchedulerRunning, pxCurrentTCB, pxReadyTasksLists, pc, pendSV>>
  BY Zenon DEF CountTick, bootVars
<1>2. \/ UNCHANGED <<pxDelayedTaskList, pxOverflowDelayedTaskList>>
      \/ /\ pxDelayedTaskList' = pxOverflowDelayedTaskList
         /\ pxOverflowDelayedTaskList' = pxDelayedTaskList
  BY Zenon DEF CountTick, taskSWITCH_DELAYED_LISTS
<1> QED
  BY <1>1, <1>2, QuietLists

LEMMA CreateLists == IInv /\ Lists /\ prvAddNewTaskToReadyList => Lists'
<1> SUFFICES ASSUME IInv, Lists, prvAddNewTaskToReadyList PROVE Lists'
  OBVIOUS
<1> DEFINE t == Created[created + 1]
<1>1. /\ UNCHANGED <<xSchedulerRunning, pc, pendSV, pxDelayedTaskList, pxOverflowDelayedTaskList>>
      /\ created < Len(Created) /\ created' = created + 1
      /\ pxCurrentTCB' = IF created = 0 \/ uxPriority[pxCurrentTCB] <= uxPriority[t]
                         THEN t ELSE pxCurrentTCB
      /\ prvAddTaskToReadyList(t)
  BY Zenon DEF prvAddNewTaskToReadyList, sleepVars, tickVars
<1>2. created \in Nat /\ created + 1 \in 1 .. Len(Created)
  BY <1>1, CreatedTasks DEF Lists, CreatedReady
<1>3. t \in Tasks /\ t \notin Ready
  BY <1>2, CreatedTasks DEF Lists, CreatedReady
<1>4. xSchedulerRunning = FALSE
  <2>1. created # Len(Created)
    BY <1>1, <1>2
  <2> QED
    BY <2>1, Zenon DEF IInv, BeforeStart, PlacesKnown
<1>5. ~pendSV /\ pxDelayedTaskList = <<>> /\ pxOverflowDelayedTaskList = <<>>
  BY <1>4, Zenon DEF IInv, BeforeStart
<1>6. created = 0 => Ready = {}
  <2>1. Ready \subseteq Tasks
    BY ReadyOfLists, ReadyInOwnList DEF Lists, ListsSound
  <2>2. created = 0 => \A i \in 1 .. Len(Created) : Created[i] \notin Ready
    BY CreatedTasks DEF Lists, CreatedReady
  <2> QED
    BY <2>1, <2>2, CreatedTasks
<1>7. \A i \in 1 .. Len(Created) : i > created + 1 => Created[i] # t
  BY <1>2, CreatedTasks
<1>8. created + 1 > Len(Apps) => created > Len(Apps) \/ t = IdleTask
  BY <1>2, CreatedTasks
<1> HIDE DEF t
<1>9. ReadyLists(pxReadyTasksLists') /\ Ready' = Ready \union {t}
  BY <1>1, <1>3, ReadyOfLists, AddReady DEF prvAddTaskToReadyList, Lists, ListsSound
<1>10. ListsSound'
  BY <1>1, <1>5, <1>9 DEF Lists, ListsSound, Asleep, Range
<1>11. CreatedReady'
  BY <1>1, <1>2, <1>7, <1>8, <1>9 DEF Lists, CreatedReady
<1>12. CurrentKnown'
  BY <1>1, <1>2, <1>3, <1>4, <1>9 DEF Lists, CurrentKnown
<1>13. TurnsReady'
  BY <1>1, <1>9 DEF Lists, TurnsReady
<1>14. Highest'
  <2>1. \A u \in Tasks : uxPriority[u] \in Int
    BY PriorityInRange
  <2>2. Ready \subseteq Tasks /\ (created > 0 => pxCurrentTCB \in Tasks)
    BY ReadyOfLists, ReadyInOwnList DEF Lists, ListsSound, CurrentKnown
  <2>3. created = 0 \/ \A u \in Ready : uxPriority[u] <= uxPriority[pxCurrentTCB]
    BY <1>2, <1>5 DEF Lists, Highest
  <2>4. ASSUME NEW u \in Ready' PROVE uxPriority[u] <= uxPriority[pxCurrentTCB']
    BY <1>1, <1>2, <1>3, <1>6, <1>9, <2>1, <2>2, <2>3, <2>4
  <2> QED
    BY <2>4 DEF Highest
<1> QED
  BY <1>10, <1>11, <1>12, <1>13, <1>14 DEF Lists

LEMMA StartLists == IInv /\ Lists /\ vTaskStartScheduler => Lists'
<1> SUFFICES ASSUME IInv, Lists, vTaskStartScheduler PROVE Lists'
  OBVIOUS
<1>1. /\ UNCHANGED <<created, pxCurrentTCB, pxReadyTasksLists, pendSV, pxDelayedTaskList,
                     pxOverflowDelayedTaskList>>
      /\ created = Len(Created) /\ ~xSchedulerRunning /\ xSchedulerRunning'
      /\ pc' = [pc EXCEPT ![pxCurrentTCB] = "turn"]
  BY Zenon DEF vTaskStartScheduler, sleepVars
<1>2. pxCurrentTCB \in Ready /\ \A t \in Tasks : pc[t] = "off"
  <2>1. created > 0
    BY <1>1, CreatedTasks
  <2> QED
    BY <1>1, <2>1, Zenon DEF IInv, BeforeStart, Lists, CurrentKnown
<1>3. Ready' = Ready /\ Asleep' = Asleep
  BY <1>1 DEF Ready, Asleep
<1>4. ListsSound' /\ CreatedReady' /\ CurrentKnown' /\ Highest'
  BY <1>1, <1>3 DEF Lists, ListsSound, CreatedReady, CurrentKnown, Highest
<1>5. TurnsReady'
  BY <1>1, <1>2, <1>3 DEF IInv, PlacesKnown, TurnsReady
<1> QED
  BY <1>4, <1>5 DEF Lists

(* A newcomer of a list of sleepers. *)
LEMMA NewSleeper ==
  ASSUME NEW s \in Seq(AppTasks), Distinct(s), NEW t \in AppTasks, t \notin Range(s), NEW value
  PROVE  /\ Distinct(vListInsert(s, t, value))
         /\ Range(vListInsert(s, t, value)) = Range(s) \union {t}
<1> DEFINE d == vListInsert(s, t, value)
<1>1. d \in Seq(AppTasks) /\ \E k : Put(d, s, k, t)
  BY ListInsertPuts
<1> HIDE DEF d
<1>2. Distinct(d) /\ Range(d) = Range(s) \union {t}
  BY <1>1, PutContents
<1> QED
  BY <1>2 DEF d

LEMMA PlaceLists ==
  ASSUME IInv, Lists, NEW t \in Tasks, prvAddCurrentTaskToDelayedList(t)
  PROVE  Lists'
<1>1. /\ UNCHANGED <<created, xSchedulerRunning, pxCurrentTCB, pendSV>>
      /\ Thread(t, "suspended") /\ pc' = [pc EXCEPT ![t] = "placed"]
      /\ pxReadyTasksLists' = [pxReadyTasksLists EXCEPT ![uxPriority[t]] = uxListRemove(@, t)]
  BY Zenon DEF prvAddCurrentTaskToDelayedList, Goto, bootVars
<1>2. xSchedulerRunning /\ pc[t] = "suspended" /\ t # IdleTask /\ pc \in [Tasks -> Places]
  BY <1>1, StepFromTurn
<1>3. t \in Ready /\ t \notin Asleep
  BY <1>2 DEF Lists, TurnsReady, ListsSound
<1>4. ReadyLists(pxReadyTasksLists') /\ Ready' = Ready \ {t}
  BY <1>1, <1>3, ReadyOfLists, DropReady DEF Lists, ListsSound
<1>5. \/ UNCHANGED <<pxDelayedTaskList, pxOverflowDelayedTaskList>>
      \/ t \in AppTasks /\ Sleep(t, TicksLater(DelayOf[t]))
  BY <1>2, Zenon DEF prvAddCurrentTaskToDelayedList, Tasks
<1>6. /\ Distinct(pxDelayedTaskList') /\ Distinct(pxOverflowDelayedTaskList')
      /\ Range(pxDelayedTaskList') \cap Range(pxOverflowDelayedTaskList') = {}
      /\ Asleep' \subseteq Asleep \union {t}
  <2>1. CASE UNCHANGED <<pxDelayedTaskList, pxOverflowDelayedTaskList>>
    BY <2>1 DEF Lists, ListsSound, Asleep
  <2>2. CASE t \in AppTasks /\ Sleep(t, TicksLater(DelayOf[t]))
    <3> DEFINE at == TicksLater(DelayOf[t])
    <3>1. \/ /\ pxOverflowDelayedTaskList' = vListInsert(pxOverflowDelayedTaskList, t, at)
             /\ UNCHANGED pxDelayedTaskList
          \/ /\ pxDelayedTaskList' = vListInsert(pxDelayedTaskList, t, at)
             /\ UNCHANGED pxOverflowDelayedTaskList
      BY <2>2, Zenon DEF Sleep
    <3> HIDE DEF at
    <3>2. /\ t \notin Range(pxDelayedTaskList) /\ t \notin Range(pxOverflowDelayedTaskList)
          /\ pxDelayedTaskList \in Seq(AppTasks) /\ pxOverflowDelayedTaskList \in Seq(AppTasks)
          /\ Distinct(pxDelayedTaskList) /\ Distinct(pxOverflowDelayedTaskList)
          /\ Range(pxDelayedTaskList) \cap Range(pxOverflowDelayedTaskList) = {}
      BY <1>3 DEF Asleep, IInv, SleepersAreApps, Lists, ListsSound
    <3>3. /\ Distinct(vListInsert(pxDelayedTaskList, t, at))
          /\ Range(vListInsert(pxDelayedTaskList, t, at)) = Range(pxDelayedTaskList) \union {t}
          /\ Distinct(vListInsert(pxOverflowDelayedTaskList, t, at))
          /\ Range(vListInsert(pxOverflowDelayedTaskList, t, at))
               = Range(pxOverflowDelayedTaskList) \union {t}
      BY <2>2, <3>2, NewSleeper
    <3> QED
      BY <3>1, <3>2, <3>3 DEF Asleep
  <2> QED
    BY <1>5, <2>1, <2>2
<1>7. ListsSound'
  BY <1>3, <1>4, <1>6 DEF Lists, ListsSound
<1>8. CreatedReady' /\ CurrentKnown'
  BY <1>1, <1>2, <1>4 DEF Lists, CreatedReady, CurrentKnown
<1>9. TurnsReady'
  BY <1>1, <1>2, <1>4 DEF Lists, TurnsReady
<1>10. Highest'
  BY <1>1, <1>4 DEF Lists, Highest
<1> QED
  BY <1>7, <1>8, <1>9, <1>10 DEF Lists

(* The task that is woken leaves the head of its list. *)
LEMMA HeadLeaves ==
  ASSUME NEW s \in Seq(AppTasks), Distinct(s), s # <<>>
  PROVE  /\ Head(s) \in AppTasks /\ Tail(s) \in Seq(AppTasks) /\ Distinct(Tail(s))
         /\ Range(s) = Range(Tail(s)) \union {Head(s)} /\ Head(s) \notin Range(Tail(s))
<1> DEFINE h == Head(s)
           r == Tail(s)
<1>1. h \in AppTasks /\ r \in Seq(AppTasks) /\ Put(s, r, 1, h)
  BY TailPuts
<1> HIDE DEF h, r
<1>2. Distinct(r) /\ Range(s) = Range(r) \union {h} /\ h \notin Range(r)
  BY <1>1, PutContents
<1> QED
  BY <1>1, <1>2 DEF h, r

LEMMA WakeLists == IInv /\ Lists /\ WakeOne => Lists'
<1> SUFFICES ASSUME IInv, Lists, WakeOne PROVE Lists'
  OBVIOUS
<1> DEFINE t == Head(pxDelayedTaskList)
<1>1. /\ UNCHANGED <<created, xSchedulerRunning, pxCurrentTCB, pc, pxOverflowDelayedTaskList>>
      /\ ticking # "nobody" /\ pxDelayedTaskList # <<>>
      /\ pxDelayedTaskList' = Tail(pxDelayedTaskList)
      /\ prvAddTaskToReadyList(t)
      /\ IF MustSwitch(t) THEN AskForSwitch ELSE UNCHANGED <<xYieldPending, pendSV>>
  BY Zenon DEF WakeOne, Due, bootVars
<1>2. /\ pxDelayedTaskList \in Seq(AppTasks) /\ Distinct(pxDelayedTaskList)
      /\ ticking \in {"nobody", "handler", "resuming"} /\ pendSV \in BOOLEAN
  BY DEF IInv, SleepersAreApps, PlacesKnown, Lists, ListsSound
<1>3. /\ t \in AppTasks /\ Distinct(pxDelayedTaskList')
      /\ Range(pxDelayedTaskList) = Range(pxDelayedTaskList') \union {t}
      /\ t \notin Range(pxDelayedTaskList')
  BY <1>1, <1>2, HeadLeaves
<1>4. t \in Tasks /\ uxPriority[t] = 2 /\ t \notin Ready
  BY <1>3, PriorityOfAll DEF Lists, ListsSound, Asleep
<1>5. /\ xSchedulerRunning /\ created = Len(Created) /\ created > 0 /\ pxCurrentTCB \in Tasks
      /\ \A i \in 1 .. Len(Created) : ~(i > created)
  <2>1. xSchedulerRunning
    BY <1>1, Zenon DEF IInv, BeforeStart
  <2>2. created = Len(Created)
    BY <2>1, Zenon DEF IInv, BeforeStart
  <2> QED
    BY <2>1, <2>2, CreatedTasks DEF Lists, CurrentKnown
<1> HIDE DEF t
<1>6. ReadyLists(pxReadyTasksLists') /\ Ready' = Ready \union {t}
  BY <1>1, <1>4, ReadyOfLists, AddReady DEF prvAddTaskToReadyList, Lists, ListsSound
<1>7. ListsSound'
  BY <1>1, <1>3, <1>4, <1>6 DEF Lists, ListsSound, Asleep
<1>8. CreatedReady'
  BY <1>1, <1>5, <1>6 DEF Lists, CreatedReady
<1>9. CurrentKnown' /\ TurnsReady'
  BY <1>1, <1>5, <1>6 DEF Lists, CurrentKnown, TurnsReady
<1>10. Highest'
  <2>1. CASE pxCurrentTCB = IdleTask
    <3>1. ticking = "handler"
      BY <1>1, <1>2, <2>1 DEF IInv, ResumingByTask
    <3>2. MustSwitch(t)
      BY <1>4, <2>1, PriorityOfAll DEF MustSwitch, uxPriority
    <3>3. pendSV' = TRUE
      BY <1>1, <3>1, <3>2, Zenon DEF AskForSwitch
    <3> QED
      BY <3>3 DEF Highest
  <2>2. CASE pxCurrentTCB # IdleTask
    <3>1. uxPriority[pxCurrentTCB] >= 2
      BY <1>5, <2>2, PriorityOfAll DEF Tasks
    <3>2. ~(2 > uxPriority[pxCurrentTCB])
      BY <1>5, <3>1, PriorityInRange DEF Priorities
    <3>3. ~MustSwitch(t)
      BY <1>4, <3>2, Zenon DEF MustSwitch
    <3> QED
      BY <1>1, <1>4, <1>5, <1>6, <3>1, <3>3 DEF Lists, Highest
  <2> QED
    BY <2>1, <2>2
<1> QED
  BY <1>7, <1>8, <1>9, <1>10 DEF Lists

(* The highest list that has a task. *)
LEMMA TopIsHighest ==
  ASSUME Lists, IdleTask \in Ready
  PROVE  /\ TopReady \in Priorities /\ pxReadyTasksLists[TopReady] # <<End>>
         /\ \A q \in Priorities : q > TopReady => pxReadyTasksLists[q] = <<End>>
<1> DEFINE Has(p) == pxReadyTasksLists[p] # <<End>>
<1>1. Has(uxPriority[IdleTask]) /\ uxPriority[IdleTask] = 0
  <2>1. IdleTask \in Tasks /\ uxPriority[IdleTask] = 0 /\ End # IdleTask
    BY PriorityOfAll, PriorityInRange DEF uxPriority
  <2>2. IdleTask \in Range(pxReadyTasksLists[uxPriority[IdleTask]])
    BY ReadyOfLists, ReadyInOwnList DEF Lists, ListsSound
  <2> QED
    BY <2>1, <2>2 DEF Range
<1> HIDE DEF Has
<1>2. \E p \in Priorities : Has(p) /\ \A q \in Priorities : q > p => ~Has(q)
  <2>1. Has(0)
    BY <1>1
  <2>2. CASE Has(4)
    BY <2>2 DEF Priorities
  <2>3. CASE Has(3) /\ ~Has(4)
    BY <2>3 DEF Priorities
  <2>4. CASE Has(2) /\ ~Has(3) /\ ~Has(4)
    BY <2>4 DEF Priorities
  <2>5. CASE Has(1) /\ ~Has(2) /\ ~Has(3) /\ ~Has(4)
    BY <2>5 DEF Priorities
  <2>6. CASE ~Has(1) /\ ~Has(2) /\ ~Has(3) /\ ~Has(4)
    BY <2>1, <2>6 DEF Priorities
  <2> QED
    BY <2>2, <2>3, <2>4, <2>5, <2>6
<1>3. \E p \in Priorities : pxReadyTasksLists[p] # <<End>>
                            /\ \A q \in Priorities : q > p => pxReadyTasksLists[q] = <<End>>
  BY <1>2, Zenon DEF Has
<1> QED
  BY <1>3, Zenon DEF TopReady

(* What a switch does: the next of the highest list that has a task. *)
LEMMA SwitchChooses ==
  ASSUME IInv, Lists, vTaskSwitchContext
  PROVE  /\ taskSELECT_HIGHEST_PRIORITY_TASK /\ xSchedulerRunning /\ created = Len(Created)
         /\ IdleTask \in Ready
         /\ \A u \in Tasks \ {IdleTask} : pc[u] = "off"
<1>1. pendSV
  BY Zenon DEF vTaskSwitchContext
<1>2. xSchedulerRunning /\ created = Len(Created)
  BY <1>1, Zenon DEF IInv, BeforeStart
<1>3. \A u \in Tasks \ {IdleTask} : pc[u] = "off"
  BY <1>1 DEF IInv, SwitchFindsNobody
<1>4. uxSchedulerSuspended = 0
  BY <1>3 DEF IInv, SuspendedByOne, OneThread
<1>5. taskSELECT_HIGHEST_PRIORITY_TASK
  BY <1>4, Zenon DEF vTaskSwitchContext
<1>6. IdleTask \in Ready
  BY <1>2, CreatedTasks DEF Lists, CreatedReady
<1> QED
  BY <1>2, <1>3, <1>5, <1>6

LEMMA SwitchEffect ==
  ASSUME IInv, Lists, vTaskSwitchContext, NEW p, p = TopReady,
         NEW next, next = listGET_OWNER_OF_NEXT_ENTRY(pxReadyTasksLists[p]),
         NEW t, t = next[Len(next)]
  PROVE  /\ p \in Priorities /\ pxReadyTasksLists[p] # <<End>>
         /\ \A q \in Priorities : q > p => pxReadyTasksLists[q] = <<End>>
         /\ pxReadyTasksLists' = [pxReadyTasksLists EXCEPT ![p] = next]
         /\ pxCurrentTCB' = t
         /\ pc' = [pc EXCEPT ![t] = IF pc[t] = "off" THEN "turn" ELSE pc[t]]
         /\ overtook' = [u \in AppTasks |-> [v \in AppTasks |->
                           IF u = t \/ ~Waiting(u) THEN 0
                           ELSE IF v = t /\ overtook[u][v] < 3 THEN overtook[u][v] + 1
                           ELSE overtook[u][v]]]
         /\ ReadyLists(pxReadyTasksLists') /\ Ready' = Ready
         /\ t \in Ready /\ uxPriority[t] = p /\ t \in Tasks
<1>1. IdleTask \in Ready /\ taskSELECT_HIGHEST_PRIORITY_TASK
  BY SwitchChooses
<1>2. /\ p \in Priorities /\ pxReadyTasksLists[p] # <<End>>
      /\ \A q \in Priorities : q > p => pxReadyTasksLists[q] = <<End>>
  BY <1>1, TopIsHighest
<1>3. /\ pxReadyTasksLists' = [pxReadyTasksLists EXCEPT ![p] = next]
      /\ pxCurrentTCB' = t
      /\ pc' = [pc EXCEPT ![t] = IF pc[t] = "off" THEN "turn" ELSE pc[t]]
      /\ overtook' = [u \in AppTasks |-> [v \in AppTasks |->
                        IF u = t \/ ~Waiting(u) THEN 0
                        ELSE IF v = t /\ overtook[u][v] < 3 THEN overtook[u][v] + 1
                        ELSE overtook[u][v]]]
  BY <1>1, Zenon DEF taskSELECT_HIGHEST_PRIORITY_TASK, Goto
<1>4. /\ ReadyLists(pxReadyTasksLists') /\ Ready' = Ready
      /\ t \in Ready /\ uxPriority[t] = p
  <2>1. ReadyLists(pxReadyTasksLists)
    BY Zenon DEF Lists, ListsSound
  <2>2. pxReadyTasksLists' = Replaced(pxReadyTasksLists, p, next)
    BY <1>3, Zenon DEF Replaced
  <2>3. /\ ReadyLists(Replaced(pxReadyTasksLists, p, next))
        /\ ReadyIn(Replaced(pxReadyTasksLists, p, next)) = ReadyIn(pxReadyTasksLists)
        /\ t \in ReadyIn(pxReadyTasksLists) /\ uxPriority[t] = p
    BY <1>2, <2>1, NextReady
  <2>4. /\ ReadyLists(pxReadyTasksLists')
        /\ ReadyIn(pxReadyTasksLists') = ReadyIn(pxReadyTasksLists)
        /\ t \in ReadyIn(pxReadyTasksLists) /\ uxPriority[t] = p
    BY <2>2, <2>3, Zenon
  <2> QED
    BY <2>4, ReadyOfLists, Zenon
<1>5. t \in Tasks
  BY <1>4, ReadyOfLists, ReadyInOwnList DEF Lists, ListsSound
<1> QED
  BY <1>2, <1>3, <1>4, <1>5

LEMMA SwitchLists == IInv /\ Lists /\ vTaskSwitchContext => Lists'
<1> SUFFICES ASSUME IInv, Lists, vTaskSwitchContext PROVE Lists'
  OBVIOUS
<1> DEFINE p    == TopReady
           next == listGET_OWNER_OF_NEXT_ENTRY(pxReadyTasksLists[p])
           t    == next[Len(next)]
<1>1. /\ UNCHANGED <<created, xSchedulerRunning, pxDelayedTaskList, pxOverflowDelayedTaskList>>
      /\ xSchedulerRunning /\ created = Len(Created) /\ IdleTask \in Ready
  BY SwitchChooses, Zenon DEF vTaskSwitchContext, bootVars, sleepVars
<1>2. /\ p \in Priorities
      /\ \A q \in Priorities : q > p => pxReadyTasksLists[q] = <<End>>
      /\ pxCurrentTCB' = t
      /\ pc' = [pc EXCEPT ![t] = IF pc[t] = "off" THEN "turn" ELSE pc[t]]
      /\ ReadyLists(pxReadyTasksLists') /\ Ready' = Ready
      /\ t \in Ready /\ uxPriority[t] = p /\ t \in Tasks
  BY SwitchEffect
<1> HIDE DEF p, next, t
<1>3. ListsSound' /\ CreatedReady'
  BY <1>1, <1>2 DEF Lists, ListsSound, CreatedReady, Asleep
<1>4. t \in Tasks /\ Ready \subseteq Tasks
  BY <1>2, ReadyOfLists, ReadyInOwnList DEF Lists, ListsSound
<1>5. CurrentKnown'
  BY <1>1, <1>2, <1>4, CreatedTasks DEF CurrentKnown
<1>6. TurnsReady'
  BY <1>2, <1>4 DEF Lists, TurnsReady, IInv, PlacesKnown
<1>7. Highest'
  <2>1. ASSUME NEW u \in Ready PROVE uxPriority[u] <= p
    <3>1. u \in Range(pxReadyTasksLists[uxPriority[u]]) /\ u \in Tasks
      BY <2>1, ReadyOfLists, ReadyInOwnList DEF Lists, ListsSound
    <3>2. uxPriority[u] \in Priorities /\ u # End
      BY <3>1, PriorityInRange
    <3>3. pxReadyTasksLists[uxPriority[u]] # <<End>>
      BY <3>1, <3>2 DEF Range
    <3>4. ~(uxPriority[u] > p)
      BY <1>2, <3>2, <3>3
    <3> QED
      BY <1>2, <3>2, <3>4 DEF Priorities
  <2> QED
    BY <1>2, <2>1 DEF Highest
<1> QED
  BY <1>3, <1>5, <1>6, <1>7 DEF Lists

LEMMA StepLists ==
  ASSUME IInv, Lists, NEW t \in Tasks, Step(t)
  PROVE  Lists'
<1>0. pc \in [Tasks -> Places] /\ NeverPends
  BY DEF IInv, PlacesKnown
<1>1. CASE vTaskSuspendAll(t)
  <2>1. /\ UNCHANGED <<created, xSchedulerRunning, pxCurrentTCB, pxReadyTasksLists, pendSV,
                       pxDelayedTaskList, pxOverflowDelayedTaskList>>
        /\ pc[t] = "turn" /\ pc' = [pc EXCEPT ![t] = "suspended"]
    BY <1>1, Zenon DEF vTaskSuspendAll, Thread, Goto, bootVars, sleepVars
  <2>2. \A u \in Tasks : pc'[u] \in {"turn", "suspended"} => pc[u] \in {"turn", "suspended"}
    BY <1>0, <2>1
  <2> QED
    BY <2>1, <2>2, QuietLists
<1>2. CASE prvAddCurrentTaskToDelayedList(t)
  BY <1>2, PlaceLists
<1>3. CASE xTaskResumeAll(t)
  <2>1. /\ UNCHANGED <<created, xSchedulerRunning, pxCurrentTCB, pxReadyTasksLists, pendSV,
                       pxDelayedTaskList, pxOverflowDelayedTaskList>>
        /\ pc' = [pc EXCEPT ![t] = "resuming"]
    BY <1>3, Zenon DEF xTaskResumeAll, Goto, bootVars, sleepVars
  <2>2. \A u \in Tasks : pc'[u] \in {"turn", "suspended"} => pc[u] \in {"turn", "suspended"}
    BY <1>0, <2>1
  <2> QED
    BY <2>1, <2>2, QuietLists
<1>4. CASE UnwindTick(t)
  <2>1. CountTick("resuming")
    BY <1>4, Zenon DEF UnwindTick
  <2> QED
    BY <2>1, CountLists
<1>5. CASE Resumed(t)
  <2>1. /\ UNCHANGED <<created, xSchedulerRunning, pxCurrentTCB, pxReadyTasksLists,
                       pxDelayedTaskList, pxOverflowDelayedTaskList>>
        /\ pendSV' = pendSV /\ pc' = [pc EXCEPT ![t] = "yielding"]
    <3>1. Thread(t, "resuming") /\ pendSV' = FALSE /\ pc' = [pc EXCEPT ![t] = "yielding"]
      BY <1>0, <1>5, Zenon DEF Resumed, Goto, NeverPends
    <3>2. pendSV = FALSE
      BY <3>1, StepFromTurn
    <3> QED
      BY <1>5, <3>1, <3>2, Zenon DEF Resumed, bootVars, sleepVars
  <2>2. \A u \in Tasks : pc'[u] \in {"turn", "suspended"} => pc[u] \in {"turn", "suspended"}
    BY <1>0, <2>1
  <2> QED
    BY <2>1, <2>2, QuietLists
<1>6. CASE vPortYield(t)
  <2>1. /\ UNCHANGED <<created, xSchedulerRunning, pxCurrentTCB, pxReadyTasksLists,
                       pxDelayedTaskList, pxOverflowDelayedTaskList>>
        /\ pendSV' = TRUE /\ pc' = [pc EXCEPT ![t] = "off"]
    BY <1>6, Zenon DEF vPortYield, Goto, bootVars, sleepVars
  <2>2. \A u \in Tasks : pc'[u] \in {"turn", "suspended"} => pc[u] \in {"turn", "suspended"}
    BY <1>0, <2>1
  <2> QED
    BY <2>1, <2>2, QuietLists
<1> QED
  BY <1>1, <1>2, <1>3, <1>4, <1>5, <1>6 DEF Step

LEMMA ListsNext == IInv /\ Lists /\ [Next]_vars => Lists'
<1> SUFFICES ASSUME IInv, Lists, [Next]_vars PROVE Lists'
  OBVIOUS
<1>1. CASE SysTick_Handler
  <2>1. CASE uxSchedulerSuspended = 0
    <3>1. CountTick("handler")
      BY <1>1, <2>1, Zenon DEF SysTick_Handler
    <3> QED
      BY <3>1, CountLists
  <2>2. CASE uxSchedulerSuspended # 0
    <3>1. UNCHANGED <<created, xSchedulerRunning, pxCurrentTCB, pxReadyTasksLists, pc, pendSV,
                      pxDelayedTaskList, pxOverflowDelayedTaskList>>
      BY <1>1, <2>2, Zenon DEF SysTick_Handler, bootVars, sleepVars
    <3> QED
      BY <3>1, QuietLists
  <2> QED
    BY <2>1, <2>2
<1>2. CASE TickDone
  <2>1. UNCHANGED <<created, xSchedulerRunning, pxCurrentTCB, pxReadyTasksLists, pc, pendSV,
                    pxDelayedTaskList, pxOverflowDelayedTaskList>>
    BY <1>2, Zenon DEF TickDone, bootVars, sleepVars, IInv, NeverPends
  <2> QED
    BY <2>1, QuietLists
<1>3. CASE UNCHANGED vars
  <2>1. UNCHANGED <<created, xSchedulerRunning, pxCurrentTCB, pxReadyTasksLists, pc, pendSV,
                    pxDelayedTaskList, pxOverflowDelayedTaskList>>
    BY <1>3, Zenon DEF vars, bootVars, sleepVars
  <2> QED
    BY <2>1, QuietLists
<1> QED
  BY <1>1, <1>2, <1>3, CreateLists, StartLists, StepLists, SwitchLists, WakeLists
     DEF Next, Processor, Tick

(* The invariant of the ready lists and of who runs, for any tasks and delays. *)
THEOREM ListsInvariant == Spec => []Lists
BY InitLists, ListsNext, KernelInvariant, PTL DEF Spec

(* Whoever has its turn is ready to have it and nobody of higher priority is, for every
   number of tasks, every delay and every width of the count. *)
THEOREM HighestAlwaysRuns == Spec => []HighestRuns
<1>1. IInv /\ Lists => HighestRuns
  <2> SUFFICES ASSUME IInv, Lists, xSchedulerRunning, ~pendSV, pc[pxCurrentTCB] = "turn"
               PROVE  /\ pxCurrentTCB \in Range(pxReadyTasksLists[uxPriority[pxCurrentTCB]])
                      /\ \A t \in Ready : uxPriority[t] <= uxPriority[pxCurrentTCB]
    BY DEF HighestRuns
  <2>1. created > 0
    <3>1. created = Len(Created)
      BY Zenon DEF IInv, BeforeStart
    <3> QED
      BY <3>1, CreatedTasks
  <2>2. pxCurrentTCB \in Ready
    BY <2>1 DEF Lists, CurrentKnown, TurnsReady
  <2>3. pxCurrentTCB \in Range(pxReadyTasksLists[uxPriority[pxCurrentTCB]])
    BY <2>2, ReadyOfLists, ReadyInOwnList DEF Lists, ListsSound
  <2> QED
    BY <2>1, <2>3 DEF Lists, Highest
<1> QED
  BY <1>1, KernelInvariant, ListsInvariant, PTL

--------------------------------------------------------------------------------
(* Sleeping: the lists are in the order of waking and hold what is to come.      *)

(* A set of places that has every place before one of its own is an interval. *)
LEMMA PrefixIsInterval ==
  ASSUME NEW n \in Nat, NEW B, B \subseteq 1 .. n,
         \A j \in B : \A i \in 1 .. n : i <= j => i \in B
  PROVE  Cardinality(B) \in Nat /\ B = 1 .. Cardinality(B)
<1>1. \A m \in Nat : IsFiniteSet(1 .. m) /\ Cardinality(1 .. m) = m
  BY FS_Interval
<1>2. IsFiniteSet(B) /\ Cardinality(B) \in Nat /\ Cardinality(B) <= n
  <2>1. IsFiniteSet(1 .. n) /\ Cardinality(1 .. n) = n
    BY <1>1
  <2>2. IsFiniteSet(B) /\ Cardinality(B) <= Cardinality(1 .. n)
    BY <2>1, FS_Subset
  <2>3. Cardinality(B) \in Nat
    BY <2>2, FS_CardinalityType
  <2> QED
    BY <2>1, <2>2, <2>3
<1>3. ASSUME NEW i \in B PROVE i <= Cardinality(B)
  <2>1. i \in Nat /\ 1 .. i \subseteq B
    BY <1>3
  <2>2. Cardinality(1 .. i) <= Cardinality(B) /\ Cardinality(1 .. i) = i
    BY <1>1, <1>2, <2>1, FS_Subset
  <2> QED
    BY <2>2
<1>4. ASSUME NEW i \in 1 .. n, i \notin B PROVE ~(i <= Cardinality(B))
  <2>1. i - 1 \in Nat /\ B \subseteq 1 .. i - 1
    BY <1>4
  <2>2. Cardinality(B) <= Cardinality(1 .. i - 1) /\ Cardinality(1 .. i - 1) = i - 1
    BY <1>1, <2>1, FS_Subset
  <2> QED
    BY <1>2, <2>2
<1>5. \A i \in 1 .. n : i \in B <=> i <= Cardinality(B)
  BY <1>3, <1>4
<1>6. \A i : i \in B <=> i \in 1 .. n /\ i <= Cardinality(B)
  BY <1>5
<1> QED
  BY <1>2, <1>6

(* The list is in the order its tasks are to be woken in. *)
InOrder(w, s) == \A i, j \in 1 .. Len(s) : i < j => w[s[i]] <= w[s[j]]

LEMMA InsertInOrder ==
  ASSUME wake \in [Tasks -> Int], NEW s \in Seq(AppTasks), InOrder(wake, s),
         NEW t \in AppTasks, t \notin Range(s), NEW value \in Int,
         NEW w, w = [wake EXCEPT ![t] = value]
  PROVE  InOrder(w, vListInsert(s, t, value))
<1> DEFINE d == vListInsert(s, t, value)
           n == Len(s)
           B == {j \in 1 .. n : wake[s[j]] <= value}
<1>1. d \in Seq(AppTasks) /\ \E k \in 1 .. n + 1 : Put(d, s, k, t) /\ k - 1 = Cardinality(B)
  BY ListInsertPuts, SMTT(20)
<1> HIDE DEF d
<1>2. PICK k \in 1 .. n + 1 : Put(d, s, k, t) /\ k - 1 = Cardinality(B)
  BY <1>1
<1>3. n \in Nat /\ \A j \in 1 .. n : s[j] \in AppTasks /\ s[j] \in Tasks /\ s[j] # t /\ wake[s[j]] \in Int
  BY PriorityOfAll DEF Range
<1>4. B = 1 .. k - 1
  <2>1. B \subseteq 1 .. n
    OBVIOUS
  <2>2. \A j \in B : \A i \in 1 .. n : i <= j => i \in B
    <3> TAKE j \in B
    <3> TAKE i \in 1 .. n
    <3>1. CASE i < j
      BY <1>3, <3>1 DEF InOrder
    <3>2. CASE i >= j
      BY <1>3, <3>2
    <3> QED
      BY <1>3, <3>1, <3>2
  <2> HIDE DEF B
  <2>3. B = 1 .. Cardinality(B)
    BY <1>3, <2>1, <2>2, PrefixIsInterval
  <2> QED
    BY <1>2, <2>3
<1>5. \A j \in 1 .. n : (j < k => wake[s[j]] <= value) /\ (j >= k => wake[s[j]] > value)
  <2> TAKE j \in 1 .. n
  <2>1. j \in B <=> j < k
    BY <1>2, <1>3, <1>4
  <2> QED
    BY <1>2, <1>3, <2>1
<1> HIDE DEF B, n
<1>6. \A j \in 1 .. Len(d) : d[j] = IF j < k THEN s[j] ELSE IF j = k THEN t ELSE s[j - 1]
  BY <1>1, <1>2, PutPlaces
<1>7. Len(d) = n + 1
  BY <1>2 DEF Put, n
<1>8. w[t] = value /\ \A u \in AppTasks : u # t => w[u] = wake[u]
  BY PriorityOfAll
<1>9. ASSUME NEW i \in 1 .. n + 1, NEW j \in 1 .. n + 1, i < j PROVE w[d[i]] <= w[d[j]]
  <2>1. /\ d[i] = IF i < k THEN s[i] ELSE IF i = k THEN t ELSE s[i - 1]
        /\ d[j] = IF j < k THEN s[j] ELSE IF j = k THEN t ELSE s[j - 1]
    BY <1>6, <1>7
  <2>2. \A a, b \in 1 .. n : a < b => wake[s[a]] <= wake[s[b]]
    BY DEF InOrder, n
  <2>3. CASE j < k
    <3>1. i \in 1 .. n /\ j \in 1 .. n /\ i < k
      BY <1>2, <1>3, <1>9, <2>3
    <3>2. w[d[i]] = wake[s[i]] /\ w[d[j]] = wake[s[j]]
      BY <1>3, <1>8, <2>1, <2>3, <3>1
    <3> QED
      BY <1>9, <2>2, <3>1, <3>2
  <2>4. CASE j = k
    <3>1. i \in 1 .. n /\ i < k
      BY <1>2, <1>3, <1>9, <2>4
    <3>2. w[d[i]] = wake[s[i]] /\ w[d[j]] = value
      BY <1>3, <1>8, <2>1, <2>4, <3>1
    <3> QED
      BY <1>5, <3>1, <3>2
  <2>5. CASE i = k
    <3>1. j - 1 \in 1 .. n /\ j - 1 >= k /\ ~(j < k) /\ j # k /\ ~(i < k)
      BY <1>2, <1>3, <1>9, <2>5
    <3>2. w[d[i]] = value /\ w[d[j]] = wake[s[j - 1]] /\ wake[s[j - 1]] \in Int
      BY <1>3, <1>8, <2>1, <2>5, <3>1
    <3>3. wake[s[j - 1]] > value
      BY <1>5, <3>1
    <3> QED
      BY <3>2, <3>3
  <2>6. CASE i < k /\ j > k
    <3>1. i \in 1 .. n /\ j - 1 \in 1 .. n /\ j - 1 >= k /\ ~(j < k) /\ j # k
      BY <1>2, <1>3, <1>9, <2>6
    <3>2. w[d[i]] = wake[s[i]] /\ w[d[j]] = wake[s[j - 1]]
      BY <1>3, <1>8, <2>1, <2>6, <3>1
    <3>3. /\ wake[s[i]] <= value /\ wake[s[j - 1]] > value
          /\ wake[s[i]] \in Int /\ wake[s[j - 1]] \in Int
      BY <1>3, <1>5, <2>6, <3>1
    <3> QED
      BY <3>2, <3>3
  <2>7. CASE i > k
    <3>1. /\ i - 1 \in 1 .. n /\ j - 1 \in 1 .. n /\ i - 1 < j - 1
          /\ ~(j < k) /\ j # k /\ ~(i < k) /\ i # k
      BY <1>2, <1>3, <1>9, <2>7
    <3>2. w[d[i]] = wake[s[i - 1]] /\ w[d[j]] = wake[s[j - 1]]
      BY <1>3, <1>8, <2>1, <3>1
    <3> QED
      BY <2>2, <3>1, <3>2
  <2>8. k \in Int /\ i \in Int /\ j \in Int
    BY <1>2, <1>3
  <2> QED
    BY <1>9, <2>3, <2>4, <2>5, <2>6, <2>7, <2>8
<1>10. InOrder(w, d)
  BY <1>7, <1>9 DEF InOrder
<1> QED
  BY <1>10 DEF d

LEMMA TailInOrder ==
  ASSUME NEW w, NEW s \in Seq(AppTasks), s # <<>>, InOrder(w, s), w \in [Tasks -> Int]
  PROVE  InOrder(w, Tail(s)) /\ \A t \in Range(s) : w[Head(s)] <= w[t]
<1>1. Len(s) \in Nat \ {0} /\ Head(s) = s[1]
  BY EmptySeq
<1>2. InOrder(w, Tail(s))
  <2>1. Len(Tail(s)) = Len(s) - 1 /\ \A i \in 1 .. Len(s) - 1 : Tail(s)[i] = s[i + 1]
    BY <1>1
  <2> QED
    BY <1>1, <2>1 DEF InOrder
<1>3. ASSUME NEW t \in Range(s) PROVE w[s[1]] <= w[t]
  <2>1. PICK i \in 1 .. Len(s) : s[i] = t
    BY RangeOfList
  <2>2. s[1] \in Tasks /\ w[s[1]] \in Int
    BY <1>1, PriorityOfAll
  <2>3. CASE i = 1
    BY <2>1, <2>2, <2>3
  <2>4. CASE i > 1
    BY <1>1, <2>1, <2>4 DEF InOrder
  <2> QED
    BY <1>1, <2>1, <2>3, <2>4
<1> QED
  BY <1>1, <1>2, <1>3

SleepTypes ==
  /\ wake \in [Tasks -> 0 .. MaxTick] /\ left \in [Tasks -> 0 .. MaxTick]
  /\ xNextTaskUnblockTime \in 0 .. MaxTick

(* While a tick is counted those it wakes are still on the list, with nothing to go. *)
DelayedDue ==
  \A t \in Range(pxDelayedTaskList) :
    /\ wake[t] = xTickCount + left[t]
    /\ ticking = "nobody" => left[t] > 0

OverflowDue ==
  \A t \in Range(pxOverflowDelayedTaskList) :
    /\ wake[t] = xTickCount + left[t] - MaxTick - 1
    /\ left[t] > 0

AwakeDue == \A t \in AppTasks : t \notin Asleep => left[t] = 0

ListsInOrder == InOrder(wake, pxDelayedTaskList) /\ InOrder(wake, pxOverflowDelayedTaskList)

(* The kernel does not look at the list before this tick: nobody on it is due before. *)
UnblockInTime == \A t \in Range(pxDelayedTaskList) : xNextTaskUnblockTime <= wake[t]

Sleeping ==
  /\ SleepTypes /\ DelayedDue /\ OverflowDue /\ AwakeDue /\ ListsInOrder /\ UnblockInTime

LEMMA InitSleeping == Init => Sleeping
<1> SUFFICES ASSUME Init PROVE Sleeping
  OBVIOUS
<1>1. /\ pxDelayedTaskList = <<>> /\ pxOverflowDelayedTaskList = <<>>
      /\ wake = [t \in Tasks |-> 0] /\ left = [t \in Tasks |-> 0]
      /\ xNextTaskUnblockTime = 0
  BY Zenon DEF Init
<1>2. SleepTypes
  BY <1>1, Widths DEF SleepTypes
<1>3. DelayedDue /\ OverflowDue /\ UnblockInTime
  BY <1>1 DEF DelayedDue, OverflowDue, UnblockInTime, Range
<1>4. AwakeDue /\ ListsInOrder
  BY <1>1, PriorityOfAll DEF AwakeDue, ListsInOrder, InOrder
<1> QED
  BY <1>2, <1>3, <1>4 DEF Sleeping

(* A step that neither counts a tick nor moves a sleeper. *)
LEMMA QuietSleeping ==
  ASSUME Sleeping,
         UNCHANGED <<pxDelayedTaskList, pxOverflowDelayedTaskList, wake, left,
                     xTickCount, xNextTaskUnblockTime>>,
         ticking' = "nobody" => ticking = "nobody"
  PROVE  Sleeping'
BY DEF Sleeping, SleepTypes, DelayedDue, OverflowDue, AwakeDue, ListsInOrder, UnblockInTime, Asleep

LEMMA SleepersKnown ==
  ASSUME IInv, Sleeping
  PROVE  /\ pxDelayedTaskList \in Seq(AppTasks) /\ pxOverflowDelayedTaskList \in Seq(AppTasks)
         /\ Range(pxDelayedTaskList) \subseteq AppTasks
         /\ Range(pxOverflowDelayedTaskList) \subseteq AppTasks
         /\ \A t \in AppTasks : t \in Tasks /\ wake[t] \in 0 .. MaxTick /\ left[t] \in 0 .. MaxTick
         /\ wake \in [Tasks -> Int]
<1>1. pxDelayedTaskList \in Seq(AppTasks) /\ pxOverflowDelayedTaskList \in Seq(AppTasks)
  BY DEF IInv, SleepersAreApps
<1>2. /\ Range(pxDelayedTaskList) \subseteq AppTasks
      /\ Range(pxOverflowDelayedTaskList) \subseteq AppTasks
  BY <1>1, RangeOfList
<1>3. \A t \in AppTasks : t \in Tasks /\ wake[t] \in 0 .. MaxTick /\ left[t] \in 0 .. MaxTick
  BY PriorityOfAll DEF Sleeping, SleepTypes
<1>4. wake \in [Tasks -> Int]
  BY DEF Sleeping, SleepTypes
<1> QED
  BY <1>1, <1>2, <1>3, <1>4

(* A tick that is counted, the one at which the count starts over included. *)
LEMMA CountSleeping ==
  ASSUME IInv, Lists, Counted, Sleeping, NEW who \in {"handler", "resuming"},
         ticking = "nobody", CountTick(who)
  PROVE  Sleeping'
<1>1. /\ UNCHANGED wake /\ ticking' # "nobody" /\ xTickCount' = OneLater(xTickCount)
      /\ left' = [t \in Tasks |-> IF t \in Asleep THEN left[t] - 1 ELSE left[t]]
  BY Zenon DEF CountTick
<1>2. xTickCount \in 0 .. MaxTick /\ MaxTick \in Nat \ {0}
  BY Widths DEF Counted, CountsKnown
<1>3. /\ \A t \in Range(pxDelayedTaskList) : wake[t] = xTickCount + left[t] /\ left[t] > 0
      /\ \A t \in Range(pxOverflowDelayedTaskList) :
           wake[t] = xTickCount + left[t] - MaxTick - 1 /\ left[t] > 0
  BY DEF Sleeping, DelayedDue, OverflowDue
<1>4. /\ \A t \in Range(pxDelayedTaskList) : t \in AppTasks /\ left'[t] = left[t] - 1
      /\ \A t \in Range(pxOverflowDelayedTaskList) : t \in AppTasks /\ left'[t] = left[t] - 1
      /\ \A t \in AppTasks : t \notin Asleep => left'[t] = left[t]
  BY <1>1, SleepersKnown DEF Asleep
<1>5. left' \in [Tasks -> 0 .. MaxTick]
  <2>1. \A t \in Asleep : left[t] > 0
    BY <1>3 DEF Asleep
  <2>2. \A t \in Tasks : left[t] \in 0 .. MaxTick
    BY DEF Sleeping, SleepTypes
  <2>3. \A t \in Tasks : (IF t \in Asleep THEN left[t] - 1 ELSE left[t]) \in 0 .. MaxTick
    BY <1>2, <2>1, <2>2
  <2> QED
    BY <1>1, <2>3
<1>6. CASE xTickCount = MaxTick
  <2>1. xTickCount' = 0
    BY <1>1, <1>6 DEF OneLater
  <2>2. /\ pxDelayedTaskList' = pxOverflowDelayedTaskList
        /\ pxOverflowDelayedTaskList' = pxDelayedTaskList
        /\ xNextTaskUnblockTime' = IF pxOverflowDelayedTaskList = <<>> THEN MaxTick
                                   ELSE wake[Head(pxOverflowDelayedTaskList)]
    BY <2>1, Zenon DEF CountTick, taskSWITCH_DELAYED_LISTS
  <2>3. pxDelayedTaskList = <<>>
    <3>1. ASSUME NEW t \in Range(pxDelayedTaskList) PROVE FALSE
      BY <1>2, <1>3, <1>6, <3>1, SleepersKnown
    <3>2. Range(pxDelayedTaskList) = {}
      BY <3>1
    <3> QED
      BY <3>2, SleepersKnown, TailPuts DEF Range
  <2>4. Asleep' = Asleep
    BY <2>2 DEF Asleep
  <2>5. DelayedDue'
    <3> SUFFICES ASSUME NEW t \in Range(pxOverflowDelayedTaskList)
                 PROVE  wake[t] = 0 + left'[t]
      BY <1>1, <2>1, <2>2 DEF DelayedDue
    <3> QED
      BY <1>2, <1>3, <1>4, <1>6, SleepersKnown
  <2>6. OverflowDue'
    BY <2>2, <2>3 DEF OverflowDue, Range
  <2>7. AwakeDue'
    BY <1>4, <2>4 DEF AwakeDue, Sleeping
  <2>8. ListsInOrder'
    BY <1>1, <2>2 DEF ListsInOrder, Sleeping
  <2>9. UnblockInTime' /\ SleepTypes'
    <3>1. CASE pxOverflowDelayedTaskList = <<>>
      BY <1>1, <1>2, <1>5, <2>2, <3>1 DEF UnblockInTime, SleepTypes, Sleeping, Range
    <3>2. CASE pxOverflowDelayedTaskList # <<>>
      <4>1. /\ \A t \in Range(pxOverflowDelayedTaskList) :
                 wake[Head(pxOverflowDelayedTaskList)] <= wake[t]
            /\ wake[Head(pxOverflowDelayedTaskList)] \in 0 .. MaxTick
        BY <3>2, SleepersKnown, TailInOrder, TailPuts DEF Sleeping, ListsInOrder
      <4> QED
        BY <1>1, <1>5, <2>2, <3>2, <4>1 DEF UnblockInTime, SleepTypes, Sleeping
    <3> QED
      BY <3>1, <3>2
  <2> QED
    BY <2>5, <2>6, <2>7, <2>8, <2>9 DEF Sleeping
<1>7. CASE xTickCount # MaxTick
  <2>1. xTickCount' = xTickCount + 1 /\ xTickCount' # 0
    BY <1>1, <1>2, <1>7 DEF OneLater
  <2>2. UNCHANGED <<pxDelayedTaskList, pxOverflowDelayedTaskList, xNextTaskUnblockTime>>
    BY <2>1, Zenon DEF CountTick
  <2>3. Asleep' = Asleep
    BY <2>2 DEF Asleep
  <2>4. DelayedDue'
    <3> SUFFICES ASSUME NEW t \in Range(pxDelayedTaskList)
                 PROVE  wake[t] = xTickCount + 1 + left'[t]
      BY <1>1, <2>1, <2>2 DEF DelayedDue
    <3>1. wake[t] = xTickCount + left[t] /\ left'[t] = left[t] - 1
      BY <1>3, <1>4
    <3>2. left[t] \in 0 .. MaxTick
      BY SleepersKnown
    <3> QED
      BY <1>2, <3>1, <3>2
  <2>5. OverflowDue'
    <3> SUFFICES ASSUME NEW t \in Range(pxOverflowDelayedTaskList)
                 PROVE  wake[t] = xTickCount + 1 + left'[t] - MaxTick - 1 /\ left'[t] > 0
      BY <1>1, <2>1, <2>2 DEF OverflowDue
    <3>1. wake[t] = xTickCount + left[t] - MaxTick - 1 /\ left'[t] = left[t] - 1
      BY <1>3, <1>4
    <3>2. left[t] \in 0 .. MaxTick /\ wake[t] \in 0 .. MaxTick
      BY SleepersKnown
    <3> QED
      BY <1>2, <1>7, <3>1, <3>2
  <2>6. AwakeDue'
    BY <1>4, <2>3 DEF AwakeDue, Sleeping
  <2>7. ListsInOrder' /\ UnblockInTime' /\ SleepTypes'
    BY <1>1, <1>5, <2>2 DEF ListsInOrder, UnblockInTime, SleepTypes, Sleeping
  <2> QED
    BY <2>4, <2>5, <2>6, <2>7 DEF Sleeping
<1> QED
  BY <1>6, <1>7

(* A task goes to sleep: onto the list of the round xTickCount is in, or of the next. *)
LEMMA PlaceSleeping ==
  ASSUME IInv, Lists, Counted, Sleeping, NEW t \in Tasks, prvAddCurrentTaskToDelayedList(t)
  PROVE  Sleeping'
<1>1. UNCHANGED <<xTickCount, ticking>> /\ Thread(t, "suspended")
  BY Zenon DEF prvAddCurrentTaskToDelayedList
<1>2. /\ t # IdleTask /\ pc[t] = "suspended" /\ ticking = "nobody"
      /\ xTickCount \in 0 .. MaxTick /\ MaxTick \in Nat \ {0}
  BY <1>1, StepFromTurn, Widths DEF Counted, CountsKnown
<1>3. CASE t = TimerTask
  BY <1>1, <1>3, QuietSleeping, Zenon DEF prvAddCurrentTaskToDelayedList
<1>4. CASE t # TimerTask
  <2> DEFINE n    == DelayOf[t]
             at   == TicksLater(n)
             D(s) == vListInsert(s, t, at)
  <2>1. t \in AppTasks /\ t \notin Asleep
    BY <1>2, <1>4 DEF Tasks, Lists, ListsSound, TurnsReady
  <2>2. n \in 1 .. MaxTick
    BY <2>1, SchedulerAssumption
  <2>3. /\ wake' = [wake EXCEPT ![t] = at] /\ left' = [left EXCEPT ![t] = n]
        /\ Sleep(t, at)
    BY <1>4, Zenon DEF prvAddCurrentTaskToDelayedList
  <2> HIDE DEF n
  <2>4. /\ at \in 0 .. MaxTick
        /\ at < xTickCount => at = xTickCount + n - MaxTick - 1
        /\ ~(at < xTickCount) => at = xTickCount + n
    BY <1>2, <2>2 DEF TicksLater
  <2> HIDE DEF at
  <2>5. /\ wake'[t] = at /\ left'[t] = n /\ wake' \in [Tasks -> 0 .. MaxTick]
        /\ left' \in [Tasks -> 0 .. MaxTick]
        /\ \A u \in Tasks : u # t => wake'[u] = wake[u] /\ left'[u] = left[u]
    BY <1>2, <2>2, <2>3, <2>4 DEF Sleeping, SleepTypes
  <2>6. /\ Range(pxDelayedTaskList) \subseteq Tasks \ {t}
        /\ Range(pxOverflowDelayedTaskList) \subseteq Tasks \ {t}
    BY <2>1, SleepersKnown DEF Asleep
  <2>7. /\ InOrder(wake', pxDelayedTaskList) /\ InOrder(wake', pxOverflowDelayedTaskList)
    <3>1. ASSUME NEW s \in Seq(AppTasks), Range(s) \subseteq Tasks \ {t}, InOrder(wake, s)
          PROVE  InOrder(wake', s)
      <4>1. \A i \in 1 .. Len(s) : wake'[s[i]] = wake[s[i]]
        BY <2>5, <3>1, RangeOfList
      <4> QED
        BY <3>1, <4>1 DEF InOrder
    <3> QED
      BY <2>6, <3>1, SleepersKnown DEF Sleeping, ListsInOrder
  <2>8. CASE at < xTickCount
    <3>1. /\ pxOverflowDelayedTaskList' = D(pxOverflowDelayedTaskList)
          /\ UNCHANGED <<pxDelayedTaskList, xNextTaskUnblockTime>>
      BY <2>3, <2>8, Zenon DEF Sleep
    <3>2. /\ Range(pxOverflowDelayedTaskList') = Range(pxOverflowDelayedTaskList) \union {t}
          /\ InOrder(wake', pxOverflowDelayedTaskList')
      <4>1. /\ pxOverflowDelayedTaskList \in Seq(AppTasks) /\ Distinct(pxOverflowDelayedTaskList)
            /\ t \notin Range(pxOverflowDelayedTaskList) /\ InOrder(wake, pxOverflowDelayedTaskList)
            /\ wake \in [Tasks -> Int] /\ at \in Int
        BY <2>4, <2>6, SleepersKnown DEF Lists, ListsSound, Sleeping, ListsInOrder
      <4>2. Range(D(pxOverflowDelayedTaskList)) = Range(pxOverflowDelayedTaskList) \union {t}
        BY <2>1, <4>1, NewSleeper
      <4>3. InOrder(wake', D(pxOverflowDelayedTaskList))
        BY <2>1, <2>3, <4>1, InsertInOrder
      <4> QED
        BY <3>1, <4>2, <4>3, Zenon
    <3>3. SleepTypes'
      BY <2>5, <3>1 DEF Sleeping, SleepTypes
    <3>4. DelayedDue' /\ UnblockInTime'
      BY <1>1, <2>5, <2>6, <3>1 DEF Sleeping, DelayedDue, UnblockInTime
    <3>5. OverflowDue'
      BY <1>1, <2>2, <2>4, <2>5, <2>6, <2>8, <3>2 DEF Sleeping, OverflowDue
    <3>6. AwakeDue'
      BY <2>5, <3>1, <3>2, PriorityOfAll DEF Sleeping, AwakeDue, Asleep
    <3>7. ListsInOrder'
      BY <2>7, <3>1, <3>2 DEF ListsInOrder
    <3> QED
      BY <3>3, <3>4, <3>5, <3>6, <3>7 DEF Sleeping
  <2>9. CASE ~(at < xTickCount)
    <3>1. /\ pxDelayedTaskList' = D(pxDelayedTaskList)
          /\ xNextTaskUnblockTime' = IF at < xNextTaskUnblockTime THEN at
                                     ELSE xNextTaskUnblockTime
          /\ UNCHANGED pxOverflowDelayedTaskList
      BY <2>3, <2>9, Zenon DEF Sleep
    <3>2. /\ Range(pxDelayedTaskList') = Range(pxDelayedTaskList) \union {t}
          /\ InOrder(wake', pxDelayedTaskList')
      <4>1. /\ pxDelayedTaskList \in Seq(AppTasks) /\ Distinct(pxDelayedTaskList)
            /\ t \notin Range(pxDelayedTaskList) /\ InOrder(wake, pxDelayedTaskList)
            /\ wake \in [Tasks -> Int] /\ at \in Int
        BY <2>4, <2>6, SleepersKnown DEF Lists, ListsSound, Sleeping, ListsInOrder
      <4>2. Range(D(pxDelayedTaskList)) = Range(pxDelayedTaskList) \union {t}
        BY <2>1, <4>1, NewSleeper
      <4>3. InOrder(wake', D(pxDelayedTaskList))
        BY <2>1, <2>3, <4>1, InsertInOrder
      <4> QED
        BY <3>1, <4>2, <4>3, Zenon
    <3>3. SleepTypes'
      BY <2>4, <2>5, <3>1 DEF Sleeping, SleepTypes
    <3>4. DelayedDue'
      BY <1>1, <2>2, <2>4, <2>5, <2>6, <2>9, <3>2 DEF Sleeping, DelayedDue
    <3>5. UnblockInTime'
      <4>1. /\ xNextTaskUnblockTime \in Int /\ xNextTaskUnblockTime' \in Int /\ at \in Int
            /\ xNextTaskUnblockTime' <= at /\ xNextTaskUnblockTime' <= xNextTaskUnblockTime
        BY <2>4, <3>1 DEF Sleeping, SleepTypes
      <4>2. ASSUME NEW u \in Range(pxDelayedTaskList) PROVE xNextTaskUnblockTime' <= wake'[u]
        <5>1. wake'[u] = wake[u] /\ wake[u] \in Int /\ xNextTaskUnblockTime <= wake[u]
          BY <2>5, <2>6, SleepersKnown DEF Sleeping, UnblockInTime
        <5> QED
          BY <4>1, <5>1
      <4> QED
        BY <2>5, <3>2, <4>1, <4>2 DEF UnblockInTime
    <3>6. OverflowDue'
      BY <1>1, <2>5, <2>6, <3>1 DEF Sleeping, OverflowDue
    <3>7. AwakeDue'
      BY <2>5, <3>1, <3>2, PriorityOfAll DEF Sleeping, AwakeDue, Asleep
    <3>8. ListsInOrder'
      BY <2>7, <3>1, <3>2 DEF ListsInOrder
    <3> QED
      BY <3>3, <3>4, <3>5, <3>6, <3>7, <3>8 DEF Sleeping
  <2> QED
    BY <2>8, <2>9
<1> QED
  BY <1>3, <1>4

(* Who is woken has nothing to go. *)
LEMMA WakeSleeping == IInv /\ Lists /\ Counted /\ Sleeping /\ WakeOne => Sleeping'
<1> SUFFICES ASSUME IInv, Lists, Counted, Sleeping, WakeOne PROVE Sleeping'
  OBVIOUS
<1> DEFINE t == Head(pxDelayedTaskList)
<1>1. /\ UNCHANGED <<pxOverflowDelayedTaskList, wake, left, xTickCount, xNextTaskUnblockTime,
                     ticking>>
      /\ ticking # "nobody" /\ pxDelayedTaskList # <<>> /\ wake[t] <= xTickCount
      /\ pxDelayedTaskList' = Tail(pxDelayedTaskList)
  BY Zenon DEF WakeOne, Due, tickVars
<1>2. /\ t \in AppTasks
      /\ Range(pxDelayedTaskList) = Range(pxDelayedTaskList') \union {t}
      /\ InOrder(wake, pxDelayedTaskList')
  BY <1>1, HeadLeaves, TailInOrder, SleepersKnown DEF Lists, ListsSound, Sleeping, ListsInOrder
<1>3. left[t] = 0
  <2>1. /\ wake[t] = xTickCount + left[t] /\ left[t] \in 0 .. MaxTick
        /\ xTickCount \in Int /\ MaxTick \in Int
    BY <1>2, SleepersKnown, Widths DEF Sleeping, DelayedDue, Counted, CountsKnown
  <2> QED
    BY <1>1, <2>1
<1> HIDE DEF t
<1>4. DelayedDue' /\ UnblockInTime' /\ OverflowDue' /\ SleepTypes'
  BY <1>1, <1>2 DEF Sleeping, DelayedDue, UnblockInTime, OverflowDue, SleepTypes
<1>5. AwakeDue'
  BY <1>1, <1>2, <1>3 DEF Sleeping, AwakeDue, Asleep
<1>6. ListsInOrder'
  BY <1>1, <1>2 DEF Sleeping, ListsInOrder
<1> QED
  BY <1>4, <1>5, <1>6 DEF Sleeping

(* When the tick is done nobody is left on the list whose time has come. *)
LEMMA DoneSleeping == IInv /\ Lists /\ Counted /\ Sleeping /\ TickDone => Sleeping'
<1> SUFFICES ASSUME IInv, Lists, Counted, Sleeping, TickDone PROVE Sleeping'
  OBVIOUS
<1>1. /\ UNCHANGED <<pxDelayedTaskList, pxOverflowDelayedTaskList, wake, left, xTickCount>>
      /\ ~Due /\ ticking' = "nobody"
      /\ xNextTaskUnblockTime' = IF xTickCount < xNextTaskUnblockTime THEN xNextTaskUnblockTime
                                 ELSE IF pxDelayedTaskList = <<>> THEN MaxTick
                                 ELSE wake[Head(pxDelayedTaskList)]
  BY Zenon DEF TickDone, sleepVars
<1>2. /\ xTickCount \in 0 .. MaxTick /\ xNextTaskUnblockTime \in 0 .. MaxTick
      /\ MaxTick \in Nat \ {0}
  BY Widths DEF Counted, CountsKnown, Sleeping, SleepTypes
<1>3. pxDelayedTaskList # <<>> =>
        /\ \A t \in Range(pxDelayedTaskList) : wake[Head(pxDelayedTaskList)] <= wake[t]
        /\ wake[Head(pxDelayedTaskList)] \in 0 .. MaxTick
  BY SleepersKnown, TailInOrder, TailPuts DEF Sleeping, ListsInOrder
<1>4. pxDelayedTaskList = <<>> => Range(pxDelayedTaskList) = {}
  BY DEF Range
<1>5. ASSUME NEW t \in Range(pxDelayedTaskList) PROVE wake[t] > xTickCount
  <2>1. wake[t] \in 0 .. MaxTick /\ xNextTaskUnblockTime <= wake[t] /\ pxDelayedTaskList # <<>>
    BY <1>4, SleepersKnown DEF Sleeping, UnblockInTime
  <2>2. CASE xTickCount < xNextTaskUnblockTime
    BY <1>2, <2>1, <2>2
  <2>3. CASE ~(xTickCount < xNextTaskUnblockTime)
    <3>1. ~(wake[Head(pxDelayedTaskList)] <= xTickCount)
      BY <1>1, <1>2, <2>1, <2>3 DEF Due
    <3> QED
      BY <1>2, <1>3, <2>1, <3>1
  <2> QED
    BY <2>2, <2>3
<1>6. DelayedDue'
  <2>1. ASSUME NEW t \in Range(pxDelayedTaskList) PROVE left[t] > 0
    <3>1. wake[t] = xTickCount + left[t] /\ wake[t] > xTickCount /\ left[t] \in 0 .. MaxTick
      BY <1>5, SleepersKnown DEF Sleeping, DelayedDue
    <3> QED
      BY <1>2, <3>1
  <2> QED
    BY <1>1, <2>1 DEF Sleeping, DelayedDue
<1>7. UnblockInTime' /\ SleepTypes'
  <2>1. CASE xTickCount < xNextTaskUnblockTime
    BY <1>1, <2>1 DEF Sleeping, UnblockInTime, SleepTypes
  <2>2. CASE ~(xTickCount < xNextTaskUnblockTime) /\ pxDelayedTaskList = <<>>
    BY <1>1, <1>2, <1>4, <2>2 DEF Sleeping, UnblockInTime, SleepTypes
  <2>3. CASE ~(xTickCount < xNextTaskUnblockTime) /\ pxDelayedTaskList # <<>>
    BY <1>1, <1>3, <2>3 DEF Sleeping, UnblockInTime, SleepTypes
  <2> QED
    BY <2>1, <2>2, <2>3
<1>8. OverflowDue' /\ AwakeDue' /\ ListsInOrder'
  BY <1>1 DEF Sleeping, OverflowDue, AwakeDue, ListsInOrder, Asleep
<1> QED
  BY <1>6, <1>7, <1>8 DEF Sleeping

LEMMA StartSleeping == IInv /\ Sleeping /\ vTaskStartScheduler => Sleeping'
<1> SUFFICES ASSUME IInv, Sleeping, vTaskStartScheduler PROVE Sleeping'
  OBVIOUS
<1>1. /\ UNCHANGED <<pxDelayedTaskList, pxOverflowDelayedTaskList, wake, left>>
      /\ ~xSchedulerRunning /\ xNextTaskUnblockTime' = MaxTick
  BY Zenon DEF vTaskStartScheduler, sleepVars
<1>2. pxDelayedTaskList = <<>> /\ pxOverflowDelayedTaskList = <<>>
  BY <1>1, Zenon DEF IInv, BeforeStart
<1>3. DelayedDue' /\ OverflowDue' /\ UnblockInTime'
  BY <1>1, <1>2 DEF DelayedDue, OverflowDue, UnblockInTime, Range
<1>4. AwakeDue' /\ ListsInOrder' /\ SleepTypes'
  BY <1>1, Widths DEF Sleeping, AwakeDue, ListsInOrder, SleepTypes, Asleep
<1> QED
  BY <1>3, <1>4 DEF Sleeping

LEMMA SleepingNext == IInv /\ Lists /\ Counted /\ Sleeping /\ [Next]_vars => Sleeping'
<1> SUFFICES ASSUME IInv, Lists, Counted, Sleeping, [Next]_vars PROVE Sleeping'
  OBVIOUS
<1> DEFINE Same == UNCHANGED <<pxDelayedTaskList, pxOverflowDelayedTaskList, wake, left,
                               xTickCount, xNextTaskUnblockTime, ticking>>
<1>0. Same => Sleeping'
  BY QuietSleeping
<1>1. CASE SysTick_Handler
  <2>1. ticking = "nobody"
    BY <1>1, Zenon DEF SysTick_Handler
  <2>2. CASE uxSchedulerSuspended = 0
    <3>1. CountTick("handler")
      BY <1>1, <2>2, Zenon DEF SysTick_Handler
    <3> QED
      BY <2>1, <3>1, CountSleeping
  <2>3. CASE uxSchedulerSuspended # 0
    BY <1>0, <1>1, <2>3, Zenon DEF SysTick_Handler, sleepVars
  <2> QED
    BY <2>2, <2>3
<1>2. ASSUME NEW t \in Tasks, Step(t) PROVE Sleeping'
  <2>1. CASE prvAddCurrentTaskToDelayedList(t)
    BY <2>1, PlaceSleeping
  <2>2. CASE UnwindTick(t)
    <3>1. CountTick("resuming") /\ ticking = "nobody"
      BY <2>2, Zenon DEF UnwindTick, Thread
    <3> QED
      BY <3>1, CountSleeping
  <2>3. CASE ~prvAddCurrentTaskToDelayedList(t) /\ ~UnwindTick(t)
    BY <1>0, <1>2, <2>3, Zenon
       DEF Step, vTaskSuspendAll, xTaskResumeAll, Resumed, vPortYield, sleepVars, tickVars
  <2> QED
    BY <2>1, <2>2, <2>3
<1>3. CASE prvAddNewTaskToReadyList \/ vTaskSwitchContext
  BY <1>0, <1>3, Zenon DEF prvAddNewTaskToReadyList, vTaskSwitchContext, sleepVars, tickVars
<1>4. CASE UNCHANGED vars
  BY <1>0, <1>4, Zenon DEF vars, sleepVars, tickVars
<1> QED
  BY <1>1, <1>2, <1>3, <1>4, StartSleeping, WakeSleeping, DoneSleeping DEF Next, Processor, Tick

(* The invariant of the delayed lists, the tick count and the ticks pended. *)
THEOREM SleepingInvariant == Spec => []Sleeping
BY InitSleeping, SleepingNext, CountedInvariant, KernelInvariant, ListsInvariant, PTL DEF Spec

(* A sleeper is woken by the very tick its delay ends with, across the wrap of the count,
   for every number of tasks, every delay and every width of the count. *)
THEOREM DelaysAreExact == Spec => []SleepsItsTime
<1>1. IInv /\ Counted /\ Sleeping => SleepsItsTime
  <2> SUFFICES ASSUME IInv, Counted, Sleeping, ticking = "nobody"
               PROVE  SleepersDue /\ (xTickCount = MaxTick => pxDelayedTaskList = <<>>)
    BY DEF SleepsItsTime, Counted
  <2>1. SleepersDue
    BY DEF SleepersDue, Sleeping, DelayedDue, OverflowDue, AwakeDue, Asleep
  <2>2. ASSUME xTickCount = MaxTick PROVE pxDelayedTaskList = <<>>
    <3>1. MaxTick \in Nat
      BY Widths
    <3>2. ASSUME NEW t \in Range(pxDelayedTaskList) PROVE FALSE
      <4>1. /\ wake[t] = xTickCount + left[t] /\ left[t] > 0
            /\ wake[t] \in 0 .. MaxTick /\ left[t] \in 0 .. MaxTick
        BY SleepersKnown DEF Sleeping, DelayedDue
      <4> QED
        BY <2>2, <3>1, <4>1
    <3>3. Range(pxDelayedTaskList) = {}
      BY <3>2
    <3> QED
      BY <3>3, SleepersKnown, TailPuts DEF Range
  <2> QED
    BY <2>1, <2>2
<1> QED
  BY <1>1, CountedInvariant, KernelInvariant, SleepingInvariant, PTL

--------------------------------------------------------------------------------
(* Fairness of the turns: where the waiting task and End stand in the circle     *)
(* says how often another can yet overtake it.                                  *)

(* How often v may have overtaken u: once End has passed, only those before u are
   yet to come. *)
Bound(c, u, v, n) ==
  /\ Before(c, u, End) => n <= 2 /\ (Before(c, v, u) => n <= 1)
  /\ Before(c, End, u) => n <= 1 /\ (Before(c, v, End) => n = 0)

(* A task that does not wait has not been overtaken; one that does, within its bound. *)
Overtaking ==
  /\ overtook \in [AppTasks -> [AppTasks -> 0 .. 3]]
  /\ ~xSchedulerRunning => \A u, v \in AppTasks : overtook[u][v] = 0
  /\ \A u, v \in AppTasks :
       /\ ~Waiting(u) => overtook[u][v] = 0
       /\ Bound(pxReadyTasksLists[2], u, v, overtook[u][v])

LEMMA NoneInBound == \A c, u, v : Bound(c, u, v, 0)
BY DEF Bound

LEMMA InitOvertaking == Init => Overtaking
<1> SUFFICES ASSUME Init PROVE Overtaking
  OBVIOUS
<1>1. overtook = [u \in AppTasks |-> [t \in AppTasks |-> 0]]
  BY Zenon DEF Init
<1>2. overtook \in [AppTasks -> [AppTasks -> 0 .. 3]] /\ \A u, v \in AppTasks : overtook[u][v] = 0
  BY <1>1
<1> QED
  BY <1>2, NoneInBound DEF Overtaking

(* The list of the application's tasks. *)
LEMMA AppList ==
  ASSUME Lists
  PROVE  /\ pxReadyTasksLists[2] \in Seq(Items) /\ Distinct(pxReadyTasksLists[2])
         /\ End \in Range(pxReadyTasksLists[2])
         /\ \A u \in AppTasks : /\ u \in Ready <=> u \in Range(pxReadyTasksLists[2])
                                /\ u # End /\ u \in Tasks /\ u \in Items
<1>1. 2 \in Priorities
  BY DEF Priorities
<1>2. ListOf(pxReadyTasksLists[2], 2)
  BY <1>1 DEF Lists, ListsSound, ReadyLists
<1>3. \A u \in AppTasks : u # End /\ u \in Tasks /\ u \in Items /\ uxPriority[u] = 2
  BY PriorityOfAll, PriorityInRange DEF Items
<1>4. \A u \in AppTasks : u \in Ready <=> u \in Range(pxReadyTasksLists[2])
  BY <1>3, ReadyOfLists, ReadyInOwnList DEF Lists, ListsSound
<1> QED
  BY <1>2, <1>3, <1>4 DEF ListOf

(* Before the scheduler runs nobody is overtaken. *)
LEMMA OvertakingBefore ==
  ASSUME Overtaking, ~xSchedulerRunning, UNCHANGED overtook
  PROVE  Overtaking'
<1>1. \A u, v \in AppTasks : overtook'[u][v] = 0
  BY DEF Overtaking
<1> QED
  BY <1>1, NoneInBound DEF Overtaking

(* A step that is not a switch, as long as those that wait go on waiting and the order
   of their list is no worse for them. *)
LEMMA OvertakingKept ==
  ASSUME Overtaking, UNCHANGED overtook, xSchedulerRunning, xSchedulerRunning',
         \A u \in AppTasks : Waiting(u) => Waiting(u)',
         \A u, v \in AppTasks : \A n \in 0 .. 3 :
           Waiting(u) /\ Bound(pxReadyTasksLists[2], u, v, n)
             => Bound(pxReadyTasksLists'[2], u, v, n)
  PROVE  Overtaking'
<1>1. ASSUME NEW u \in AppTasks, NEW v \in AppTasks
      PROVE  /\ ~Waiting(u)' => overtook'[u][v] = 0
             /\ Bound(pxReadyTasksLists'[2], u, v, overtook'[u][v])
  <2>1. overtook'[u][v] = overtook[u][v] /\ overtook[u][v] \in 0 .. 3
    BY DEF Overtaking
  <2>2. CASE Waiting(u)
    BY <2>1, <2>2 DEF Overtaking
  <2>3. CASE ~Waiting(u)
    BY <2>1, <2>3, NoneInBound DEF Overtaking
  <2> QED
    BY <2>2, <2>3
<1> QED
  BY <1>1 DEF Overtaking

(* A task that is woken goes behind everyone but the item at pxIndex. *)
LEMMA NewcomerOvertakesNone ==
  ASSUME NEW c \in Seq(Items), Distinct(c), End \in Range(c), NEW x \in Items, x \notin Range(c),
         NEW u \in Range(c) \ {End}, NEW v, v # End, NEW n, Bound(c, u, v, n)
  PROVE  Bound(listINSERT_END(c, x), u, v, n)
<1> DEFINE d == listINSERT_END(c, x)
<1>0. c # <<>>
  BY RangeOfList
<1>1. d \in Seq(Items) /\ \E k : Put(d, c, k, x)
  BY <1>0, InsertEndPuts
<1>2. \A y : Before(d, x, y) => y = c[Len(c)]
  BY <1>0, InsertEndOrder
<1> HIDE DEF d
<1>3. PICK k : Put(d, c, k, x)
  BY <1>1
<1>4. \A a, b : a # x /\ b # x => (Before(d, a, b) <=> Before(c, a, b))
  BY <1>1, <1>3, PutOrder
<1>5. \A y : ~Before(c, c[Len(c)], y)
  BY OrderFacts
<1>6. u # x /\ End # x
  OBVIOUS
<1>7. CASE v = x
  BY <1>2, <1>4, <1>5, <1>6, <1>7 DEF Bound, d
<1>8. CASE v # x
  BY <1>4, <1>6, <1>8 DEF Bound, d
<1> QED
  BY <1>7, <1>8

(* A task that goes to sleep leaves the order of the others alone. *)
LEMMA LeaverOvertakesNone ==
  ASSUME NEW c \in Seq(Items), Distinct(c), End \in Range(c), NEW x \in Range(c) \ {End},
         NEW u \in Range(c) \ {End}, u # x, NEW v, v # End, NEW n, Bound(c, u, v, n)
  PROVE  Bound(uxListRemove(c, x), u, v, n)
<1> DEFINE d == uxListRemove(c, x)
<1>1. d \in Seq(Items) /\ \E k : Put(c, d, k, x)
  BY RemovePuts
<1> HIDE DEF d
<1>2. PICK k : Put(c, d, k, x)
  BY <1>1
<1>3. \A a, b : a # x /\ b # x => (Before(d, a, b) <=> Before(c, a, b))
  BY <1>1, <1>2, PutOrder
<1>4. Distinct(d) /\ x \notin Range(d)
  BY <1>1, <1>2, PutContents
<1>5. \A y : ~Before(d, x, y)
  BY <1>1, <1>4, OrderFacts
<1>6. CASE v = x
  BY <1>3, <1>5, <1>6 DEF Bound, d
<1>7. CASE v # x
  BY <1>3, <1>7 DEF Bound, d
<1> QED
  BY <1>6, <1>7

(* The task that is chosen has overtaken the others once more. *)
LEMMA ChosenOvertakes ==
  ASSUME NEW c \in Seq(Items), Distinct(c), End \in Range(c), c # <<End>>,
         NEW d, d = listGET_OWNER_OF_NEXT_ENTRY(c), NEW t, t = d[Len(d)],
         NEW u \in Range(c) \ {End}, u # t, NEW v \in AppTasks, NEW n \in 0 .. 3,
         Bound(c, u, v, n)
  PROVE  Bound(d, u, v, IF v = t /\ n < 3 THEN n + 1 ELSE n)
<1>0. v # End
  BY PriorityOfAll, PriorityInRange
<1>1. /\ d \in Seq(Items) /\ Distinct(d) /\ Range(d) = Range(c)
      /\ t \in Range(c) /\ t # End
  BY NextEntry
<1>2. \/ /\ \A a \in Range(c) \ {t} : Before(c, t, a)
         /\ \A a, b : a # t /\ b # t => (Before(d, a, b) <=> Before(c, a, b))
      \/ /\ \A a \in Range(c) \ {End} : Before(c, End, a)
         /\ \A a \in Range(c) \ {t, End} : Before(d, a, End)
  BY NextEntry
<1>3. \A y : ~Before(d, t, y)
  BY <1>1, OrderFacts
<1>4. ~(Before(c, u, End) /\ Before(c, End, u)) /\ ~(Before(d, u, End) /\ Before(d, End, u))
  BY <1>1, OrderFacts
<1>5. CASE /\ \A a \in Range(c) \ {t} : Before(c, t, a)
           /\ \A a, b : a # t /\ b # t => (Before(d, a, b) <=> Before(c, a, b))
  <2>1. Before(c, t, u) /\ Before(c, t, End)
    BY <1>1, <1>5
  <2>2. /\ Before(d, u, End) <=> Before(c, u, End)
        /\ Before(d, End, u) <=> Before(c, End, u)
    BY <1>1, <1>5
  <2>3. CASE v = t
    BY <1>3, <2>1, <2>2, <2>3 DEF Bound
  <2>4. CASE v # t
    <3>1. /\ Before(d, v, u) <=> Before(c, v, u)
          /\ Before(d, v, End) <=> Before(c, v, End)
      BY <1>1, <1>5, <2>4
    <3> QED
      BY <2>2, <2>4, <3>1 DEF Bound
  <2> QED
    BY <2>3, <2>4
<1>6. CASE /\ \A a \in Range(c) \ {End} : Before(c, End, a)
           /\ \A a \in Range(c) \ {t, End} : Before(d, a, End)
  <2>1. Before(c, End, u) /\ Before(d, u, End)
    BY <1>6
  <2>2. CASE v = t
    BY <1>3, <1>4, <2>1, <2>2 DEF Bound
  <2>3. CASE v # t
    BY <1>4, <2>1, <2>3 DEF Bound
  <2> QED
    BY <2>2, <2>3
<1> QED
  BY <1>2, <1>5, <1>6

LEMMA QuietOvertaking ==
  ASSUME Overtaking, UNCHANGED <<overtook, xSchedulerRunning, pxReadyTasksLists>>,
         \A u \in Tasks : pc[u] = "off" => pc'[u] = "off"
  PROVE  Overtaking'
<1>1. CASE ~xSchedulerRunning
  BY <1>1, OvertakingBefore
<1>2. CASE xSchedulerRunning
  <2>1. \A u \in AppTasks : Waiting(u) => Waiting(u)'
    BY PriorityOfAll DEF Waiting, Ready
  <2> QED
    BY <1>2, <2>1, OvertakingKept
<1> QED
  BY <1>1, <1>2

LEMMA PlaceOvertaking ==
  ASSUME IInv, Lists, Overtaking, NEW t \in Tasks, prvAddCurrentTaskToDelayedList(t)
  PROVE  Overtaking'
<1> DEFINE c == pxReadyTasksLists[2]
<1>1. /\ UNCHANGED <<overtook, xSchedulerRunning>>
      /\ Thread(t, "suspended") /\ pc' = [pc EXCEPT ![t] = "placed"]
      /\ pxReadyTasksLists' = [pxReadyTasksLists EXCEPT ![uxPriority[t]] = uxListRemove(@, t)]
  BY Zenon DEF prvAddCurrentTaskToDelayedList, Goto, bootVars
<1>2. xSchedulerRunning /\ pc[t] = "suspended" /\ t # IdleTask /\ pc \in [Tasks -> Places]
  BY <1>1, StepFromTurn
<1>3. t \in Ready
  BY <1>2 DEF Lists, TurnsReady
<1>4. ReadyLists(pxReadyTasksLists') /\ Ready' = Ready \ {t}
  BY <1>1, <1>3, ReadyOfLists, DropReady DEF Lists, ListsSound
<1>5. \A u \in AppTasks : Waiting(u) => u # t /\ Waiting(u)'
  <2> TAKE u \in AppTasks
  <2>1. u \in Tasks
    BY PriorityOfAll
  <2> QED
    BY <1>1, <1>2, <1>4, <2>1 DEF Waiting
<1>6. /\ c \in Seq(Items) /\ Distinct(c) /\ End \in Range(c)
      /\ \A u \in AppTasks : (u \in Ready <=> u \in Range(c)) /\ u # End
  BY AppList
<1>7. ASSUME NEW u \in AppTasks, NEW v \in AppTasks, NEW n \in 0 .. 3,
             Waiting(u), Bound(c, u, v, n)
      PROVE  Bound(pxReadyTasksLists'[2], u, v, n)
  <2>1. u \in Range(c) \ {End} /\ u # t /\ v # End
    BY <1>5, <1>6, <1>7 DEF Waiting
  <2>2. CASE t = TimerTask
    <3>1. pxReadyTasksLists'[2] = c
      BY <1>1, <2>2, PriorityOfAll
    <3> QED
      BY <1>7, <3>1
  <2>3. CASE t \in AppTasks
    <3>1. pxReadyTasksLists'[2] = uxListRemove(c, t)
      <4>1. uxPriority[t] = 2 /\ 2 \in DOMAIN pxReadyTasksLists
        BY <2>3, PriorityOfAll DEF Lists, ListsSound, ReadyLists, Priorities
      <4> QED
        BY <1>1, <4>1
    <3>2. t \in Range(c) \ {End}
      BY <1>3, <1>6, <2>3
    <3> HIDE DEF c
    <3> QED
      BY <1>6, <1>7, <2>1, <3>1, <3>2, LeaverOvertakesNone
  <2> QED
    BY <1>2, <2>2, <2>3 DEF Tasks
<1> QED
  BY <1>1, <1>2, <1>5, <1>7, OvertakingKept

LEMMA WakeOvertaking == IInv /\ Lists /\ Overtaking /\ WakeOne => Overtaking'
<1> SUFFICES ASSUME IInv, Lists, Overtaking, WakeOne PROVE Overtaking'
  OBVIOUS
<1> DEFINE c == pxReadyTasksLists[2]
           t == Head(pxDelayedTaskList)
<1>1. /\ UNCHANGED <<overtook, xSchedulerRunning, pc>>
      /\ pxDelayedTaskList # <<>> /\ prvAddTaskToReadyList(t)
  BY Zenon DEF WakeOne, Due, bootVars
<1>2. t \in AppTasks /\ t \notin Ready
  <2>1. pxDelayedTaskList \in Seq(AppTasks) /\ Distinct(pxDelayedTaskList)
    BY DEF IInv, SleepersAreApps, Lists, ListsSound
  <2>2. t \in AppTasks /\ t \in Range(pxDelayedTaskList)
    BY <1>1, <2>1, HeadLeaves
  <2> QED
    BY <2>2 DEF Lists, ListsSound, Asleep
<1>3. xSchedulerRunning
  BY <1>1, Zenon DEF IInv, BeforeStart
<1> HIDE DEF t
<1>4. /\ c \in Seq(Items) /\ Distinct(c) /\ End \in Range(c)
      /\ \A u \in AppTasks : (u \in Ready <=> u \in Range(c)) /\ u # End /\ u \in Items /\ u \in Tasks
  BY AppList
<1>5. Ready' = Ready \union {t}
  BY <1>1, <1>2, <1>4, ReadyOfLists, AddReady DEF prvAddTaskToReadyList, Lists, ListsSound
<1>6. pxReadyTasksLists'[2] = listINSERT_END(c, t)
  <2>1. uxPriority[t] = 2 /\ 2 \in DOMAIN pxReadyTasksLists
    BY <1>2, PriorityOfAll DEF Lists, ListsSound, ReadyLists, Priorities
  <2> QED
    BY <1>1, <2>1 DEF prvAddTaskToReadyList
<1>7. \A u \in AppTasks : Waiting(u) => Waiting(u)'
  BY <1>1, <1>5 DEF Waiting
<1>8. ASSUME NEW u \in AppTasks, NEW v \in AppTasks, NEW n \in 0 .. 3,
             Waiting(u), Bound(c, u, v, n)
      PROVE  Bound(pxReadyTasksLists'[2], u, v, n)
  <2>1. u \in Range(c) \ {End} /\ v # End /\ t \in Items /\ t \notin Range(c)
    BY <1>2, <1>4, <1>8 DEF Waiting
  <2> HIDE DEF c
  <2> QED
    BY <1>4, <1>6, <1>8, <2>1, NewcomerOvertakesNone
<1> QED
  BY <1>1, <1>3, <1>7, <1>8, OvertakingKept

LEMMA SwitchOvertaking == IInv /\ Lists /\ Overtaking /\ vTaskSwitchContext => Overtaking'
<1> SUFFICES ASSUME IInv, Lists, Overtaking, vTaskSwitchContext PROVE Overtaking'
  OBVIOUS
<1> DEFINE p    == TopReady
           next == listGET_OWNER_OF_NEXT_ENTRY(pxReadyTasksLists[p])
           t    == next[Len(next)]
           c    == pxReadyTasksLists[2]
           d    == pxReadyTasksLists'[2]
           More(u, v) == IF v = t /\ overtook[u][v] < 3 THEN overtook[u][v] + 1 ELSE overtook[u][v]
<1>1. xSchedulerRunning /\ UNCHANGED xSchedulerRunning
  BY SwitchChooses, Zenon DEF vTaskSwitchContext, bootVars
<1>2. /\ p \in Priorities /\ pxReadyTasksLists[p] # <<End>>
      /\ pxReadyTasksLists' = [pxReadyTasksLists EXCEPT ![p] = next]
      /\ pc' = [pc EXCEPT ![t] = IF pc[t] = "off" THEN "turn" ELSE pc[t]]
      /\ overtook' = [u \in AppTasks |-> [v \in AppTasks |->
                        IF u = t \/ ~Waiting(u) THEN 0 ELSE More(u, v)]]
      /\ Ready' = Ready /\ t \in Ready /\ uxPriority[t] = p /\ t \in Tasks
  BY SwitchEffect
<1>3. next = listGET_OWNER_OF_NEXT_ENTRY(pxReadyTasksLists[p]) /\ t = next[Len(next)]
  OBVIOUS
<1> HIDE DEF p, next, t
<1>4. \A u, v \in AppTasks : overtook[u][v] \in 0 .. 3 /\ More(u, v) \in 0 .. 3
  <2> TAKE u, v \in AppTasks
  <2>1. overtook[u][v] \in 0 .. 3
    BY DEF Overtaking
  <2> QED
    BY <2>1
<1> HIDE DEF More
<1>5. /\ overtook' \in [AppTasks -> [AppTasks -> 0 .. 3]]
      /\ \A u, v \in AppTasks :
           overtook'[u][v] = IF u = t \/ ~Waiting(u) THEN 0 ELSE More(u, v)
  BY <1>2, <1>4
<1>6. ASSUME NEW u \in AppTasks, NEW v \in AppTasks
      PROVE  /\ ~Waiting(u)' => overtook'[u][v] = 0
             /\ Bound(d, u, v, overtook'[u][v])
  <2>1. CASE u = t \/ ~Waiting(u)
    BY <1>5, <2>1, NoneInBound
  <2>2. CASE u # t /\ Waiting(u)
    <3>1. Waiting(u)'
      <4>1. u \in Tasks /\ pc \in [Tasks -> Places]
        BY PriorityOfAll DEF IInv, PlacesKnown
      <4> QED
        BY <1>2, <2>2, <4>1 DEF Waiting
    <3>2. overtook'[u][v] = More(u, v) /\ Bound(c, u, v, overtook[u][v])
      BY <1>5, <2>2 DEF Overtaking
    <3>3. CASE p = 2
      <4>1. /\ c \in Seq(Items) /\ Distinct(c) /\ End \in Range(c)
            /\ u \in Range(c) \ {End}
        BY <2>2, AppList DEF Waiting
      <4>2. d = next /\ next = listGET_OWNER_OF_NEXT_ENTRY(c) /\ c # <<End>>
        <5>1. 2 \in DOMAIN pxReadyTasksLists
          BY DEF Lists, ListsSound, ReadyLists, Priorities
        <5> QED
          BY <1>2, <1>3, <3>3, <5>1
      <4> HIDE DEF c
      <4>3. Bound(next, u, v, More(u, v))
        BY <1>3, <1>4, <2>2, <3>2, <4>1, <4>2, ChosenOvertakes DEF More
      <4> QED
        BY <3>1, <3>2, <4>2, <4>3
    <3>4. CASE p # 2
      <4>1. d = c
        BY <1>2, <3>4
      <4>2. v # t
        BY <1>2, <3>4, PriorityOfAll
      <4> QED
        BY <3>1, <3>2, <4>1, <4>2 DEF More
    <3> QED
      BY <3>3, <3>4
  <2> QED
    BY <2>1, <2>2
<1> QED
  BY <1>1, <1>5, <1>6 DEF Overtaking

LEMMA OvertakingNext == IInv /\ Lists /\ Overtaking /\ [Next]_vars => Overtaking'
<1> SUFFICES ASSUME IInv, Lists, Overtaking, [Next]_vars PROVE Overtaking'
  OBVIOUS
<1> DEFINE Same == UNCHANGED <<overtook, xSchedulerRunning, pxReadyTasksLists, pc>>
<1>0. Same => Overtaking'
  BY QuietOvertaking
<1>1. CASE prvAddNewTaskToReadyList
  <2>1. created # Len(Created)
    BY <1>1, CreatedTasks DEF prvAddNewTaskToReadyList, Lists, CreatedReady
  <2>2. ~xSchedulerRunning
    BY <2>1, Zenon DEF IInv, BeforeStart
  <2>3. UNCHANGED overtook
    BY <1>1, Zenon DEF prvAddNewTaskToReadyList
  <2> QED
    BY <2>2, <2>3, OvertakingBefore
<1>2. CASE vTaskStartScheduler
  <2>1. \A u, v \in AppTasks : overtook'[u][v] = 0
    BY <1>2, Zenon DEF vTaskStartScheduler, Overtaking
  <2>2. UNCHANGED overtook
    BY <1>2, Zenon DEF vTaskStartScheduler
  <2> QED
    BY <2>1, <2>2, NoneInBound DEF Overtaking
<1>3. ASSUME NEW t \in Tasks, Step(t) PROVE Overtaking'
  <2>0. pc \in [Tasks -> Places]
    BY DEF IInv, PlacesKnown
  <2>1. CASE prvAddCurrentTaskToDelayedList(t)
    BY <2>1, PlaceOvertaking
  <2>2. CASE UnwindTick(t)
    BY <1>0, <2>2, Zenon DEF UnwindTick, CountTick, bootVars
  <2>3. CASE ~prvAddCurrentTaskToDelayedList(t) /\ ~UnwindTick(t)
    <3>1. /\ UNCHANGED <<overtook, xSchedulerRunning, pxReadyTasksLists>>
          /\ pc[t] # "off" /\ \E place : pc' = [pc EXCEPT ![t] = place]
      <4>1. CASE vTaskSuspendAll(t)
        BY <4>1 DEF vTaskSuspendAll, Thread, Goto, bootVars
      <4>2. CASE xTaskResumeAll(t)
        BY <4>2 DEF xTaskResumeAll, Thread, Goto, bootVars
      <4>3. CASE Resumed(t)
        BY <4>3 DEF Resumed, Thread, Goto, bootVars
      <4>4. CASE vPortYield(t)
        BY <4>4 DEF vPortYield, Thread, Goto, bootVars
      <4> QED
        BY <1>3, <2>3, <4>1, <4>2, <4>3, <4>4 DEF Step
    <3>2. \A u \in Tasks : pc[u] = "off" => pc'[u] = "off"
      BY <2>0, <3>1
    <3> QED
      BY <3>1, <3>2, QuietOvertaking
  <2> QED
    BY <2>1, <2>2, <2>3
<1>4. CASE SysTick_Handler \/ TickDone
  BY <1>0, <1>4, Zenon DEF SysTick_Handler, CountTick, TickDone, bootVars
<1>5. CASE UNCHANGED vars
  BY <1>0, <1>5, Zenon DEF vars, bootVars
<1> QED
  BY <1>1, <1>2, <1>3, <1>4, <1>5, SwitchOvertaking, WakeOvertaking DEF Next, Processor, Tick

LEMMA OvertakingInvariant == Spec => []Overtaking
BY InitOvertaking, OvertakingNext, KernelInvariant, ListsInvariant, PTL DEF Spec

(* Between two turns of a task every other has at most two, however many tasks there are
   and whatever they sleep. *)
THEOREM OvertakenAtMostTwice == Spec => []OvertakenTwice
<1>1. Lists /\ Overtaking => OvertakenTwice
  <2> SUFFICES ASSUME Lists, Overtaking, NEW u \in AppTasks, NEW v \in AppTasks
               PROVE  overtook[u][v] <= 2
    BY DEF OvertakenTwice
  <2>1. overtook[u][v] \in 0 .. 3 /\ Bound(pxReadyTasksLists[2], u, v, overtook[u][v])
    BY DEF Overtaking
  <2>2. CASE ~Waiting(u)
    BY <2>2 DEF Overtaking
  <2>3. CASE Waiting(u)
    <3> DEFINE c == pxReadyTasksLists[2]
    <3>1. /\ c \in Seq(Items) /\ Distinct(c) /\ End \in Range(c)
          /\ u \in Range(c) /\ u # End
      BY <2>3, AppList DEF Waiting
    <3> HIDE DEF c
    <3>2. Before(c, u, End) \/ Before(c, End, u)
      BY <3>1, OrderFacts
    <3> QED
      BY <2>1, <3>2 DEF Bound, c
  <2> QED
    BY <2>2, <2>3
<1> QED
  BY <1>1, ListsInvariant, OvertakingInvariant, PTL

--------------------------------------------------------------------------------
SuspendedKnown == xSuspendedTaskList \subseteq Tasks

LEMMA SuspendedNext == SuspendedKnown /\ [Next]_vars => SuspendedKnown'
<1> SUFFICES ASSUME SuspendedKnown, [Next]_vars PROVE SuspendedKnown'
  OBVIOUS
<1> DEFINE Same == UNCHANGED xSuspendedTaskList
<1>0. Same => SuspendedKnown'
  BY DEF SuspendedKnown
<1>1. ASSUME NEW t \in Tasks, Step(t) PROVE SuspendedKnown'
  <2>1. CASE prvAddCurrentTaskToDelayedList(t)
    <3>1. Same \/ xSuspendedTaskList' = xSuspendedTaskList \union {t}
      BY <2>1, Zenon DEF prvAddCurrentTaskToDelayedList
    <3> QED
      BY <1>0, <3>1 DEF SuspendedKnown
  <2>2. CASE ~prvAddCurrentTaskToDelayedList(t)
    BY <1>0, <1>1, <2>2, Zenon
       DEF Step, vTaskSuspendAll, xTaskResumeAll, UnwindTick, CountTick, Resumed, vPortYield,
           sleepVars
  <2> QED
    BY <2>1, <2>2
<1>2. CASE prvAddNewTaskToReadyList \/ vTaskStartScheduler \/ vTaskSwitchContext
  BY <1>0, <1>2, Zenon
     DEF prvAddNewTaskToReadyList, vTaskStartScheduler, vTaskSwitchContext, sleepVars
<1>3. CASE Tick
  BY <1>0, <1>3, Zenon DEF Tick, SysTick_Handler, CountTick, WakeOne, TickDone, sleepVars
<1>4. CASE UNCHANGED vars
  BY <1>0, <1>4, Zenon DEF vars, sleepVars
<1> QED
  BY <1>1, <1>2, <1>3, <1>4 DEF Next, Processor

(* Types, as the invariants of the kernel have them for every instance. *)
THEOREM TypesHold == Spec => []TypeOK
<1>1. IInv /\ Counted /\ Lists /\ Sleeping /\ Overtaking /\ SuspendedKnown => TypeOK
  <2> SUFFICES ASSUME IInv, Counted, Lists, Sleeping, Overtaking, SuspendedKnown PROVE TypeOK
    OBVIOUS
  <2>1. created \in 0 .. Len(Created) /\ pxCurrentTCB \in Tasks \union {End}
    BY CreatedTasks DEF Lists, CreatedReady, CurrentKnown
  <2>2. pxReadyTasksLists \in [Priorities -> Seq(Tasks \union {End})]
    BY DEF Lists, ListsSound, ReadyLists, ListOf, Items
  <2>3. pxDelayedTaskList \in Seq(Tasks) /\ pxOverflowDelayedTaskList \in Seq(Tasks)
    BY PriorityOfAll DEF IInv, SleepersAreApps
  <2>4. /\ wake \in [Tasks -> 0 .. MaxTick] /\ left \in [Tasks -> 0 .. MaxTick]
        /\ xNextTaskUnblockTime \in 0 .. MaxTick
    BY DEF Sleeping, SleepTypes
  <2>5. /\ xTickCount \in 0 .. MaxTick /\ beats \in 0 .. MaxTick
        /\ xPendedTicks \in 0 .. MaxPended
    BY DEF Counted, CountsKnown
  <2>6. uxSchedulerSuspended \in {0, 1} /\ xYieldPending \in BOOLEAN
    BY DEF IInv, SuspendedByOne, NeverPends
  <2>7. /\ xSchedulerRunning \in BOOLEAN /\ pendSV \in BOOLEAN
        /\ ticking \in {"nobody", "handler", "resuming"} /\ pc \in [Tasks -> Places]
    BY Zenon DEF IInv, PlacesKnown
  <2> QED
    BY <2>1, <2>2, <2>3, <2>4, <2>5, <2>6, <2>7, Zenon DEF TypeOK, Overtaking, SuspendedKnown
<1>2. Init => SuspendedKnown
  BY DEF Init, SuspendedKnown
<1> QED
  BY <1>1, <1>2, SuspendedNext, KernelInvariant, CountedInvariant, ListsInvariant,
     SleepingInvariant, OvertakingInvariant, PTL DEF Spec
================================================================================
