-------------------------------- MODULE Scheduler --------------------------------
(***************************************************************************)
(* The part of FreeRTOS this firmware runs on: three tasks of one          *)
(* priority that sleep by vTaskDelay, the idle task, and the timer task,   *)
(* which has no timers and goes to sleep for good.  One core, preemption   *)
(* without time slices, nothing but the tick wakes a task.                 *)
(*                                                                         *)
(* A thread step is what no interrupt can look into: the tick handler, the *)
(* context switch, a critical section.  While the scheduler is suspended a *)
(* tick is only counted, so that prvAddCurrentTaskToDelayedList is one     *)
(* step too.  xTaskIncrementTick is cut into its loop's iterations, with   *)
(* the interrupts masked throughout.                                       *)
(***************************************************************************)
EXTENDS Integers, Sequences, FiniteSets, Functions

CONSTANTS
  Apps,                 \* the application's tasks, in the order they are created
  DelayOf,              \* the ticks each of them sleeps after a turn
  IdleTask, TimerTask,
  End,                  \* xListEnd of a ready list
  MaxTick,              \* portMAX_DELAY: xTickCount wraps after it
  MaxPended             \* bound: ticks that fall into one suspension

Created  == Apps \o <<IdleTask, TimerTask>>
AppTasks == {Apps[i] : i \in 1 .. Len(Apps)}
Tasks    == AppTasks \union {IdleTask, TimerTask}

ASSUME SchedulerAssumption ==
  /\ Apps \in Seq(AppTasks) /\ Apps # <<>>
  /\ \A i, j \in 1 .. Len(Apps) : Apps[i] = Apps[j] => i = j
  /\ IdleTask \notin AppTasks /\ TimerTask \notin AppTasks /\ IdleTask # TimerTask
  /\ End \notin Tasks
  /\ MaxTick \in Nat \ {0} /\ MaxPended \in 0 .. MaxTick
  /\ DelayOf \in [AppTasks -> 1 .. MaxTick]

(* xTaskCreate of freertos_manager.c, prvCreateIdleTasks, xTimerCreateTimerTask *)
uxPriority == [t \in Tasks |-> IF t = IdleTask THEN 0 ELSE IF t = TimerTask THEN 4 ELSE 2]
Priorities == 0 .. 4

VARIABLES
  created,                       \* how many tasks there are
  xSchedulerRunning,
  pxCurrentTCB,                  \* End before there is a task
  pxReadyTasksLists,
  pxDelayedTaskList, pxOverflowDelayedTaskList,
  xSuspendedTaskList,
  wake,                          \* xItemValue of each task's xStateListItem
  xTickCount, xNextTaskUnblockTime,
  uxSchedulerSuspended, xPendedTicks, xYieldPending,
  pendSV,                        \* a context switch is pending
  ticking,                       \* who is inside xTaskIncrementTick
  pc,                            \* where each task is
  left,                          \* history: counted ticks a sleeper still has to go
  beats,                         \* history: ticks of the timer, as xTickCount counts
  overtook                       \* history: turns the others began while a task waits
                                 \* for its own, counted up to 3

bootVars  == <<created, xSchedulerRunning>>
sleepVars == <<pxDelayedTaskList, pxOverflowDelayedTaskList, xSuspendedTaskList, wake, left>>
tickVars  == <<xTickCount, xNextTaskUnblockTime, xPendedTicks, ticking, beats>>
vars == <<bootVars, pxCurrentTCB, pxReadyTasksLists, sleepVars, tickVars,
          uxSchedulerSuspended, xYieldPending, pendSV, pc, overtook>>

--------------------------------------------------------------------------------
(* Lists.  A ready list is a circle of its items and End; it is written so *)
(* that the item at pxIndex comes last, hence the next one to run first.   *)

(* Slip: in front of the others. *)
SlipInsertFirst(c, t) == <<t>> \o c

listINSERT_END(c, t) == SubSeq(c, 1, Len(c) - 1) \o <<t, c[Len(c)]>>

(* When the item at pxIndex is removed, its predecessor is at pxIndex. *)
uxListRemove(c, t) ==
  LET i == CHOOSE i \in 1 .. Len(c) : c[i] = t
  IN  SubSeq(c, 1, i - 1) \o SubSeq(c, i + 1, Len(c))

Advance(c) == Tail(c) \o <<Head(c)>>

(* Slip: always the first of the list. *)
SlipAlwaysFirst(c) ==
  LET i == CHOOSE i \in 1 .. Len(c) : c[i] = End
  IN  Advance(SubSeq(c, i + 1, Len(c)) \o SubSeq(c, 1, i))

listGET_OWNER_OF_NEXT_ENTRY(c) == IF Head(c) = End THEN Advance(Advance(c)) ELSE Advance(c)

(* The delayed lists are sorted: a newcomer goes behind all that are not later,
   its equals among them. *)
vListInsert(s, t, value) ==
  LET i == Cardinality({j \in 1 .. Len(s) : wake[s[j]] <= value})
  IN  SubSeq(s, 1, i) \o <<t>> \o SubSeq(s, i + 1, Len(s))

prvAddTaskToReadyList(t) ==
  pxReadyTasksLists' = [pxReadyTasksLists EXCEPT ![uxPriority[t]] = listINSERT_END(@, t)]

Ready == (UNION {Range(pxReadyTasksLists[p]) : p \in Priorities}) \ {End}

--------------------------------------------------------------------------------
(* Start.  SysTick runs from FreeRTOS_Run on, when the application's tasks *)
(* have been created; the kernel's own are created while it does.          *)

Init ==
  /\ created = 0 /\ xSchedulerRunning = FALSE /\ pxCurrentTCB = End
  /\ pxReadyTasksLists = [p \in Priorities |-> <<End>>]
  /\ pxDelayedTaskList = <<>> /\ pxOverflowDelayedTaskList = <<>>
  /\ xSuspendedTaskList = {}
  /\ wake = [t \in Tasks |-> 0] /\ left = [t \in Tasks |-> 0]
  /\ xTickCount = 0 /\ xNextTaskUnblockTime = 0
  /\ uxSchedulerSuspended = 0 /\ xPendedTicks = 0 /\ xYieldPending = FALSE
  /\ pendSV = FALSE /\ ticking = "nobody" /\ beats = 0
  /\ pc = [t \in Tasks |-> "off"]
  /\ overtook = [u \in AppTasks |-> [t \in AppTasks |-> 0]]

prvAddNewTaskToReadyList ==
  /\ created < Len(Created) /\ ticking = "nobody"
  /\ LET t == Created[created + 1]
     IN  /\ pxCurrentTCB' = IF created = 0 \/ uxPriority[pxCurrentTCB] <= uxPriority[t]
                            THEN t ELSE pxCurrentTCB
         /\ prvAddTaskToReadyList(t)
  /\ created' = created + 1
  /\ UNCHANGED <<xSchedulerRunning, sleepVars, tickVars, uxSchedulerSuspended,
                 xYieldPending, pendSV, pc, overtook>>

vTaskStartScheduler ==
  /\ created = Len(Created) /\ ~xSchedulerRunning /\ ticking = "nobody"
  /\ xSchedulerRunning' = TRUE
  /\ xNextTaskUnblockTime' = MaxTick /\ xTickCount' = 0 /\ beats' = 0
  /\ pc' = [pc EXCEPT ![pxCurrentTCB] = "turn"]
  /\ UNCHANGED <<created, pxCurrentTCB, pxReadyTasksLists, sleepVars, xPendedTicks,
                 ticking, uxSchedulerSuspended, xYieldPending, pendSV, overtook>>

--------------------------------------------------------------------------------
(* vTaskDelay, and the timer task's wait, which differs in having no end. *)

Thread(t, place) ==
  /\ xSchedulerRunning /\ pxCurrentTCB = t /\ pc[t] = place
  /\ ~pendSV /\ ticking = "nobody"

Goto(t, place) == pc' = [pc EXCEPT ![t] = place]

vTaskSuspendAll(t) ==
  /\ t # IdleTask /\ Thread(t, "turn")
  /\ uxSchedulerSuspended' = uxSchedulerSuspended + 1
  /\ Goto(t, "suspended")
  /\ UNCHANGED <<bootVars, pxCurrentTCB, pxReadyTasksLists, sleepVars, tickVars,
                 xYieldPending, pendSV, overtook>>

Sleep(t, xTimeToWake) ==
  IF xTimeToWake < xTickCount
  THEN /\ pxOverflowDelayedTaskList' = vListInsert(pxOverflowDelayedTaskList, t, xTimeToWake)
       /\ UNCHANGED <<pxDelayedTaskList, xNextTaskUnblockTime>>
  ELSE /\ pxDelayedTaskList' = vListInsert(pxDelayedTaskList, t, xTimeToWake)
       /\ xNextTaskUnblockTime' = IF xTimeToWake < xNextTaskUnblockTime
                                  THEN xTimeToWake ELSE xNextTaskUnblockTime
       /\ UNCHANGED pxOverflowDelayedTaskList

(* xConstTickCount + xTicksToWait, as 32 bits hold it *)
TicksLater(d) == IF xTickCount + d > MaxTick THEN xTickCount + d - MaxTick - 1 ELSE xTickCount + d

prvAddCurrentTaskToDelayedList(t) ==
  /\ Thread(t, "suspended")
  /\ pxReadyTasksLists' = [pxReadyTasksLists EXCEPT ![uxPriority[t]] = uxListRemove(@, t)]
  /\ IF t = TimerTask
     THEN /\ xSuspendedTaskList' = xSuspendedTaskList \union {t}
          /\ UNCHANGED <<pxDelayedTaskList, pxOverflowDelayedTaskList, wake, left,
                         xNextTaskUnblockTime>>
     ELSE /\ wake' = [wake EXCEPT ![t] = TicksLater(DelayOf[t])]
          /\ left' = [left EXCEPT ![t] = DelayOf[t]]
          /\ Sleep(t, TicksLater(DelayOf[t]))
          /\ UNCHANGED xSuspendedTaskList
  /\ Goto(t, "placed")
  /\ UNCHANGED <<bootVars, pxCurrentTCB, xTickCount, xPendedTicks, ticking, beats,
                 uxSchedulerSuspended, xYieldPending, pendSV, overtook>>

(* xTaskResumeAll masks the interrupts, counts the ticks that were pended, *)
(* and asks for a switch if they call for one; else vTaskDelay asks.       *)
xTaskResumeAll(t) ==
  /\ Thread(t, "placed")
  /\ uxSchedulerSuspended' = uxSchedulerSuspended - 1
  /\ Goto(t, "resuming")
  /\ UNCHANGED <<bootVars, pxCurrentTCB, pxReadyTasksLists, sleepVars, tickVars,
                 xYieldPending, pendSV, overtook>>

(* Slip: the ticks that were pended are forgotten. *)
SlipForgetTicks(t) ==
  /\ Thread(t, "resuming")
  /\ xPendedTicks' = 0
  /\ pendSV' = xYieldPending
  /\ Goto(t, IF xYieldPending THEN "off" ELSE "yielding")
  /\ UNCHANGED <<bootVars, pxCurrentTCB, pxReadyTasksLists, sleepVars, xTickCount,
                 xNextTaskUnblockTime, ticking, beats, uxSchedulerSuspended,
                 xYieldPending, overtook>>

Resumed(t) ==
  /\ Thread(t, "resuming") /\ xPendedTicks = 0
  /\ pendSV' = xYieldPending
  /\ Goto(t, IF xYieldPending THEN "off" ELSE "yielding")
  /\ UNCHANGED <<bootVars, pxCurrentTCB, pxReadyTasksLists, sleepVars, tickVars,
                 uxSchedulerSuspended, xYieldPending, overtook>>

vPortYield(t) ==
  /\ Thread(t, "yielding")
  /\ pendSV' = TRUE
  /\ Goto(t, "off")
  /\ UNCHANGED <<bootVars, pxCurrentTCB, pxReadyTasksLists, sleepVars, tickVars,
                 uxSchedulerSuspended, xYieldPending, overtook>>

--------------------------------------------------------------------------------
(* xTaskIncrementTick, from the tick handler or for a tick that was pended. *)

(* Slip: no wrap. *)
SlipNoWrap(n) == n + 1

OneLater(n) == IF n = MaxTick THEN 0 ELSE n + 1

taskSWITCH_DELAYED_LISTS ==
  /\ pxDelayedTaskList' = pxOverflowDelayedTaskList
  /\ pxOverflowDelayedTaskList' = pxDelayedTaskList
  /\ xNextTaskUnblockTime' = IF pxOverflowDelayedTaskList = <<>> THEN MaxTick
                             ELSE wake[Head(pxOverflowDelayedTaskList)]

Asleep == Range(pxDelayedTaskList) \union Range(pxOverflowDelayedTaskList)

CountTick(who) ==
  /\ xTickCount' = OneLater(xTickCount)
  /\ IF xTickCount' = 0 THEN taskSWITCH_DELAYED_LISTS
     ELSE UNCHANGED <<pxDelayedTaskList, pxOverflowDelayedTaskList, xNextTaskUnblockTime>>
  /\ left' = [t \in Tasks |-> IF t \in Asleep THEN left[t] - 1 ELSE left[t]]
  /\ ticking' = who
  /\ UNCHANGED <<bootVars, pxCurrentTCB, pxReadyTasksLists, xSuspendedTaskList, wake,
                 uxSchedulerSuspended, xYieldPending, pendSV, pc, overtook>>

InCritical == xSchedulerRunning /\ pc[pxCurrentTCB] = "resuming"

SysTick_Handler ==
  /\ created >= Len(Apps) /\ ticking = "nobody" /\ ~InCritical
  /\ beats' = OneLater(beats)
  /\ IF uxSchedulerSuspended = 0
     THEN CountTick("handler") /\ UNCHANGED xPendedTicks
     ELSE /\ xPendedTicks < MaxPended
          /\ xPendedTicks' = xPendedTicks + 1
          /\ UNCHANGED <<bootVars, pxCurrentTCB, pxReadyTasksLists, sleepVars, xTickCount,
                         xNextTaskUnblockTime, ticking, uxSchedulerSuspended,
                         xYieldPending, pendSV, pc, overtook>>

(* The local copy xPendedCounts and xPendedTicks are one here: interrupts are masked. *)
UnwindTick(t) ==
  /\ Thread(t, "resuming") /\ xPendedTicks > 0
  /\ xPendedTicks' = xPendedTicks - 1
  /\ CountTick("resuming")
  /\ UNCHANGED beats

Due == /\ xTickCount >= xNextTaskUnblockTime /\ pxDelayedTaskList # <<>>
       /\ wake[Head(pxDelayedTaskList)] <= xTickCount

(* Slip: an equal takes the processor, as with time slices. *)
SlipEqualsPreempt(t) == uxPriority[t] >= uxPriority[pxCurrentTCB]

(* Slip: nobody is preempted. *)
SlipNobodyPreempts(t) == FALSE

MustSwitch(t) == uxPriority[t] > uxPriority[pxCurrentTCB]

AskForSwitch ==
  IF ticking = "handler" THEN pendSV' = TRUE /\ UNCHANGED xYieldPending
  ELSE xYieldPending' = TRUE /\ UNCHANGED pendSV

WakeOne ==
  /\ ticking # "nobody" /\ Due
  /\ LET t == Head(pxDelayedTaskList)
     IN  /\ prvAddTaskToReadyList(t)
         /\ IF MustSwitch(t) THEN AskForSwitch ELSE UNCHANGED <<xYieldPending, pendSV>>
  /\ pxDelayedTaskList' = Tail(pxDelayedTaskList)
  /\ UNCHANGED <<bootVars, pxCurrentTCB, pxOverflowDelayedTaskList, xSuspendedTaskList,
                 wake, left, tickVars, uxSchedulerSuspended, pc, overtook>>

TickDone ==
  /\ ticking # "nobody" /\ ~Due
  /\ xNextTaskUnblockTime' = IF xTickCount < xNextTaskUnblockTime THEN xNextTaskUnblockTime
                             ELSE IF pxDelayedTaskList = <<>> THEN MaxTick
                             ELSE wake[Head(pxDelayedTaskList)]
  /\ IF xYieldPending THEN AskForSwitch ELSE UNCHANGED <<xYieldPending, pendSV>>
  /\ ticking' = "nobody"
  /\ UNCHANGED <<bootVars, pxCurrentTCB, pxReadyTasksLists, sleepVars, xTickCount,
                 xPendedTicks, beats, uxSchedulerSuspended, pc, overtook>>

--------------------------------------------------------------------------------
(* PendSV: the context switch. *)

Waiting(t) == pc[t] = "off" /\ t \in Ready

TopReady == CHOOSE p \in Priorities :
              /\ pxReadyTasksLists[p] # <<End>>
              /\ \A q \in Priorities : q > p => pxReadyTasksLists[q] = <<End>>

taskSELECT_HIGHEST_PRIORITY_TASK ==
  LET next == listGET_OWNER_OF_NEXT_ENTRY(pxReadyTasksLists[TopReady])
      t    == next[Len(next)]
  IN  /\ pxReadyTasksLists' = [pxReadyTasksLists EXCEPT ![TopReady] = next]
      /\ pxCurrentTCB' = t
      /\ Goto(t, IF pc[t] = "off" THEN "turn" ELSE pc[t])
      /\ overtook' = [u \in AppTasks |-> [v \in AppTasks |->
                        IF u = t \/ ~Waiting(u) THEN 0
                        ELSE IF v = t /\ overtook[u][v] < 3 THEN overtook[u][v] + 1
                        ELSE overtook[u][v]]]

vTaskSwitchContext ==
  /\ pendSV /\ ticking = "nobody" /\ ~InCritical
  /\ pendSV' = FALSE
  /\ IF uxSchedulerSuspended # 0
     THEN /\ xYieldPending' = TRUE
          /\ UNCHANGED <<pxCurrentTCB, pxReadyTasksLists, pc, overtook>>
     ELSE xYieldPending' = FALSE /\ taskSELECT_HIGHEST_PRIORITY_TASK
  /\ UNCHANGED <<bootVars, sleepVars, tickVars, uxSchedulerSuspended>>

Step(t) ==
  \/ vTaskSuspendAll(t) \/ prvAddCurrentTaskToDelayedList(t) \/ xTaskResumeAll(t)
  \/ UnwindTick(t) \/ Resumed(t) \/ vPortYield(t)

(* What the processor does between two ticks; never more than one of these can. *)
Processor ==
  \/ prvAddNewTaskToReadyList \/ vTaskStartScheduler
  \/ \E t \in Tasks : Step(t)
  \/ vTaskSwitchContext

Tick == SysTick_Handler \/ WakeOne \/ TickDone

Next == Processor \/ Tick

(* The timer ticks; the handler returns long before the next tick, so that what
   it interrupted goes on between two ticks (hence strong fairness: it is not
   enabled all the time); and every turn ends. *)
Fairness == WF_vars(Tick) /\ SF_vars(Processor)

Spec == Init /\ [][Next]_vars /\ Fairness

--------------------------------------------------------------------------------
Places == {"off", "turn", "suspended", "placed", "resuming", "yielding"}

(* Types. *)
TypeOK ==
  /\ created \in 0 .. Len(Created) /\ xSchedulerRunning \in BOOLEAN
  /\ pxCurrentTCB \in Tasks \union {End}
  /\ pxReadyTasksLists \in [Priorities -> Seq(Tasks \union {End})]
  /\ pxDelayedTaskList \in Seq(Tasks) /\ pxOverflowDelayedTaskList \in Seq(Tasks)
  /\ xSuspendedTaskList \subseteq Tasks
  /\ wake \in [Tasks -> 0 .. MaxTick] /\ left \in [Tasks -> 0 .. MaxTick]
  /\ xTickCount \in 0 .. MaxTick /\ xNextTaskUnblockTime \in 0 .. MaxTick
  /\ beats \in 0 .. MaxTick
  /\ uxSchedulerSuspended \in {0, 1} /\ xPendedTicks \in 0 .. MaxPended
  /\ xYieldPending \in BOOLEAN /\ pendSV \in BOOLEAN
  /\ ticking \in {"nobody", "handler", "resuming"}
  /\ pc \in [Tasks -> Places]
  /\ overtook \in [AppTasks -> [AppTasks -> 0 .. 3]]

(* A task of the application keeps the processor until it has given it up: it
   is switched out only at the end of a vTaskDelay.  Everything the other models
   say about which steps can interleave rests on this
   (configUSE_TIME_SLICING is 0 and all three have one priority). *)
Cooperative ==
  [][xSchedulerRunning /\ pxCurrentTCB \in AppTasks /\ pxCurrentTCB' # pxCurrentTCB
     => pc[pxCurrentTCB] = "off"]_vars

(* Who has its turn is ready to have it, and nobody of higher priority is:
   a task never runs on while it is on a list of sleepers. *)
HighestRuns ==
  xSchedulerRunning /\ ~pendSV /\ ticking = "nobody" /\ pc[pxCurrentTCB] = "turn" =>
    /\ pxCurrentTCB \in Range(pxReadyTasksLists[uxPriority[pxCurrentTCB]])
    /\ \A t \in Ready : uxPriority[t] <= uxPriority[pxCurrentTCB]

(* No tick is lost while the scheduler is suspended ("This ensures the tick
   count does not slip", tasks.c:4099). *)
TickCountKeepsUp ==
  xSchedulerRunning =>
    beats = IF xTickCount + xPendedTicks > MaxTick
            THEN xTickCount + xPendedTicks - MaxTick - 1 ELSE xTickCount + xPendedTicks

SleepersDue ==
  /\ \A t \in Asleep : left[t] > 0
  /\ \A t \in AppTasks : t \notin Asleep => left[t] = 0
  /\ \A t \in Range(pxDelayedTaskList) : wake[t] = xTickCount + left[t]
  /\ \A t \in Range(pxOverflowDelayedTaskList) :
       wake[t] = xTickCount + left[t] - MaxTick - 1

(* A sleeper is woken by the tick its delay ends with, not before and not after,
   across the wrap of xTickCount, whichever of the two lists it is on, and
   whether ticks were counted at once or pended.  So taskSWITCH_DELAYED_LISTS never
   halts the module by its assertion that nobody is left on the list (tasks.c:270). *)
SleepsItsTime ==
  /\ TickCountKeepsUp
  /\ ticking = "nobody" =>
       /\ SleepersDue
       /\ xTickCount = MaxTick => pxDelayedTaskList = <<>>

(* While a task waits for its turn, every other begins at most two: the one that is
   due to it, and one more if it is woken in the window in which it or another is
   leaving.  There pxIndex has gone back to a task that waits, and the newcomer is
   put before it, not last as list.h:356 has it. *)
OvertakenTwice == \A t, u \in AppTasks : overtook[u][t] <= 2

(* Every task gets turns for ever. *)
EveryoneRuns == \A t \in AppTasks : []<>(pxCurrentTCB = t /\ pc[t] = "turn")
================================================================================
