------------------------------ MODULE Process ------------------------------
(***************************************************************************)
(* The process table and scheduler of src/x86_64/kernel/process.c,         *)
(* composed with the heap allocator it takes process stacks from.          *)
(*                                                                         *)
(* sched is the file-scope state of process.c:                             *)
(*   proc    processes[]: per slot pid, state, priority, is_suspended, the *)
(*           single next link (shared by process_list and ready_queue),    *)
(*           stack_base (a heap pointer, or 0), time_slice and age, the    *)
(*           time since last_scheduled (capped at Cap, see below)          *)
(*   plist   process_list head;  rq  ready_queue head                     *)
(*   cur     current_process;    nextPid  next_pid                        *)
(*   count   process_count;      clk  time_counter of get_system_time      *)
(* Links are slot indices, NIL is -1.  Fields that only hold data nobody   *)
(* reads back (name, entry point, registers, parent, prev, creation_time,  *)
(* cpu_time and the statistics) are left out.                              *)
(*                                                                         *)
(* Time: get_system_time returns ++time_counter, so every call advances    *)
(* the clock, and the only use of time is the test                         *)
(* current_time - last_scheduled >= time_slice.  A slot therefore keeps    *)
(* age = current_time - last_scheduled capped at Cap >= every time slice,  *)
(* which decides that test exactly with finitely many values; clk is the   *)
(* clock capped the same way (create sets last_scheduled to 0, so a new    *)
(* slot's age is the clock).                                               *)
(***************************************************************************)
EXTENDS HeapOps

CONSTANTS
    MAX_PROCESSES,  \* size of processes[] (process.c:12, scaled)
    STACK_SIZE,     \* bytes of a process stack (memory_layout.h:34, scaled)
    Priorities,     \* priorities callers pass to create_process
    MaxPid,         \* bound: next_pid never exceeds it
    Cap             \* cap on ages, at least every time slice

READY == "READY"
RUNNING == "RUNNING"
WAITING == "WAITING"
TERMINATED == "TERMINATED"
States == {READY, RUNNING, WAITING, TERMINATED}

NIL == -1
Slots == 0..(MAX_PROCESSES - 1)

\* time_slice as create_process computes it from the priority.
TimeSlice(p) == IF p = 0 THEN 100 ELSE IF p = 1 THEN 50 ELSE IF p = 2 THEN 25 ELSE 10

ASSUME \A p \in Priorities : Cap >= TimeSlice(p)

VARIABLES heap, sched

vars == <<heap, sched>>

CapAdd(x) == IF x + 1 > Cap THEN Cap ELSE x + 1

\* One call of get_system_time: the clock, and so every age, advances.
TimeStep(st) ==
    [st EXCEPT !.clk = CapAdd(@),
               !.proc = [s \in Slots |-> [@[s] EXCEPT !.age = CapAdd(@)]]]

\* find_process_by_pid: the first slot holding pid, or NIL.
FindByPid(st, pid) ==
    LET S == {s \in Slots : st.proc[s].pid = pid}
    IN IF S = {} THEN NIL ELSE Min(S)

(***************************************************************************)
(* The slot after which add_to_ready_queue links a process of priority p: *)
(* it walks from c while the next slot's priority is <= p.  The walk is   *)
(* cut after MAX_PROCESSES links (only a corrupted, cyclic queue is that  *)
(* long).                                                                 *)
(***************************************************************************)
\* A walk that stops before the first slot of equal priority.
RECURSIVE InsertPointBeforeEqual(_, _, _, _)
InsertPointBeforeEqual(pr, c, p, k) ==
    IF k = 0 \/ pr[c].next = NIL \/ pr[pr[c].next].priority >= p THEN c
    ELSE InsertPointBeforeEqual(pr, pr[c].next, p, k - 1)

RECURSIVE InsertPoint(_, _, _, _)
InsertPoint(pr, c, p, k) ==
    IF k = 0 \/ pr[c].next = NIL \/ pr[pr[c].next].priority > p THEN c
    ELSE InsertPoint(pr, pr[c].next, p, k - 1)

\* An insertion that links s after c but never to c's old successor.
AddToReadyQueueDropTail(st, s) ==
    LET pr == st.proc
        p  == pr[s].priority
    IN IF pr[s].state # READY THEN st
       ELSE IF st.rq = NIL \/ p < pr[st.rq].priority
            THEN [st EXCEPT !.proc[s].next = st.rq, !.rq = s]
            ELSE LET c == InsertPoint(pr, st.rq, p, MAX_PROCESSES)
                 IN [st EXCEPT !.proc = [pr EXCEPT ![c].next = s]]

\* add_to_ready_queue: sorted by priority, after every slot of equal
\* priority; only a READY process is added.
AddToReadyQueue(st, s) ==
    LET pr == st.proc
        p  == pr[s].priority
    IN IF pr[s].state # READY THEN st
       ELSE IF st.rq = NIL \/ p < pr[st.rq].priority
            THEN [st EXCEPT !.proc[s].next = st.rq, !.rq = s]
            ELSE LET c == InsertPoint(pr, st.rq, p, MAX_PROCESSES)
                 IN [st EXCEPT !.proc = [pr EXCEPT ![s].next = pr[c].next,
                                                   ![c].next = s]]

\* The predecessor of s in the ready queue walk from c (the last slot if
\* s is not found).
RECURSIVE Pred(_, _, _, _)
Pred(pr, c, s, k) ==
    IF k = 0 \/ pr[c].next = NIL \/ pr[c].next = s THEN c
    ELSE Pred(pr, pr[c].next, s, k - 1)

\* A removal that only unlinks the queue head.
RemoveHeadOnly(st, s) ==
    IF st.rq = s THEN [st EXCEPT !.rq = st.proc[s].next, !.proc[s].next = NIL]
    ELSE st

\* remove_from_ready_queue: returns early, leaving next alone, when the
\* queue is empty; otherwise unlinks s if it is found and clears its next.
RemoveFromReadyQueue(st, s) ==
    IF st.rq = NIL THEN st
    ELSE IF st.rq = s
         THEN [st EXCEPT !.rq = st.proc[s].next, !.proc[s].next = NIL]
         ELSE LET pr == st.proc
                  c  == Pred(pr, st.rq, s, MAX_PROCESSES)
                  pr1 == IF pr[c].next # NIL
                         THEN [pr EXCEPT ![c].next = pr[s].next] ELSE pr
              IN [st EXCEPT !.proc = [pr1 EXCEPT ![s].next = NIL]]

(***************************************************************************)
(* schedule_next_process: pop the queue head; when it is not the current  *)
(* process, save the current context (two clock reads) and re-queue the   *)
(* current process only if it is still RUNNING; the head becomes RUNNING  *)
(* and its last_scheduled is read from the clock.                         *)
(***************************************************************************)
\* A reschedule that re-queues the previous process without demoting it.
ScheduleNoDemote(st) ==
    IF st.rq = NIL THEN st
    ELSE LET n   == st.rq
             st1 == [st EXCEPT !.rq = st.proc[n].next, !.proc[n].next = NIL]
             c   == st.cur
             st2 == IF c # NIL /\ c # n
                    THEN AddToReadyQueue(TimeStep(TimeStep(st1)), c)
                    ELSE st1
         IN [TimeStep(st2) EXCEPT !.cur = n, !.proc[n].state = RUNNING,
                                  !.proc[n].age = 0]

ScheduleNext(st) ==
    IF st.rq = NIL THEN st
    ELSE LET n   == st.rq
             st1 == [st EXCEPT !.rq = st.proc[n].next, !.proc[n].next = NIL]
             c   == st.cur
             st2 == IF c # NIL /\ c # n
                    THEN LET sv == TimeStep(TimeStep(st1))
                         IN IF sv.proc[c].state = RUNNING
                            THEN AddToReadyQueue([sv EXCEPT !.proc[c].state = READY], c)
                            ELSE sv
                    ELSE st1
             st3 == TimeStep(st2)
         IN [st3 EXCEPT !.cur = n, !.proc[n].state = RUNNING,
                        !.proc[n].age = 0]

-----------------------------------------------------------------------------
(***************************************************************************)
(* Boot: init_memory_manager, then init_process_manager (kernel.c:37-43).  *)
(* init_process_manager clears every slot and calls create_process for    *)
(* the kernel process before it sets process_manager_initialized, so that *)
(* call returns NULL: no slot is used and current_process stays NULL.     *)
(***************************************************************************)
SchedBoot ==
    [proc    |-> [s \in Slots |-> [pid |-> 0, state |-> TERMINATED,
                                   priority |-> 0, suspended |-> FALSE,
                                   next |-> NIL, stack |-> 0,
                                   slice |-> 0, age |-> 0]],
     plist   |-> NIL, rq |-> NIL, cur |-> NIL,
     nextPid |-> 1, count |-> 0, clk |-> 0]

Init ==
    /\ heap = InitMemoryManager(HeapBoot)
    /\ sched = SchedBoot

\* create_process when malloc of the stack fails: the slot is given back
\* (pid 0); the stack_base it stored is the NULL malloc returned.
ReleaseSlotKeepPid(p) == [p EXCEPT !.stack = 0]
ReleaseSlot(p) == [p EXCEPT !.pid = 0, !.stack = 0]

(***************************************************************************)
(* create_process: claim the first slot with pid 0, take the next pid,    *)
(* allocate the stack (on failure the slot's pid is reset to 0, all else  *)
(* it wrote stays), push the slot on process_list through next, then      *)
(* add_to_ready_queue overwrites that same next; finally creation_time    *)
(* reads the clock.                                                       *)
(***************************************************************************)
CreateProcess(prio) ==
    LET st == sched
        s  == FindByPid(st, 0)
        r  == Malloc(heap, STACK_SIZE)
        claimed == [st.proc[s] EXCEPT !.pid = st.nextPid, !.state = READY,
                                      !.priority = prio, !.suspended = FALSE]
    IN /\ st.nextPid < MaxPid
       /\ st.count < MAX_PROCESSES
       /\ s # NIL
       /\ IF r[2] = NULL
          THEN /\ heap' = heap
               /\ sched' = [st EXCEPT !.nextPid = @ + 1,
                                      !.proc[s] = ReleaseSlot(claimed)]
          ELSE LET p1  == [claimed EXCEPT !.stack = r[2], !.age = st.clk,
                                          !.slice = TimeSlice(prio),
                                          !.next = st.plist]
                   st1 == [st EXCEPT !.nextPid = @ + 1, !.proc[s] = p1,
                                     !.plist = s]
                   st2 == AddToReadyQueue(st1, s)
               IN /\ heap' = r[1]
                  /\ sched' = TimeStep([st2 EXCEPT !.count = @ + 1])

\* create_process when process_count >= MAX_PROCESSES: returns NULL.
CreateTableFull ==
    /\ sched.count >= MAX_PROCESSES
    /\ UNCHANGED vars

\* terminate_process frees the stack when stack_base is set.
FreeStackSkip(h, stk) == h
FreeStack(h, stk) == IF stk # 0 THEN Free(h, stk) ELSE h

(***************************************************************************)
(* terminate_process: a no-op for an unknown pid, a TERMINATED slot or    *)
(* pid 0.  Otherwise: TERMINATED, off the ready queue, stack freed, and   *)
(* if it was current, schedule_next_process runs before the slot is       *)
(* released (pid 0) and process_count drops.                              *)
(***************************************************************************)
TerminateProcess(pid) ==
    LET st == sched
        s  == FindByPid(st, pid)
    IN IF s = NIL \/ st.proc[s].state = TERMINATED \/ st.proc[s].pid = 0
       THEN UNCHANGED vars
       ELSE LET st1 == RemoveFromReadyQueue(
                          [st EXCEPT !.proc[s].state = TERMINATED], s)
                stk == st1.proc[s].stack
                st2 == [st1 EXCEPT !.proc[s].stack = 0]
                st3 == IF s = st.cur THEN ScheduleNext(st2) ELSE st2
            IN /\ heap' = FreeStack(heap, stk)
               /\ sched' = [st3 EXCEPT !.proc[s].pid = 0, !.count = @ - 1]

\* schedule_next_process called directly (it is public in process.h).
Schedule ==
    /\ sched' = ScheduleNext(sched)
    /\ UNCHANGED heap

\* yield_process: the current process is marked READY, then rescheduled.
YieldProcess ==
    /\ sched.cur # NIL
    /\ sched' = ScheduleNext([sched EXCEPT !.proc[sched.cur].state = READY])
    /\ UNCHANGED heap

\* suspend_process: only a RUNNING process is suspended.
SuspendProcess(pid) ==
    LET st == sched
        s  == FindByPid(st, pid)
    IN IF s = NIL \/ st.proc[s].state # RUNNING THEN UNCHANGED vars
       ELSE LET st1 == RemoveFromReadyQueue(
                          [st EXCEPT !.proc[s].suspended = TRUE,
                                     !.proc[s].state = WAITING], s)
            IN /\ sched' = IF s = st.cur THEN ScheduleNext(st1) ELSE st1
               /\ UNCHANGED heap

\* resume_process: any slot whose is_suspended is set becomes READY.
ResumeProcess(pid) ==
    LET st == sched
        s  == FindByPid(st, pid)
    IN IF s = NIL \/ ~st.proc[s].suspended THEN UNCHANGED vars
       ELSE /\ sched' = AddToReadyQueue(
                           [st EXCEPT !.proc[s].suspended = FALSE,
                                      !.proc[s].state = READY], s)
            /\ UNCHANGED heap

(***************************************************************************)
(* process_scheduler, the timer entry point: with a current process, read *)
(* the clock; if the slice has run out and the process is RUNNING, mark   *)
(* it READY and reschedule.                                               *)
(***************************************************************************)
Tick ==
    /\ sched.cur # NIL
    /\ LET st == TimeStep(sched)
           c  == st.cur
       IN sched' = IF st.proc[c].age >= st.proc[c].slice
                      /\ st.proc[c].state = RUNNING
                   THEN ScheduleNext([st EXCEPT !.proc[c].state = READY])
                   ELSE st
    /\ UNCHANGED heap

\* Pids callers name: every pid issued so far and the next, not yet issued.
IssuedPids == 1..sched.nextPid

Next ==
    \/ \E p \in Priorities : CreateProcess(p)
    \/ CreateTableFull
    \/ \E pid \in {0} \cup IssuedPids : TerminateProcess(pid)
    \/ Schedule
    \/ YieldProcess
    \/ \E pid \in IssuedPids : SuspendProcess(pid)
    \/ \E pid \in IssuedPids : ResumeProcess(pid)
    \/ Tick

Spec == Init /\ [][Next]_vars


(***************************************************************************)
(* Fairness.  process_scheduler is the timer's entry point (process.c:401, *)
(* "called from timer interrupt"), and spec.md (sections 1 and 3) has the  *)
(* Timer collaborator call it on every hardware timer firing, forever.    *)
(* Tick is enabled whenever there is a current process, so it is weakly    *)
(* fair.  Callers of the other operations owe nothing: they may stop.     *)
(***************************************************************************)
FairSpec == Spec /\ WF_vars(Tick)

-----------------------------------------------------------------------------
(* Views of the linked lists. *)

RECURSIVE Walk(_, _, _)
Walk(pr, a, k) == IF a = NIL \/ k = 0 THEN <<>> ELSE <<a>> \o Walk(pr, pr[a].next, k - 1)

\* The ready queue, followed for one link more than there are slots.
ReadyQueue == Walk(sched.proc, sched.rq, MAX_PROCESSES + 1)
ProcessList == Walk(sched.proc, sched.plist, MAX_PROCESSES + 1)
Live == {s \in Slots : sched.proc[s].pid # 0}

(***************************************************************************)
(* The state as far as any later step can read it.  Only the current      *)
(* process's age is ever compared with its slice (process_scheduler); a   *)
(* slot's age is reset when schedule_next_process makes it current, so    *)
(* the ages of the other slots are never read.  The one exception is a    *)
(* slot that is current while free (terminate of the current process with *)
(* an empty queue) and is then reclaimed by create: its age comes from    *)
(* clk, which the view keeps.  Headers left behind by merges are read     *)
(* only by a free of a pointer nobody owns, which process.c never does.   *)
(***************************************************************************)
SchedView ==
    <<[a \in ToSet(Blocks(heap)) |-> heap.mem[a]], heap.stats,
      [sched EXCEPT !.proc = [s \in Slots |->
                       [@[s] EXCEPT !.age = IF s = sched.cur THEN @ ELSE 0]]]>>

(***************************************************************************)
(* The ready queue stays a well-formed list: it ends (no cycle), holds    *)
(* each slot once, only live READY processes, in nondecreasing priority. *)
(* Its links are shared with process_list and rewritten by create,        *)
(* terminate, suspend, resume and every reschedule.                       *)
(***************************************************************************)
ReadyQueueWellFormed ==
    LET Q == ReadyQueue IN
    /\ Len(Q) <= MAX_PROCESSES
    /\ \A i, j \in 1..Len(Q) : i < j =>
          /\ Q[i] # Q[j]
          /\ sched.proc[Q[i]].priority <= sched.proc[Q[j]].priority
    /\ \A i \in 1..Len(Q) : Q[i] \in Live /\ sched.proc[Q[i]].state = READY

(***************************************************************************)
(* Spec 3: at most one process is RUNNING, and it is current_process:     *)
(* every path that makes a process RUNNING (a reschedule) demotes the     *)
(* previous one, and no path leaves a RUNNING process behind.             *)
(***************************************************************************)
RunningIsCurrent ==
    \A s \in Slots : sched.proc[s].state = RUNNING => s = sched.cur

(***************************************************************************)
(* Spec 3: each live process exclusively owns one heap allocation, its    *)
(* stack, and the heap holds nothing else: create's failure path and      *)
(* terminate's free neither leak a block nor free one twice.              *)
(***************************************************************************)
StacksOwnedExactly ==
    LET B == ToSet(Blocks(heap))
        Alloc == {a + HDR : a \in {b \in B : ~heap.mem[b].free}}
    IN /\ {sched.proc[s].stack : s \in Live} = Alloc
       /\ \A s, t \in Live : s # t => sched.proc[s].stack # sched.proc[t].stack

(***************************************************************************)
(* Spec 3 (state machine): a process leaves the ready queue only when it  *)
(* stops being READY (popped to RUNNING by schedule_next_process,         *)
(* TERMINATED, WAITING), and a process becomes RUNNING only when it was   *)
(* queued and schedule_next_process pops it as the current process.       *)
(* Every insertion and removal rewrites the next links that process_list  *)
(* shares, so a lost link would drop the rest of the queue without        *)
(* changing any state field.                                              *)
(***************************************************************************)
RunsOnlyFromQueue ==
    [][LET Q == ToSet(ReadyQueue) IN
       /\ \A s \in Q \ ToSet(ReadyQueue') : sched'.proc[s].state # READY
       /\ \A s \in Slots :
            sched'.proc[s].state = RUNNING /\ sched.proc[s].state # RUNNING
               => s \in Q /\ s = sched'.cur]_sched

(***************************************************************************)
(* Spec 2 (Ready Queue): ascending priority, and processes of equal       *)
(* priority keep their insertion order.  So in every step the processes   *)
(* that stay queued keep their relative order, and a process that joins   *)
(* the queue (create, resume, a preempted process re-queued by            *)
(* schedule_next_process) lands behind every queued process of equal or   *)
(* higher priority, where add_to_ready_queue's walk over next links must  *)
(* put it.                                                                 *)
(***************************************************************************)
QueueStaysFifo ==
    [][LET Q  == ReadyQueue
           Q1 == ReadyQueue'
           S  == ToSet(Q)
           S1 == ToSet(Q1)
           Prio(s) == sched'.proc[s].priority
       IN /\ SelectSeq(Q, LAMBDA s : s \in S1) = SelectSeq(Q1, LAMBDA s : s \in S)
          /\ \A i \in 1..Len(Q1) :
                Q1[i] \notin S =>
                   \A j \in (i + 1)..Len(Q1) : Prio(Q1[j]) > Prio(Q1[i])]_sched

(***************************************************************************)
(* Spec 3 with the timer calling tick forever: every process in the ready *)
(* queue eventually leaves it, by running or by being terminated or       *)
(* suspended.  With one priority nobody may overtake forever, so only the *)
(* scheduler itself can starve a queued process.                          *)
(***************************************************************************)
QueuedEventuallyRuns ==
    \A s \in Slots : (s \in ToSet(ReadyQueue)) ~> (s \notin ToSet(ReadyQueue))

(***************************************************************************)
(* The process list (get_process_list, list_processes) reaches every live *)
(* process.                                                                *)
(***************************************************************************)
ProcessListComplete ==
    Live \subseteq ToSet(ProcessList)


=============================================================================
