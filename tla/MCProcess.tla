----------------------------- MODULE MCProcess -----------------------------
(* The process table and scheduler, instantiated for TLC. *)
EXTENDS Process

\* Time slices scaled down from 100/50/25/10 ticks, keeping their order:
\* the higher the priority value, the shorter the slice.
MCTimeSlice(p) == IF p = 1 THEN 3 ELSE 2

\* The same order one step shorter still: a priority-2 process yields after
\* a single tick, a priority-1 process after two.
MCShortSlice(p) == IF p = 1 THEN 2 ELSE 1

MCPriorities == {1, 2}

\* One priority: no process may overtake another in the ready queue.
MCOnePriority == {1}

=============================================================================
