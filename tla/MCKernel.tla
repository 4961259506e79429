------------------------------ MODULE MCKernel ------------------------------
(* Processes and sockets sharing the heap, instantiated for TLC. *)
EXTENDS Kernel

\* With a single priority only the slice's length matters, and only up to Cap.
MCTimeSlice(p) == 2

\* One priority: the ready-queue order is checked by MCProcess.
MCPriorities == {1}

MCPorts == {1}

=============================================================================
