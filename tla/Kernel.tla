------------------------------ MODULE Kernel ------------------------------
(***************************************************************************)
(* The two clients of the heap together: process stacks (process.c) and  *)
(* socket buffers (hell_network.c) come from the one allocator of         *)
(* memory.c, so a socket's buffer can be the reason a later               *)
(* create_process finds no stack, and a terminated process's stack can be *)
(* what a later socket_create gets.  Nothing else in the kernel calls     *)
(* malloc.                                                                 *)
(*                                                                         *)
(* The state after kernel_main's boot sequence: init_memory_manager, then *)
(* init_process_manager, then (inside init_drivers) init_network_driver.  *)
(* Afterwards callers of either component run one call at a time.  The   *)
(* network calls that only count packets or configure the interface touch *)
(* no heap memory and are left to the Network module.                     *)
(***************************************************************************)
EXTENDS Process

CONSTANTS MAX_SOCKETS, BUFFER_SIZE, Ports, MaxSocketId

VARIABLES net, link, given

N == INSTANCE Network WITH IpStrings <- {}, MaxPackets <- 0, ConfigCalls <- {}

kvars == <<heap, sched, net, link, given>>

\* kernel_main up to init_drivers: heap and process table initialized, the
\* network driver up with every slot free.
KernelInit ==
    /\ Init
    /\ net = [N!NetBoot EXCEPT !.up = TRUE]
    /\ link = N!LinkUp
    /\ given = [f \in N!Fields |-> <<>>]

\* A call of either component; the other's state is untouched.
KernelNext ==
    \/ Next /\ UNCHANGED <<net, link, given>>
    \/ N!SocketNext /\ UNCHANGED sched

KernelSpec == KernelInit /\ [][KernelNext]_kvars

KernelView == <<SchedView, net, link>>

-----------------------------------------------------------------------------
(***************************************************************************)
(* The heap's allocated blocks are exactly the live processes' stacks and *)
(* the open sockets' buffers, each owned once and never by both kinds of  *)
(* owner: when the heap runs out under the other client's allocations,    *)
(* create_process's failure path and socket_create's NULL buffer leak     *)
(* nothing, and terminate and close free only what they own.              *)
(***************************************************************************)
HeapClientsOwnExactly ==
    LET B      == ToSet(Blocks(heap))
        Alloc  == {a + HDR : a \in {b \in B : ~heap.mem[b].free}}
        Stacks == {sched.proc[s].stack : s \in Live}
        Bufs   == {net.sock[s].buf : s \in {t \in N!Open : net.sock[t].buf # NULL}}
    IN /\ Stacks \cup Bufs = Alloc
       /\ Stacks \cap Bufs = {}
       /\ \A s, t \in Live : s # t => sched.proc[s].stack # sched.proc[t].stack
       /\ \A s, t \in N!Open : s # t /\ net.sock[s].buf # NULL
                                => net.sock[s].buf # net.sock[t].buf

=============================================================================
