----------------------------- MODULE Interrupts -----------------------------
(***************************************************************************)
(* Hardware interrupt dispatch of src/x86_64/kernel/interrupts.c: the     *)
(* master 8259 PIC as init_pic programs it, the IDT entries               *)
(* init_interrupt_system installs for the IRQ vectors, and the handlers   *)
(* those entries reach.                                                    *)
(*                                                                         *)
(* pic.imr  the lines the master's mask register disables                 *)
(* pic.irr  lines a device has raised and the PIC has not yet delivered   *)
(* pic.isr  lines delivered and not yet acknowledged by an EOI            *)
(* cpuIf    the CPU's interrupt flag                                       *)
(* halted   kernel_panic has stopped the CPU (cli; hlt forever)           *)
(* served   the lines whose handler has run (a history variable)          *)
(*                                                                         *)
(* The slave PIC is left out: init_pic masks all its lines (0xFF), so no  *)
(* slave IRQ is ever forwarded.  CPU exceptions are raised by the code    *)
(* that runs, at any point: Faults are the vectors the model raises.      *)
(***************************************************************************)
EXTENDS Naturals, FiniteSets

CONSTANTS
    Lines,   \* master PIC lines (0..7) that devices raise
    Faults   \* exception vectors (0..31) the running code may raise

ASSUME Lines \subseteq 0..7 /\ Faults \subseteq 0..31

IRQ_TIMER == 32
IRQ_KEYBOARD == 33

\* The exception vectors given a handler: each calls exception_handler,
\* which calls kernel_panic.  Vectors 9, 15 and 20-31 keep the default.
PanicVectors == {0, 1, 2, 3, 4, 5, 6, 7, 8, 10, 11, 12, 13, 14, 16, 17, 18, 19}

\* The handler each vector reaches: init_interrupt_system points every
\* vector at default_interrupt_handler, then the exception vectors and
\* the timer and keyboard vectors at their own handlers.
Idt == [v \in 0..39 |-> IF v \in PanicVectors THEN "panic"
                        ELSE IF v = IRQ_TIMER THEN "timer"
                        ELSE IF v = IRQ_KEYBOARD THEN "keyboard"
                        ELSE "default"]

\* The lines a mask byte written to port 0x21 disables: bit i masks line i.
MaskedLines(m) == {i \in 0..7 : (m \div 2^i) % 2 = 1}

\* The mask init_pic writes last to the master PIC (interrupts.c:189).
MASTER_MASK == 251   \* 0xFB

VARIABLES pic, cpuIf, halted, served

vars == <<pic, cpuIf, halted, served>>

(***************************************************************************)
(* The state after init_interrupt_system (kernel.c:40): IDT loaded, PIC   *)
(* initialised with MASTER_MASK, nothing pending or in service.  kernel_main *)
(* is entered from the boot loader, and no code under src/ executes sti  *)
(* (enable_interrupts is never called) or cli, so the interrupt flag is   *)
(* whatever the loader left: either value.                                *)
(***************************************************************************)
Init ==
    /\ pic = [imr |-> MaskedLines(MASTER_MASK), irr |-> {}, isr |-> {}]
    /\ cpuIf \in BOOLEAN
    /\ halted = FALSE
    /\ served = {}

\* A device raises line i; a line raised again while pending stays one request.
Raise(i) ==
    /\ pic' = [pic EXCEPT !.irr = @ \cup {i}]
    /\ UNCHANGED <<cpuIf, halted, served>>

\* The pending, unmasked lines that no line of equal or higher priority
\* (a lower or equal number) in service blocks: the 8259's fully nested mode.
Deliverable == {i \in pic.irr \ pic.imr : \A j \in pic.isr : i < j}

\* The handlers' effect on the PIC: only default_interrupt_handler sends
\* the non-specific EOI (port 0x20), which clears the highest-priority
\* line in service; timer_interrupt_handler and keyboard_interrupt_handler
\* send none.
AfterHandler(h, isr) ==
    IF h = "default" /\ isr # {}
    THEN isr \ {CHOOSE j \in isr : \A k \in isr : j <= k}
    ELSE isr

(***************************************************************************)
(* The CPU takes the highest-priority deliverable line: the PIC moves it  *)
(* from irr to isr and the CPU enters its IDT vector through an interrupt *)
(* gate, which clears IF.  The handler is a plain C function: it returns  *)
(* with ret, not iret, so the saved flags are never restored and IF stays *)
(* clear.                                                                  *)
(***************************************************************************)
Deliver ==
    /\ cpuIf
    /\ Deliverable # {}
    /\ LET i == CHOOSE j \in Deliverable : \A k \in Deliverable : j <= k
       IN /\ pic' = [pic EXCEPT !.irr = @ \ {i},
                                !.isr = AfterHandler(Idt[32 + i], @ \cup {i})]
          /\ cpuIf' = FALSE
          /\ served' = served \cup {i}
          /\ UNCHANGED halted

(***************************************************************************)
(* The running code raises exception v, whatever IF is.  A vector with    *)
(* its own handler reaches exception_handler, whose kernel_panic ends in  *)
(* debug_panic: cli, then hlt forever.  A vector left on                  *)
(* default_interrupt_handler (an interrupt gate, so IF is cleared) sends  *)
(* the EOI meant for an IRQ and returns with ret.                         *)
(***************************************************************************)
\* exception_handler: kernel_panic with the exception's name, which never
\* returns.
ExceptionHandler ==
    /\ halted' = TRUE
    /\ UNCHANGED pic

Fault(v) ==
    /\ ~halted
    /\ IF Idt[v] = "panic"
       THEN ExceptionHandler
       ELSE /\ pic' = [pic EXCEPT !.isr = AfterHandler(Idt[v], @)]
            /\ UNCHANGED halted
    /\ cpuIf' = FALSE
    /\ UNCHANGED served

\* enable_interrupts (sti) and disable_interrupts (cli), public in
\* interrupts.h; no code under src/ calls them.
EnableInterrupts ==
    /\ ~halted
    /\ cpuIf' = TRUE
    /\ UNCHANGED <<pic, halted, served>>

DisableInterrupts ==
    /\ ~halted
    /\ cpuIf' = FALSE
    /\ UNCHANGED <<pic, halted, served>>

Next ==
    \/ \E i \in Lines : Raise(i)
    \/ Deliver
    \/ \E v \in Faults : Fault(v)
    \/ EnableInterrupts
    \/ DisableInterrupts

(***************************************************************************)
(* Fairness: the CPU checks for a deliverable interrupt between any two   *)
(* instructions, so Deliver is weakly fair.  Devices owe nothing.         *)
(***************************************************************************)
Spec == Init /\ [][Next]_vars /\ WF_vars(Deliver)

TypeOK ==
    /\ pic \in [imr : SUBSET (0..7), irr : SUBSET Lines, isr : SUBSET Lines]
    /\ cpuIf \in BOOLEAN
    /\ halted \in BOOLEAN
    /\ served \in SUBSET Lines

(***************************************************************************)
(* Spec section 1: interrupt dispatch delivers the periodic tick and the  *)
(* keyboard bytes.  So the 8259 must at least pass every request a device *)
(* raises on to the CPU: a pending line eventually becomes deliverable    *)
(* (unmasked, not blocked by a line in service) or is taken.  This is the *)
(* PIC's part only; whether the CPU then takes it (IF, hlt) is not asked. *)
(***************************************************************************)
RequestsReachCpu ==
    \A i \in Lines : (i \in pic.irr) ~> (i \in Deliverable \/ i \notin pic.irr)

=============================================================================
