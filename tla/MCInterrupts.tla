---------------------------- MODULE MCInterrupts ----------------------------
(* Interrupt dispatch instantiated for TLC. *)
EXTENDS Interrupts

\* The timer (line 0), the keyboard (line 1) and COM1 (line 4), whose
\* vector keeps default_interrupt_handler.
MCLines == {0, 1, 4}

\* Divide error, which panics, and vector 9 (coprocessor segment overrun,
\* raised only by old FPUs), left on the default handler.
MCFaults == {0, 9}

=============================================================================
