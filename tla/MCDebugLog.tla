----------------------------- MODULE MCDebugLog -----------------------------
(* The debug log buffer, instantiated for TLC. *)
EXTENDS DebugLog

\* DEBUG (below the default INFO filter), INFO and WARN.
MCLevels == {1, 2, 3}

\* BOOT and KERNEL.
MCSubsystems == {0, 1}

\* Raise the filter to WARN with memory output of bare messages and the
\* VGA output off; or keep INFO but only the BOOT subsystem, with memory
\* and VGA output of messages with timestamp and subsystem name.
MCConfigs == {<<3, 0..9, TRUE, FALSE, FALSE, FALSE>>, <<2, {0}, TRUE, TRUE, TRUE, TRUE>>}

\* The module's own fixed text, and calls as stubs.c makes them: %d of a
\* negative three-digit value and of INT_MAX, %x of a three-digit value.
MCCalls == {Plain, <<<<37, 100>>, <<-150>>>>, <<<<120, 61, 37, 100>>, <<2147483647>>>>,
            <<<<37, 120>>, <<300>>>>}

=============================================================================
