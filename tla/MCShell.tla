------------------------------ MODULE MCShell ------------------------------
EXTENDS Shell

\* Two builtins over the letter 's' (115): "ss" ahead of its prefix "s",
\* so completion of "s" picks the first entry, as "s" picks "summon".
MCBuiltins == <<<<115, 115>>, <<115>>>>

\* 's', space, backspace, tab, Enter, the release of 's', left Ctrl (no
\* character) and Caps Lock (past the table).
MCScancodes == {31, 57, 14, 15, 28, 159, 29, 58}

=============================================================================
