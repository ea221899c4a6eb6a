--------------------------- MODULE MCConsoleToLine ---------------------------
EXTENDS ConsoleToLine

MCChars == {"\\", "b", "c", "x", "z", "q", "f", "p", "n", "d", "s", "\r", "\n"}
MCKeys == {"\\", "b", "c", "x", "z", "q", "d", "\n", "esc"}
=============================================================================
