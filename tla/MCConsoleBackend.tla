--------------------------- MODULE MCConsoleBackend ---------------------------
EXTENDS ConsoleBackend
=============================================================================
