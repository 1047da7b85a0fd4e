--------------------------- MODULE MCConsolePlugin ---------------------------
(* Two levels of the script, one of which the server prints too.            *)
EXTENDS ConsolePlugin

TwoLevels == {"info", "print"}
TwoOptions == {"error", "info"}
Known == {}
Readable == {"7"}
Unreadable == {"teal"}
=============================================================================
