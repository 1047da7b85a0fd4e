--------------------------- MODULE MCMetricsServer ---------------------------
(***************************************************************************)
(* Small instances of the metrics server for TLC: the clients and the      *)
(* descriptors are in the cfg.                                             *)
(***************************************************************************)
EXTENDS MetricsServer

\* The page of counters; a path the server has not, with a version that begins like the one it has; a
\* NUL.
Lines == {<<"GET", "/metrics", "HTTP/1.1">>, <<"GET", "/other", "HTTP/1.10">>, << >>}

HalvesOf ==
  [w \in UNION {{r[i] : i \in DOMAIN r} : r \in Lines} |->
    CASE w = "/other" -> {"/"} [] w = "HTTP/1.10" -> {"HTTP/1.1"} [] OTHER -> {}]
=============================================================================
