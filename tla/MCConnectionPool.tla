--------------------------- MODULE MCConnectionPool ---------------------------
(* TLC instances of ConnectionPool: a pool of two, which three peers fill; *)
(* the builds with and without TLS and the control channel.                *)
EXTENDS ConnectionPool

Served == {{"http"}, {"ctl", "http", "https"}, {"ctl", "https", "ssdp"}}
=============================================================================
