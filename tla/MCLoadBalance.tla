--------------------------- MODULE MCLoadBalance ---------------------------
(* LoadBalance for TLC: one client connection and two servers.             *)
EXTENDS LoadBalance
=============================================================================
