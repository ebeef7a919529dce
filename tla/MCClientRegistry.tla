-------------------------- MODULE MCClientRegistry --------------------------
(* TLC's instance of ClientRegistry: two handler threads and the monitor,  *)
(* logins within two milliseconds, two Client objects in all.  The passing *)
(* run evicts after two strikes instead of three, which only shortens it.  *)
EXTENDS ClientRegistry

CONSTANTS h1, h2

MCHandlers  == {h1, h2}
MCRandomIds == {11}
=============================================================================
