---------------------------- MODULE MCDispatcher ----------------------------
(* Dispatcher on a handful of requests that arrive in every order.         *)
EXTENDS Dispatcher
=============================================================================
