---------------------------- MODULE MCServiceRun ---------------------------
(* The orders in which a service may have its handlers called. *)
EXTENDS ServiceRun

MCHandlerLists == {<<"worker", "http", "message">>, <<"http", "worker">>}

=============================================================================
