---------------------------- MODULE MCQuotaPush ----------------------------
(* QuotaPush on a small instance. *)
EXTENDS QuotaPush

MCLevel == {0, 100000}
=============================================================================
