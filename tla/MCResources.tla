---------------------------- MODULE MCResources ----------------------------
(* Two addresses, one of them measured twice, one cron, two workers. *)
EXTENDS Resources

MCEndpoint == {<<"a", 10>>, <<"a", 12>>, <<"b", 11>>}
MCBasic == <<<<"db", 0>>>>
MCCron == <<"quota_resetter">>

=============================================================================
