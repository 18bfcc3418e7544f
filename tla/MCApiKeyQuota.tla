-------------------------- MODULE MCApiKeyQuota --------------------------
(* Small instances of ApiKeyQuota for TLC. *)
EXTENDS ApiKeyQuota

MCStrategies == {"forever", "minute", "hour"}
MCAllowances == {0, 2}
MCResetDates == {0, 3}
==========================================================================
