---------------------------- MODULE MCMigration ----------------------------
(* One operator's shell, the recovery services and the reconcile service.  *)
EXTENDS Migration

CONSTANTS Admin, Alarm, Second

OneShell == {Admin}
OneAlarm == {Alarm}
TwoAlarms == {Alarm, Second}
=============================================================================
