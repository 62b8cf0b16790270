-------------------------- MODULE MCDeviceTemplates --------------------------
(* The instance checked by TLC: three static entries, two opens and three *)
(* initialize calls, enough for a failed initialize to be retried in the  *)
(* same session and after a close.                                         *)
EXTENDS DeviceTemplates

MCNStatic == 3
MCMaxOpens == 2
MCMaxInits == 3
=============================================================================
