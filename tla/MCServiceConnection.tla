------------------------- MODULE MCServiceConnection -------------------------
(* The instances checked by TLC.  One camera in use, or both; each remote *)
(* process dies at most twice, enough for a proxy fetched after one      *)
(* restart to meet a notification of the instance before.                 *)
EXTENDS ServiceConnection

CONSTANTS c0, c1

MCOneWorker == {c0}
MCTwoWorkers == {c0, c1}
MCMaxDeaths == 2
=============================================================================
