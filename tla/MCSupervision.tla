----------------------------- MODULE MCSupervision ------------------------------
(* Instances of Supervision for TLC. *)
EXTENDS Supervision

\* The full mode: run() with its webui, download and port_sync sections.
FullStartup == <<"databases", "webui", "client", "download client", "port client", "backfill">>
FullLoops == {Search, Download, "port"}

================================================================================
