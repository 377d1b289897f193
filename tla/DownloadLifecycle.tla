--------------------------- MODULE DownloadLifecycle ---------------------------
(***************************************************************************)
(* What a download row promises its reader, whatever the loop behind it    *)
(* does (domain/download/states.py, the comments of run_download_cycle.py):*)
(* queued -> downloading -> completed, or failed until amuled decides      *)
(* otherwise; completed is the end; and a completion is announced after it *)
(* is committed, at most once.  One step may move several rows.            *)
(***************************************************************************)
EXTENDS Naturals

CONSTANT Hash
VARIABLES downloads, notices

NoRow == "none"
DownloadState == {"queued", "downloading", "completed", "failed"}

Moves ==
    {<<NoRow, "queued">>,
     <<"queued", "downloading">>, <<"failed", "downloading">>,
     <<"queued", "failed">>, <<"downloading", "failed">>,
     <<"queued", "completed">>, <<"downloading", "completed">>, <<"failed", "completed">>}

Init == /\ downloads = [h \in Hash |-> NoRow]
        /\ notices = [h \in Hash |-> 0]

MoveRows ==
    /\ downloads' \in [Hash -> {NoRow} \cup DownloadState]
    /\ \A h \in Hash : downloads'[h] # downloads[h] => <<downloads[h], downloads'[h]>> \in Moves
    /\ UNCHANGED notices

Announce(h) ==
    /\ downloads[h] = "completed" /\ notices[h] = 0
    /\ notices' = [notices EXCEPT ![h] = 1]
    /\ UNCHANGED downloads

Next == MoveRows \/ \E h \in Hash : Announce(h)
Spec == Init /\ [][Next]_<<downloads, notices>>

================================================================================
