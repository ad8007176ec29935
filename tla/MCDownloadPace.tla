---------------------------- MODULE MCDownloadPace ----------------------------
(* Calls that follow one another.  As long as each also waited until nothing *)
(* was in progress any more, the engine, the disk and the screen agree.      *)
EXTENDS MCModelDownload

VARIABLE hurried  \* whether a call came before the last one had settled

PaceInit == Init /\ hurried = FALSE
PaceNext == Next /\ hurried' = (hurried \/ (made' # made /\ ~Quiet))
PaceSpec == PaceInit /\ [][PaceNext]_<<vars, hurried>>

(* One model at a time is downloaded by the engine; a screen that says       *)
(* paused has a suspended task; every whole model on disk is listed; and a   *)
(* download the engine makes is shown: across the awaits of download, pause, *)
(* resume, cancel and delete and the updates between them.                   *)
UnhurriedSingleDownload == ~hurried => SingleDownload
UnhurriedPausedIsPaused == ~hurried => PausedIsPaused
UnhurriedOnDiskListed   == ~hurried => OnDiskListed
UnhurriedRunningIsShown == ~hurried => RunningIsShown
=============================================================================
