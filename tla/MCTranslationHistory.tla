------------------------ MODULE MCTranslationHistory ------------------------
(***************************************************************************)
(* TranslationHistory with a note whether the last save overlapped a save  *)
(* or a load, the last screen a save, or a save or a load has failed since:*)
(* only then may the screen, the file and the shell disagree at rest.      *)
(***************************************************************************)
EXTENDS TranslationHistory

Symmetry == Permutations(Items) \cup Permutations(Slots)

VARIABLE excused

MCInit == Init /\ excused = FALSE

MCNext ==
  \/ /\ UserStep
     /\ excused' = ~Settled
  \/ /\ ShowScreen
     /\ excused' = \/ \E v \in Slots : saves[v].at # "none"
                   \/ excused /\ shell.load.at # "none"
  \/ /\ ReadFails \/ ShellReadFails \/ \E v \in Slots : SaveFails(v)
     /\ excused' = TRUE
  \/ Kill /\ excused' = FALSE
  \/ /\ \/ HideScreen \/ ReadHistory \/ HistoryLoaded \/ ShellReads \/ ShellTold
        \/ \E v \in Slots : Encode(v) \/ Truncate(v) \/ Write(v) \/ Saved(v)
     /\ UNCHANGED excused

MCSpec == MCInit /\ [][MCNext]_<<vars, excused>>

AtRest == Settled /\ mounted # 0 /\ ~excused

\* What a later start would load is what the mounted screen shows: every
\* translation, deletion and move reaches the file, across kills too.
FileFollows == AtRest => Loads(file) = items[mounted]

\* The shell, which opens the settings by itself only when there is nothing to
\* show, knows whether the list of the mounted screen is empty.
PresenceFollows ==
  AtRest => shell.known /\ (shell.has <=> items[mounted] # <<>>)
=============================================================================
