-------------------------- MODULE TranslationHistory --------------------------
(***************************************************************************)
(* The history of translations: FileTranslationHistoryStore, the list the  *)
(* mounted TranslateScreen keeps and the flag with which the app shell     *)
(* remembers whether there is a history.                                   *)
(*                                                                         *)
(* A load and a save are asynchronous and nobody waits for a save: saves   *)
(* overlap each other and the loads, a screen is replaced by a new one     *)
(* (another model, a download) while its saves still run, and the process  *)
(* may be killed between the truncation of the file and its write.         *)
(***************************************************************************)
EXTENDS Integers, SequencesExt

CONSTANTS
  Empty,       \* a file that is missing or was just truncated
  Garbage,     \* a file that does not parse
  MaxHistory,  \* maxHistoryItems
  Items,       \* translations that may exist at a time
  Slots,       \* bound: saves in flight
  MaxScreens   \* bound: screens built by a process

ASSUME BoundsAssumption ==
  /\ MaxHistory \in Nat \ {0}
  /\ MaxScreens \in Nat \ {0}

VARIABLES
  file,     \* what translation_history.json holds
  built,    \* screens built by this process
  mounted,  \* the mounted screen, 0 if there is none
  items,    \* _history of every screen; a disposed one is still saved from
  load,     \* _loadTranslationHistory of the mounted screen
  saves,    \* the saves in flight
  shell     \* _hasTranslationHistory, _historyPresenceLoaded and its load

screenVars == <<built, mounted, items, load>>
vars == <<file, screenVars, saves, shell>>

Screens == 1..MaxScreens
Lists == UNION {[1..n -> Items] : n \in 0..MaxHistory}

ASSUME FileAssumption == Empty # Garbage /\ Lists \cap {Empty, Garbage} = {}

\* load(): whatever does not parse is an empty history
Loads(f) == IF f \in {Empty, Garbage} THEN <<>> ELSE f

NoLoad == [at |-> "none", found |-> <<>>]
NoSave == [at |-> "none", screen |-> 0, payload |-> <<>>]

\* What a process starts with
NoItems == [s \in Screens |-> <<>>]
NoSaves == [v \in Slots |-> NoSave]
NewShell == [known |-> FALSE, has |-> FALSE, load |-> [at |-> "reading", found |-> <<>>]]

Init ==
  /\ file = Empty
  /\ built = 0 /\ mounted = 0
  /\ items = NoItems /\ load = NoLoad
  /\ saves = NoSaves
  /\ shell = NewShell

----------------------------------------------------------------------------
(* The screens *)

\* The shell builds a screen: the first one, one after a download was shown
\* instead, or one with another key because the model changed
ShowScreen ==
  /\ built < MaxScreens
  /\ built' = built + 1
  /\ mounted' = built'
  /\ load' = [at |-> "reading", found |-> <<>>]
  /\ UNCHANGED <<file, items, saves, shell>>

\* A download takes the whole page; a load that returns later finds the
\* screen unmounted and changes nothing
HideScreen ==
  /\ mounted # 0
  /\ mounted' = 0
  /\ load' = NoLoad
  /\ UNCHANGED <<file, built, items, saves, shell>>

\* load() reads the file
ReadHistory ==
  /\ load.at = "reading"
  /\ load' = [at |-> "read", found |-> Loads(file)]
  /\ UNCHANGED <<file, built, mounted, items, saves, shell>>

\* Whatever it throws, load() answers with an empty history
ReadFails ==
  /\ load.at = "reading"
  /\ load' = [at |-> "read", found |-> <<>>]
  /\ UNCHANGED <<file, built, mounted, items, saves, shell>>

Report(s, list) == [s EXCEPT !.has = list # <<>>, !.known = TRUE]

\* A slip: what was loaded is added to the list
HistoryLoadedUncleared ==
  /\ load.at = "read"
  /\ items' = [items EXCEPT ![mounted] = @ \o load.found]
  /\ load' = NoLoad
  /\ shell' = Report(shell, items'[mounted])
  /\ UNCHANGED <<file, built, mounted, saves>>

\* What was loaded replaces the list, and the shell is told
HistoryLoaded ==
  /\ load.at = "read"
  /\ items' = [items EXCEPT ![mounted] = load.found]
  /\ load' = NoLoad
  /\ shell' = Report(shell, load.found)
  /\ UNCHANGED <<file, built, mounted, saves>>

\* The mounted screen changes its list and starts a save
Changes(list) ==
  /\ mounted # 0
  /\ items' = [items EXCEPT ![mounted] = list]
  /\ \E v \in Slots :
       /\ saves[v].at = "none"
       /\ saves' = [saves EXCEPT ![v] = [NoSave EXCEPT !.at = "starting", !.screen = mounted]]

\* The ids in use; a new one is the time
Known ==
  ToSet(Loads(file)) \cup ToSet(load.found)
    \cup UNION {ToSet(items[s]) : s \in Screens}
    \cup UNION {ToSet(saves[v].payload) : v \in Slots}

\* A slip: the list grows without end
TranslatedUntrimmed ==
  /\ mounted # 0
  /\ \E new \in Items \ Known : Changes(<<new>> \o items[mounted])
  /\ UNCHANGED <<file, built, mounted, load, shell>>

\* A translation ended with some text: first in the list, the oldest go
Translated ==
  /\ mounted # 0
  /\ \E new \in Items \ Known :
       LET longer == <<new>> \o items[mounted]
       IN  Changes(SubSeq(longer, 1, Min({MaxHistory, Len(longer)})))
  /\ UNCHANGED <<file, built, mounted, load, shell>>

\* What removeWhere leaves of a list: the other items, in their order
Removed(list, id) ==
  {rest \in Lists :
     \E place \in [DOMAIN rest -> DOMAIN list] :
       /\ \A j, k \in DOMAIN rest : j < k => place[j] < place[k]
       /\ Range(place) = {k \in DOMAIN list : list[k] # id}
       /\ \A k \in DOMAIN rest : rest[k] = list[place[k]]}

\* A slip: a deletion is not saved
DeleteItemUnsaved ==
  /\ mounted # 0
  /\ \E id \in ToSet(items[mounted]) : \E rest \in Removed(items[mounted], id) :
       items' = [items EXCEPT ![mounted] = rest]
  /\ UNCHANGED <<file, built, mounted, load, saves, shell>>

\* An item is deleted, or moved to another place in the list
DeleteItem ==
  /\ mounted # 0
  /\ \E id \in ToSet(items[mounted]) : \E rest \in Removed(items[mounted], id) :
       Changes(rest)
  /\ UNCHANGED <<file, built, mounted, load, shell>>

Reorder ==
  /\ mounted # 0
  /\ \E from, to \in DOMAIN items[mounted] :
       Changes(InsertAt(RemoveAt(items[mounted], from), to, items[mounted][from]))
  /\ UNCHANGED <<file, built, mounted, load, shell>>

----------------------------------------------------------------------------
(* A save *)

\* With the path found, the list is encoded as it is by now
Encode(v) ==
  /\ saves[v].at = "starting"
  /\ saves' = [saves EXCEPT ![v].at = "encoded", ![v].payload = items[saves[v].screen]]
  /\ UNCHANGED <<file, screenVars, shell>>

\* writeAsString opens the file, which empties it,
Truncate(v) ==
  /\ saves[v].at = "encoded"
  /\ file' = Empty
  /\ saves' = [saves EXCEPT ![v].at = "open"]
  /\ UNCHANGED <<screenVars, shell>>

\* and writes from its beginning: over a longer text that another save wrote
\* meanwhile a rest of that one stays behind
Write(v) ==
  /\ saves[v].at = "open"
  /\ file' \in IF file \in {Empty, saves[v].payload} THEN {saves[v].payload}
                                                     ELSE {saves[v].payload, Garbage}
  /\ saves' = [saves EXCEPT ![v].at = "written", ![v].payload = <<>>]
  /\ UNCHANGED <<screenVars, shell>>

\* Any of the steps may throw, a write half way, which save() swallows
SaveFails(v) ==
  /\ saves[v].at \in {"starting", "encoded", "open"}
  /\ file' \in {file} \cup IF saves[v].at = "open" THEN {Garbage} ELSE {}
  /\ saves' = [saves EXCEPT ![v].at = "written", ![v].payload = <<>>]
  /\ UNCHANGED <<screenVars, shell>>

\* A slip: the shell is not told
SavedUnreported(v) ==
  /\ saves[v].at = "written"
  /\ saves' = [saves EXCEPT ![v] = NoSave]
  /\ UNCHANGED <<file, screenVars, shell>>

\* The screen, mounted or not, tells the shell what its list is by now
Saved(v) ==
  /\ saves[v].at = "written"
  /\ saves' = [saves EXCEPT ![v] = NoSave]
  /\ shell' = Report(shell, items[saves[v].screen])
  /\ UNCHANGED <<file, screenVars>>

----------------------------------------------------------------------------
(* The shell and the process *)

\* The shell's own look at the file when it starts
ShellReads ==
  /\ shell.load.at = "reading"
  /\ shell' = [shell EXCEPT !.load = [at |-> "read", found |-> Loads(file)]]
  /\ UNCHANGED <<file, screenVars, saves>>

ShellReadFails ==
  /\ shell.load.at = "reading"
  /\ shell' = [shell EXCEPT !.load = [at |-> "read", found |-> <<>>]]
  /\ UNCHANGED <<file, screenVars, saves>>

ShellTold ==
  /\ shell.load.at = "read"
  /\ shell' = [Report(shell, shell.load.found) EXCEPT !.load = NoLoad]
  /\ UNCHANGED <<file, screenVars, saves>>

\* The process is killed and started again; a write may be half done
Kill ==
  /\ file' \in {file} \cup IF \E v \in Slots : saves[v].at = "open" THEN {Garbage} ELSE {}
  /\ built' = 0 /\ mounted' = 0
  /\ items' = NoItems /\ load' = NoLoad
  /\ saves' = NoSaves
  /\ shell' = NewShell

UserStep == Translated \/ DeleteItem \/ Reorder

StoreStep(v) == Encode(v) \/ Truncate(v) \/ Write(v) \/ SaveFails(v) \/ Saved(v)

Next ==
  \/ ShowScreen \/ HideScreen \/ ReadHistory \/ ReadFails \/ HistoryLoaded
  \/ UserStep
  \/ \E v \in Slots : StoreStep(v)
  \/ ShellReads \/ ShellReadFails \/ ShellTold
  \/ Kill

Spec == Init /\ [][Next]_vars

----------------------------------------------------------------------------
(* Properties *)

LoadState == [at : {"none", "reading", "read"}, found : Lists]

\* Every list fits the history, whatever is loaded or saved meanwhile.
TypeOK ==
  /\ file \in {Empty, Garbage} \cup Lists
  /\ built \in 0..MaxScreens
  /\ mounted \in {0, built}
  /\ items \in [Screens -> Lists]
  /\ load \in LoadState
  /\ saves \in [Slots -> [at : {"none", "starting", "encoded", "open", "written"},
                          screen : 0..MaxScreens, payload : Lists]]
  /\ shell \in [known : BOOLEAN, has : BOOLEAN, load : LoadState]

\* No load and no save is under way
Settled ==
  /\ load.at = "none"
  /\ shell.load.at = "none"
  /\ \A v \in Slots : saves[v].at = "none"

\* A translation is never twice in the history, on the screen or in the file,
\* although a load that overlaps a translation reads what it just saved.
NothingDoubled ==
  /\ \A s \in Screens : IsInjective(items[s])
  /\ IsInjective(Loads(file))
=============================================================================
