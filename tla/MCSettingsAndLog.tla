-------------------------- MODULE MCSettingsAndLog --------------------------
(***************************************************************************)
(* What the program keeps in files and memory, each by itself: the log's   *)
(* files, the store of log entries, the settings, and the IP filter.  They *)
(* share no state here.  A behaviour is one of the part that is used; the  *)
(* others stay as they are created.                                        *)
(***************************************************************************)
EXTENDS LogStore

VARIABLES
    used,   \* the part whose behaviour this is
    configured, enabled, cmds, writing, fs, policy, logging, ui, today, lowered, before, ended,
    ops, up, disk, cached, applied, current, http, dialog, file, watched, event, rewatch, loaded, edits,
    wanted, lines, read, blocked, rulesApplied

filesVars == <<configured, enabled, cmds, writing, fs, policy, logging, ui, today, lowered,
               before, ended, ops>>
settingsVars == <<up, disk, cached, applied, current, http, dialog, file, watched, event,
                  rewatch, loaded, edits, wanted>>
filterVars == <<lines, read, blocked, rulesApplied>>

Files == INSTANCE Logger WITH
    Threads <- {"t1", "t2"}, Fatal <- {"t1"}, MaxCmds <- 1, Backups <- {1, 2},
    MaxLines <- 3, MaxDays <- 2, MaxOps <- 1

Settings == INSTANCE Preferences WITH
    MaxValue <- 1, MaxEdits <- 3, MaxCmds <- 2, MaxVersion <- 2, cmds <- applied,
    session <- current

Filter == INSTANCE IpFilter WITH
    Bits4 <- 2, Bits6 <- 3, MaxLines <- 2, file <- lines, applied <- rulesApplied

\* The parts with many initial states have them in their own behaviours only.
KeptInit ==
    /\ used \in {"logger", "entries", "settings", "filter"}
    /\ Files!Init /\ (used # "logger" => ~configured)
    /\ Init
    /\ Settings!Init /\ (used # "settings" => disk = [k \in DOMAIN disk |-> 1] /\ file = 1)
    /\ (used = "filter" \/ (used # "filter" /\ lines = <<>>)) /\ Filter!Init

OnlyLogger   == used = "logger" /\ UNCHANGED <<used, vars, settingsVars, filterVars>>
OnlyStore    == used = "entries" /\ UNCHANGED <<used, filesVars, settingsVars, filterVars>>
OnlySettings == used = "settings" /\ UNCHANGED <<used, filesVars, vars, filterVars>>
OnlyFilter   == used = "filter" /\ UNCHANGED <<used, filesVars, vars, settingsVars>>

KeptNext ==
    \/ OnlyLogger /\ Files!Next
    \/ OnlyStore /\ Next
    \/ OnlySettings /\ Settings!Next
    \/ OnlyFilter /\ Filter!Next

KeptVars == <<used, filesVars, vars, settingsVars, filterVars>>
KeptSpec == KeptInit /\ [][KeptNext]_KeptVars

-----------------------------------------------------------------------------
\* Every part keeps its types.  What is said of a part is looked at in its own
\* behaviours; in those of the others it does not move.
PartsTypeOK ==
    /\ Files!TypeOK
    /\ used = "entries" => TypeOK
    /\ used = "settings" => Settings!TypeOK
    /\ used = "filter" => Filter!TypeOK

\* The log's files have the lines of each thread in its order, a rotation takes
\* the oldest, and an end of the program, also the one after a fatal error, finds
\* what was on its way before it written.
FilesComplete == Files!FilesComplete

\* An error that found the output on is not dropped if the queue is full, and no
\* line that is on its way to the files is.
ErrorsKept == Files!ErrorsKept

\* The settings file has what the user has chosen in the dialogs, the session
\* and the fetcher run with it or are about to, two actions that exclude each
\* other are not both in force, and a filter that is switched off goes.
SettingsKept == used = "settings" => Settings!SettingsKept

\* The IP filter blocks the addresses that its file names, no others, and counts
\* the rules that were applied.
FilterExact == used = "filter" => Filter!BlocksWhatIsMeant /\ Filter!CountsRules
=============================================================================
