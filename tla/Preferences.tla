----------------------------- MODULE Preferences -----------------------------
(***************************************************************************)
(* The settings: app.ini, the controller's copy of it, and what the parts  *)
(* of the program were told of it.                                         *)
(*                                                                         *)
(* Four dialogs change settings, and each writes the file in its own way:  *)
(* the preferences and the cookie manager write it and make the controller *)
(* read it again, the theme menu only writes it, and the tracker editor    *)
(* and the exit write the controller's copy over it.                       *)
(*                                                                         *)
(* The worker thread applies the settings it is sent later, and reads the  *)
(* file of the IP filter then.  The controller watches that file.          *)
(*                                                                         *)
(* The settings are grouped by the path they take; the value of a group is *)
(* 0, its default, or a number that stands for other settings.             *)
(***************************************************************************)
EXTENDS Naturals, Sequences

CONSTANTS
    MaxValue,     \* bound: the largest value of a group
    MaxEdits,     \* bound: changes of the user, and starts
    MaxCmds,      \* bound: settings on their way to the worker
    MaxVersion    \* bound: versions of the IP filter's file

VARIABLES
    up,        \* "running", "exiting" (aboutToQuit is over) or "down"
    disk,      \* app.ini
    cached,    \* AppController's copy
    cmds,      \* settings on their way to the worker, oldest first
    session,   \* the settings the session runs with
    http,      \* the request headers of the RSS fetcher
    dialog,    \* the open dialog
    file,      \* the version of the IP filter's file, Absent if there is none
    watched,   \* the file is in the watcher
    event,     \* fileChanged is to be delivered
    rewatch,   \* the handler of fileChanged has yet to watch the file again
    loaded,    \* the version of the filter the session has, Absent if none
    edits,
    wanted     \* history: the values a group may have after what the user did

fileVars == <<file, watched, event, rewatch>>
workerVars == <<cmds, session, loaded>>
vars == <<up, disk, cached, workerVars, http, dialog, fileVars, edits, wanted>>

Values == 0..MaxValue
Absent == 0

\* The controls of the dialog, page by page.  "limits": the limits, ports,
\* discovery, encryption and proxy of the session; "filter": the IP filter is
\* enabled; "cookies": the request headers; "timed" and "complete": the two
\* actions; "trackers": ControllerSettings, in the same file but written after
\* the rest.
ConnectionPage == {"limits", "filter"}
ContentPage    == {"cookies"}
SystemPage     == {"theme", "timed", "complete", "trackers"}

DialogKeys == ConnectionPage \cup ContentPage \cup SystemPage

\* "advanced": the limits for slow torrents and for checking, on no page.
AppKeys == (DialogKeys \ {"trackers"}) \cup {"advanced"}
Keys == AppKeys \cup {"trackers"}
SessionKeys == {"limits", "advanced", "filter"}

Settings == [Keys -> Values]
Defaults == [k \in Keys |-> 0]

NoDialog == [kind |-> "none", vals |-> Defaults]

\* Mutant of Normalized: both actions may be set.
NormalizedNothing(s) == s

\* AppSettings::load and save, and the dialog: with a timed action there is no
\* action after the downloads.
Normalized(s) == IF s["timed"] # 0 THEN [s EXCEPT !["complete"] = 0] ELSE s

Load == Normalized(disk)

\* The settings s over the ones of d that are not among ks.
Over(d, s, ks) == [k \in Keys |-> IF k \in ks THEN s[k] ELSE d[k]]

\* AppSettings::save, when the file can be written.
SaveApp(s) == Over(disk, s, AppKeys)

\* setSettings and setControllerSettings: the controls show what was read.
Filled(s) == Over(Defaults, s, DialogKeys)

Init ==
    /\ up = "down"
    /\ disk \in {Defaults, [k \in Keys |-> 1]}
    /\ cached = Defaults
    /\ cmds = <<>> /\ session = Defaults /\ http = 0
    /\ dialog = NoDialog
    /\ file \in {Absent, 1}
    /\ watched = FALSE /\ event = FALSE /\ rewatch = FALSE
    /\ loaded = Absent
    /\ edits = 0
    /\ wanted = [k \in Keys |-> {Normalized(disk)[k]}]

-----------------------------------------------------------------------------
(* Telling the others.                                                     *)

\* Mutant of Apply: the headers are left as they are.
ApplyToSession(s) ==
    /\ Len(cmds) < MaxCmds
    /\ cmds' = Append(cmds, Over(Defaults, s, SessionKeys))
    /\ UNCHANGED http

\* applyRuntimeSettingsFromConfig: the worker gets a command, the fetcher its
\* headers.
Apply(s) ==
    /\ Len(cmds) < MaxCmds
    /\ cmds' = Append(cmds, Over(Defaults, s, SessionKeys))
    /\ http' = s["cookies"]

\* syncIpFilterFileWatcher: the file is watched if there is one.
Sync(s) == watched' = (s["filter"] # 0 /\ file # Absent)

\* Mutant of SettingsChanged: the copy is not read again.
SettingsChangedUncached(d) ==
    /\ UNCHANGED cached
    /\ Apply(cached)
    /\ Sync(cached)

\* The handler of settingsChanged, when the file holds d.
SettingsChanged(d) ==
    /\ cached' = Normalized(d)
    /\ Apply(Normalized(d))
    /\ Sync(Normalized(d))

\* main and initialize.
Start ==
    /\ up = "down" /\ edits < MaxEdits
    /\ edits' = edits + 1
    /\ up' = "running"
    /\ SettingsChanged(disk)
    /\ UNCHANGED <<disk, session, loaded, dialog, file, event, rewatch, wanted>>

-----------------------------------------------------------------------------
(* The user.                                                               *)

\* No dialog is open, and no handler of the UI thread is under way.
Idle == up = "running" /\ dialog = NoDialog /\ ~rewatch

Edit ==
    /\ edits < MaxEdits
    /\ edits' = edits + 1

\* The user is told that ks now have the values of s.
Told(s, ks) == wanted' = [k \in Keys |-> IF k \in ks THEN {s[k]} ELSE wanted[k]]

\* The user is told that saving failed: either value is as good.
ToldFailed(s, ks) ==
    wanted' = [k \in Keys |-> IF k \in ks THEN wanted[k] \cup {s[k]} ELSE wanted[k]]

\* openPreferences, up to exec: the dialog is filled from the file.
OpenPreferences ==
    /\ Idle /\ edits < MaxEdits
    /\ dialog' = [kind |-> "preferences", vals |-> Filled(Load)]
    /\ UNCHANGED <<up, disk, cached, workerVars, http, fileVars, edits, wanted>>

\* Mutant of SetControl: a control's range is one too large.
SetControlOffByOne(k, v) ==
    /\ dialog.kind = "preferences" /\ ~rewatch /\ k \in DialogKeys
    /\ Edit
    /\ dialog' = [dialog EXCEPT !.vals[k] = v + 1]
    /\ UNCHANGED <<up, disk, cached, workerVars, http, fileVars, wanted>>

\* A control of the dialog.  The action after the downloads cannot be chosen
\* beside a timed one.
SetControl(k, v) ==
    /\ dialog.kind = "preferences" /\ ~rewatch /\ k \in DialogKeys
    /\ v # dialog.vals[k]
    /\ k = "complete" => dialog.vals["timed"] = 0
    /\ Edit
    /\ dialog' = [dialog EXCEPT !.vals[k] = v]
    /\ UNCHANGED <<up, disk, cached, workerVars, http, fileVars, wanted>>

Reject ==
    /\ up = "running" /\ dialog # NoDialog /\ ~rewatch
    /\ dialog' = NoDialog
    /\ UNCHANGED <<up, disk, cached, workerVars, http, fileVars, edits, wanted>>

\* saveCombinedSettings writes AppSettings, then ControllerSettings.  If the
\* file cannot be written the second fails; the first may have been written.
SaveCombined(s) ==
    disk' \in {s, disk, SaveApp(s)}

\* What follows in the dialogs when the settings s were saved for ks.
AfterSave(s, ks) ==
    \/ disk' = s /\ SettingsChanged(s) /\ Told(s, ks)
    \/ ToldFailed(s, ks) /\ UNCHANGED <<cached, cmds, http, watched>>

\* currentSettings and currentControllerSettings.  What the dialog does not
\* offer has its default value.
CurrentSettings(v) == Normalized(Over(Defaults, v, DialogKeys))

\* The rest of openPreferences.
AcceptPreferences ==
    /\ up = "running" /\ dialog.kind = "preferences" /\ ~rewatch
    /\ dialog' = NoDialog
    /\ SaveCombined(CurrentSettings(dialog.vals))
    /\ AfterSave(CurrentSettings(dialog.vals), DialogKeys)
    /\ UNCHANGED <<up, session, loaded, file, event, rewatch, edits>>

\* openCookieManagerDialog, once its table holds other cookies: it reads the
\* file again before it writes it.
SaveCookies(v) ==
    /\ Idle /\ v # disk["cookies"]
    /\ Edit
    /\ SaveCombined([Load EXCEPT !["cookies"] = v])
    /\ AfterSave([Load EXCEPT !["cookies"] = v], {"cookies"})
    /\ UNCHANGED <<up, session, loaded, dialog, file, event, rewatch>>

\* The theme menu ignores whether the file could be written, and tells nobody.
SetTheme(v) ==
    /\ Idle /\ v # disk["theme"]
    /\ Edit
    /\ disk' = SaveApp([Load EXCEPT !["theme"] = v])
    /\ Told(disk', {"theme"})
    /\ UNCHANGED <<up, cached, workerVars, http, dialog, fileVars>>

\* saveSettings: the copy, over whatever the file holds.
SaveSettings(c) == SaveCombined(Normalized(c))

\* The tracker editor's check box: setOnDefaultTrackersChanged.
SetDefaultTrackers(v) ==
    /\ Idle /\ v # cached["trackers"]
    /\ Edit
    /\ cached' = [cached EXCEPT !["trackers"] = v]
    /\ SaveSettings(cached')
    /\ IF disk' = Normalized(cached')
       THEN Told(cached', {"trackers"}) ELSE ToldFailed(cached', {"trackers"})
    /\ UNCHANGED <<up, workerVars, http, dialog, fileVars>>

-----------------------------------------------------------------------------
(* The IP filter's file.                                                   *)

\* External: the file is written in place, replaced, created or deleted.  The
\* watcher reports it, and forgets a file that has gone.
FileChanges(v) ==
    /\ v # file /\ (v = Absent \/ v > file)
    /\ file' = v
    /\ event' = (event \/ watched)
    /\ watched' = (watched /\ v # Absent)
    /\ UNCHANGED <<up, disk, cached, workerVars, http, dialog, rewatch, edits, wanted>>

\* fileChanged, even while a dialog is open.  The AppSettings are read again,
\* and sent; the file is dropped from the watcher.
FileChanged ==
    /\ up = "running" /\ event /\ ~rewatch
    /\ event' = FALSE
    /\ cached' = Over(cached, Load, AppKeys)
    /\ Apply(cached')
    /\ watched' = FALSE /\ rewatch' = TRUE
    /\ UNCHANGED <<up, disk, session, loaded, dialog, file, edits, wanted>>

\* The end of the handler: the file is watched again if it is there.
Rewatch ==
    /\ rewatch
    /\ rewatch' = FALSE
    /\ Sync(cached)
    /\ UNCHANGED <<up, disk, cached, workerVars, http, dialog, file, event, edits, wanted>>

\* Mutant of LoadFilter: a filter that was loaded stays when it is disabled.
LoadFilterOnly(s) == IF s["filter"] # 0 THEN file ELSE loaded

\* The filter of a command: what the file holds now, or none.
LoadFilter(s) == IF s["filter"] # 0 THEN file ELSE Absent

\* The worker's handler of ApplyRuntimeSettingsCmd.
HandleApply ==
    /\ cmds # <<>>
    /\ session' = Head(cmds)
    /\ loaded' = LoadFilter(Head(cmds))
    /\ cmds' = Tail(cmds)
    /\ UNCHANGED <<up, disk, cached, http, dialog, fileVars, edits, wanted>>

-----------------------------------------------------------------------------
(* The end.                                                                *)

Stop ==
    /\ cmds' = <<>> /\ session' = Defaults /\ loaded' = Absent
    /\ cached' = Defaults /\ http' = 0
    /\ dialog' = NoDialog
    /\ watched' = FALSE /\ event' = FALSE /\ rewatch' = FALSE
    /\ UNCHANGED <<file, edits, wanted>>

Quit ==
    /\ up = "running" /\ ~rewatch
    /\ up' = "exiting"
    /\ dialog' = NoDialog
    /\ UNCHANGED <<disk, cached, workerVars, http, fileVars, edits, wanted>>

\* ~AppController.
Destroy ==
    /\ up = "exiting"
    /\ up' = "down"
    /\ SaveSettings(cached)
    /\ Stop

Crash ==
    /\ up \in {"running", "exiting"}
    /\ up' = "down"
    /\ Stop
    /\ UNCHANGED disk

Next ==
    \/ Start \/ Quit \/ Destroy \/ Crash
    \/ OpenPreferences \/ AcceptPreferences \/ Reject
    \/ \E k \in DialogKeys, v \in Values : SetControl(k, v)
    \/ \E v \in Values : SaveCookies(v) \/ SetTheme(v) \/ SetDefaultTrackers(v)
    \/ \E v \in 0..MaxVersion : FileChanges(v)
    \/ FileChanged \/ Rewatch
    \/ HandleApply

Spec == Init /\ [][Next]_vars

-----------------------------------------------------------------------------
(* Properties                                                              *)

\* Every variable has the type of its member.
TypeOK ==
    /\ up \in {"running", "exiting", "down"}
    /\ {disk, cached, session, dialog.vals} \subseteq Settings
    /\ \A i \in DOMAIN cmds : cmds[i] \in Settings
    /\ http \in Values /\ {file, loaded} \subseteq 0..MaxVersion
    /\ {watched, event, rewatch} \subseteq BOOLEAN
    /\ wanted \in [Keys -> SUBSET Values]

\* What the user saved in a dialog, and was told it is saved, is what the file
\* holds, through later dialogs, exits, crashes and starts.  The theme, and what
\* no dialog offers, are not kept.
ChoicesKept ==
    \A k \in Keys \ {"theme", "advanced"} : Normalized(disk)[k] \in wanted[k]

\* The session has, or is about to get, the controller's settings, and the
\* fetcher has them.
SessionFollows ==
    up = "running" =>
        LET last == IF cmds = <<>> THEN session ELSE cmds[Len(cmds)]
        IN  /\ \A k \in SessionKeys : last[k] = cached[k]
            /\ http = cached["cookies"]

\* The two actions exclude each other in what the controller works with, even
\* if the file was edited by hand.
ActionsExclusive == cached["timed"] = 0 \/ cached["complete"] = 0

\* A filter that is switched off is not in force for long: the session has none
\* once it has applied the settings.
FilterGoes ==
    up = "running" /\ cmds = <<>> /\ session["filter"] = 0 => loaded = Absent

\* The settings file has what the user has chosen in the dialogs, the session
\* and the fetcher run with it or are about to, two actions that exclude each
\* other are not both in force, and a filter that is switched off goes.
SettingsKept == ChoicesKept /\ SessionFollows /\ ActionsExclusive /\ FilterGoes
=============================================================================
