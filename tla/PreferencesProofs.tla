-------------------------- MODULE PreferencesProofs --------------------------
(***************************************************************************)
(* Proofs about Preferences, for any number of values of a group and any   *)
(* number of edits, starts, crashes and failed writes: the settings keep   *)
(* their types, and SettingsKept.  The second part is about SeedingPolicy, *)
(* which runs by these settings, the third about IpFilter, whose file they *)
(* name: it blocks what its lines say and nothing else.                    *)
(***************************************************************************)
EXTENDS Preferences, TLAPS, FiniteSetTheorems, SequenceTheorems, WellFoundedInduction

\* The keys that some dialog offers and every writer keeps.
Kept == Keys \ {"theme", "advanced"}

Exclusive(s) == s["timed"] = 0 \/ s["complete"] = 0

\* What the session runs with once the worker has handled its queue.
Last == IF cmds = <<>> THEN session ELSE cmds[Len(cmds)]

\* The part of the types the proofs need.
Shape ==
    /\ up \in {"running", "exiting", "down"}
    /\ disk \in Settings /\ cached \in Settings /\ session \in Settings
    /\ dialog \in [kind : {"none", "preferences"}, vals : Settings]
    /\ cmds \in Seq(Settings)
    /\ http \in Values
    /\ file \in 0..MaxVersion /\ loaded \in 0..MaxVersion
    /\ watched \in BOOLEAN /\ event \in BOOLEAN /\ rewatch \in BOOLEAN
    /\ wanted \in [Keys -> SUBSET Values]

\* The exit, the tracker editor and the watcher work with the controller's copy:
\* while it is there it has what the user chose, like the file.
CopyKept == up # "down" => \A k \in Kept : cached[k] \in wanted[k]

\* The session's filter follows the settings the session has at any moment.
FilterFollows == session["filter"] = 0 => loaded = Absent

Inv ==
    /\ Shape /\ ChoicesKept /\ CopyKept
    /\ SessionFollows /\ ActionsExclusive /\ FilterFollows

-----------------------------------------------------------------------------
(* The settings as values.                                                 *)

\* The groups of keys, one inside the other.
LEMMA KeyGroups ==
    /\ {"timed", "complete", "cookies", "filter", "theme"} \subseteq AppKeys
    /\ AppKeys \subseteq Keys /\ "trackers" \in Keys /\ "trackers" \notin AppKeys
    /\ \A k \in Keys : k \notin AppKeys => k = "trackers"
    /\ SessionKeys \subseteq AppKeys /\ "filter" \in SessionKeys /\ "cookies" \notin SessionKeys
    /\ DialogKeys \subseteq Keys /\ Kept \subseteq DialogKeys /\ Kept \subseteq Keys
    /\ {"cookies", "trackers", "theme"} \subseteq DialogKeys
    /\ "theme" \notin Kept
BY DEF AppKeys, Keys, SessionKeys, DialogKeys, ConnectionPage, ContentPage, SystemPage, Kept

\* Combining settings gives settings.
LEMMA OverIs ==
    ASSUME NEW d \in Settings, NEW s \in Settings, NEW ks
    PROVE  /\ Over(d, s, ks) \in Settings
           /\ \A k \in Keys : Over(d, s, ks)[k] = IF k \in ks THEN s[k] ELSE d[k]
BY DEF Over, Settings

\* Normalizing gives settings in which the two actions exclude each other, and
\* touches nothing but the action after the downloads.
LEMMA NormalizedIs ==
    ASSUME MaxValue \in Nat, NEW s \in Settings
    PROVE  /\ Normalized(s) \in Settings
           /\ Exclusive(Normalized(s))
           /\ \A k \in Keys : k # "complete" => Normalized(s)[k] = s[k]
           /\ Exclusive(s) => Normalized(s) = s
<1>1. "timed" \in Keys /\ "complete" \in Keys /\ 0 \in Values
  BY KeyGroups DEF Values
<1>2. CASE s["timed"] = 0
  BY <1>2 DEF Normalized, Exclusive
<1>3. CASE s["timed"] # 0
  <2>1. Normalized(s) = [s EXCEPT !["complete"] = 0]  BY <1>3 DEF Normalized
  <2>2. Normalized(s) \in Settings  BY <2>1, <1>1 DEF Settings
  <2>3. \A k \in Keys : k # "complete" => Normalized(s)[k] = s[k]
    BY <2>1 DEF Settings
  <2>4. Normalized(s)["complete"] = 0  BY <2>1, <1>1 DEF Settings
  <2>5. s["complete"] = 0 => Normalized(s) = s
    BY <2>1, <1>1 DEF Settings
  <2> QED  BY <2>2, <2>3, <2>4, <2>5, <1>3 DEF Exclusive
<1> QED  BY <1>2, <1>3

\* Changing one group gives settings.
LEMMA ExceptIs ==
    ASSUME NEW s \in Settings, NEW key \in Keys, NEW v \in Values
    PROVE  /\ [s EXCEPT ![key] = v] \in Settings
           /\ [s EXCEPT ![key] = v][key] = v
           /\ \A k \in Keys : k # key => [s EXCEPT ![key] = v][k] = s[k]
BY DEF Settings

\* The defaults are settings, and have no filter and no actions.
LEMMA DefaultsAre ==
    ASSUME MaxValue \in Nat
    PROVE  /\ Defaults \in Settings /\ Exclusive(Defaults)
           /\ \A k \in Keys : Defaults[k] = 0
           /\ 0 \in Values
<1>1. 0 \in Values  BY DEF Values
<1> QED  BY <1>1, KeyGroups DEF Defaults, Settings, Exclusive

\* Whatever happens to the two writes, each group of the file has its old value
\* or the one that was to be saved.
LEMMA SaveCombinedIs ==
    ASSUME MaxValue \in Nat, disk \in Settings, NEW s \in Settings, Exclusive(s),
           SaveCombined(s)
    PROVE  /\ disk' \in Settings
           /\ \A k \in Keys : Normalized(disk')[k] \in {s[k], Normalized(disk)[k]}
<1>1. CASE disk' = s
  BY <1>1, NormalizedIs
<1>2. CASE disk' = disk
  BY <1>2
<1>3. CASE disk' = SaveApp(s)
  <2>1. /\ disk' \in Settings
        /\ \A k \in Keys : disk'[k] = IF k \in AppKeys THEN s[k] ELSE disk[k]
    BY <1>3, OverIs DEF SaveApp
  <2>2. Exclusive(disk')  BY <2>1, KeyGroups DEF Exclusive
  <2>3. Normalized(disk') = disk'  BY <2>1, <2>2, NormalizedIs
  <2>4. Normalized(disk)["trackers"] = disk["trackers"]
    BY NormalizedIs, KeyGroups
  <2> QED  BY <2>1, <2>3, <2>4, KeyGroups
<1> QED  BY <1>1, <1>2, <1>3 DEF SaveCombined

-----------------------------------------------------------------------------
(* Telling the others, and the user.                                       *)

\* Once settings are applied, the worker has them at the end of its queue and
\* the fetcher has its headers.
LEMMA ApplyIs ==
    ASSUME MaxValue \in Nat, cmds \in Seq(Settings), NEW s \in Settings, Apply(s)
    PROVE  /\ cmds' \in Seq(Settings)
           /\ \A k \in SessionKeys : Last'[k] = s[k]
           /\ http' = s["cookies"] /\ http' \in Values
<1> DEFINE x == Over(Defaults, s, SessionKeys)
<1>1. x \in Settings /\ \A k \in SessionKeys : x[k] = s[k]
  BY OverIs, DefaultsAre, KeyGroups
<1>2. cmds' = Append(cmds, x)  BY DEF Apply
<1> HIDE DEF x
<1>3. cmds' \in Seq(Settings) /\ cmds' # <<>> /\ cmds'[Len(cmds')] = x
  BY <1>1, <1>2
<1>4. Last' = x  BY <1>3 DEF Last
<1>5. s["cookies"] \in Values  BY KeyGroups DEF Settings
<1> QED  BY <1>1, <1>3, <1>4, <1>5 DEF Apply

\* settingsChanged makes copy, worker and fetcher follow the file.
LEMMA SettingsChangedIs ==
    ASSUME MaxValue \in Nat, cmds \in Seq(Settings), NEW d \in Settings, SettingsChanged(d)
    PROVE  /\ cached' = Normalized(d) /\ cached' \in Settings
           /\ cmds' \in Seq(Settings) /\ http' \in Values /\ watched' \in BOOLEAN
           /\ SessionFollows' /\ ActionsExclusive'
<1>1. cached' = Normalized(d) /\ cached' \in Settings /\ Exclusive(cached')
  BY NormalizedIs DEF SettingsChanged
<1>2. Apply(cached')  BY <1>1 DEF SettingsChanged
<1>3. /\ cmds' \in Seq(Settings) /\ http' \in Values
      /\ \A k \in SessionKeys : Last'[k] = cached'[k]
      /\ http' = cached'["cookies"]
  BY <1>1, <1>2, ApplyIs
<1>4. watched' \in BOOLEAN  BY DEF SettingsChanged, Sync
<1> QED  BY <1>1, <1>3, <1>4 DEF SessionFollows, Last, ActionsExclusive, Exclusive

\* The two things the user may be told, as facts about what he wants.
LEMMA ToldIs ==
    ASSUME wanted \in [Keys -> SUBSET Values], NEW s \in Settings, NEW ks, Told(s, ks)
    PROVE  /\ wanted' \in [Keys -> SUBSET Values]
           /\ \A k \in Keys : wanted'[k] = IF k \in ks THEN {s[k]} ELSE wanted[k]
BY DEF Told, Settings

\* After a failed save the new value of a group is as good as the one before.
LEMMA ToldFailedIs ==
    ASSUME wanted \in [Keys -> SUBSET Values], NEW s \in Settings, NEW ks, ToldFailed(s, ks)
    PROVE  /\ wanted' \in [Keys -> SUBSET Values]
           /\ \A k \in Keys : wanted[k] \subseteq wanted'[k]
           /\ \A k \in Keys : k \in ks => s[k] \in wanted'[k]
<1>1. wanted' = [k \in Keys |-> IF k \in ks THEN wanted[k] \cup {s[k]} ELSE wanted[k]]
  BY DEF ToldFailed
<1>2. \A k \in Keys : s[k] \in Values /\ wanted[k] \in SUBSET Values
  BY DEF Settings
<1> QED  BY <1>1, <1>2

\* A dialog saves s for the groups ks, s being what the user wants of the
\* others: afterwards the file has what he wants, and the copy too.
LEMMA DialogSaves ==
    ASSUME MaxValue \in Nat, Inv, up = "running", NEW ks, NEW s \in Settings, Exclusive(s),
           \A k \in Kept : k \notin ks => s[k] \in wanted[k],
           SaveCombined(s), AfterSave(s, ks), UNCHANGED <<up, session>>
    PROVE  /\ disk' \in Settings /\ cached' \in Settings /\ cmds' \in Seq(Settings)
           /\ http' \in Values /\ watched' \in BOOLEAN
           /\ wanted' \in [Keys -> SUBSET Values]
           /\ ChoicesKept' /\ CopyKept' /\ SessionFollows' /\ ActionsExclusive'
<1> USE DEF Inv, Shape
<1>1. /\ disk' \in Settings
      /\ \A k \in Keys : Normalized(disk')[k] \in {s[k], Normalized(disk)[k]}
  BY SaveCombinedIs
<1>2. CASE disk' = s /\ SettingsChanged(s) /\ Told(s, ks)
  <2>1. /\ wanted' \in [Keys -> SUBSET Values]
        /\ \A k \in Keys : wanted'[k] = IF k \in ks THEN {s[k]} ELSE wanted[k]
    BY <1>2, ToldIs
  <2>2. Normalized(s) = s  BY NormalizedIs
  <2>3. \A k \in Kept : s[k] \in wanted'[k]  BY <2>1, KeyGroups
  <2>4. ChoicesKept' /\ CopyKept'
    BY <2>2, <2>3, <1>2 DEF ChoicesKept, CopyKept, Kept, SettingsChanged
  <2> QED  BY <1>1, <1>2, <2>1, <2>4, SettingsChangedIs
<1>3. CASE ToldFailed(s, ks) /\ UNCHANGED <<cached, cmds, http, watched>>
  <2>1. /\ wanted' \in [Keys -> SUBSET Values]
        /\ \A k \in Keys : wanted[k] \subseteq wanted'[k]
        /\ \A k \in Keys : k \in ks => s[k] \in wanted'[k]
    BY <1>3, ToldFailedIs
  <2>2. \A k \in Kept : s[k] \in wanted'[k]  BY <2>1, KeyGroups
  <2>3. \A k \in Kept : Normalized(disk)[k] \in wanted'[k]
    BY <2>1, KeyGroups DEF ChoicesKept, Kept
  <2>4. ChoicesKept'  BY <1>1, <2>2, <2>3, KeyGroups DEF ChoicesKept, Kept
  <2>5. CopyKept'  BY <1>3, <2>1, KeyGroups DEF CopyKept
  <2>6. SessionFollows' /\ ActionsExclusive'  BY <1>3 DEF SessionFollows, ActionsExclusive
  <2> QED  BY <1>1, <1>3, <2>1, <2>4, <2>5, <2>6
<1> QED  BY <1>2, <1>3 DEF AfterSave
-----------------------------------------------------------------------------
(* Every step keeps the invariant.                                         *)

\* At the start nothing runs, and what the file holds is what is wanted.
LEMMA InitInv ==
    ASSUME MaxValue \in Nat \ {0}, MaxVersion \in Nat \ {0}, Init
    PROVE  Inv
<1>1. /\ Defaults \in Settings /\ Exclusive(Defaults) /\ 0 \in Values
      /\ \A k \in Keys : Defaults[k] = 0
  BY DefaultsAre
<1>2. [k \in Keys |-> 1] \in Settings  BY DEF Settings, Values
<1>3. disk \in Settings  BY <1>1, <1>2 DEF Init
<1>4. /\ Normalized(disk) \in Settings
      /\ \A k \in Keys : Normalized(disk)[k] \in Values /\ wanted[k] = {Normalized(disk)[k]}
  <2>1. Normalized(disk) \in Settings  BY <1>3, NormalizedIs
  <2>2. wanted = [k \in Keys |-> {Normalized(disk)[k]}]  BY DEF Init
  <2> QED  BY <2>1, <2>2 DEF Settings
<1>5. Shape
  <2>1. wanted \in [Keys -> SUBSET Values]
    <3>1. wanted = [k \in Keys |-> {Normalized(disk)[k]}]  BY DEF Init
    <3> QED  BY <3>1, <1>4
  <2>2. dialog \in [kind : {"none", "preferences"}, vals : Settings]
    BY <1>1 DEF Init, NoDialog
  <2>3. cmds \in Seq(Settings)  BY DEF Init
  <2>4. file \in 0..MaxVersion /\ loaded \in 0..MaxVersion
    BY SMT DEF Init, Absent
  <2> QED  BY <1>1, <1>3, <2>1, <2>2, <2>3, <2>4 DEF Init, Shape
<1>6. ChoicesKept  BY <1>4 DEF ChoicesKept
<1>7. CopyKept /\ SessionFollows /\ ActionsExclusive /\ FilterFollows
  BY <1>1 DEF Init, CopyKept, SessionFollows, ActionsExclusive, FilterFollows, Exclusive
<1> QED  BY <1>5, <1>6, <1>7 DEF Inv

\* A start reads the file and tells the others.
LEMMA StartKeeps ==
    ASSUME MaxValue \in Nat, Inv, Start
    PROVE  Inv'
<1> USE DEF Inv, Shape
<1>1. SettingsChanged(disk) /\ UNCHANGED <<disk, session, loaded, dialog, file, event, rewatch, wanted>>
      /\ up' = "running"
  BY DEF Start
<1>2. /\ cached' = Normalized(disk) /\ cached' \in Settings
      /\ cmds' \in Seq(Settings) /\ http' \in Values /\ watched' \in BOOLEAN
      /\ SessionFollows' /\ ActionsExclusive'
  BY <1>1, SettingsChangedIs
<1>3. Shape'  BY <1>1, <1>2
<1>4. ChoicesKept' /\ CopyKept'  BY <1>1, <1>2 DEF ChoicesKept, CopyKept, Kept
<1>5. FilterFollows'  BY <1>1 DEF FilterFollows
<1> QED  BY <1>2, <1>3, <1>4, <1>5

\* Opening, editing and leaving the preferences changes the dialog only.
LEMMA DialogStepsKeep ==
    ASSUME MaxValue \in Nat, Inv,
           dialog' \in [kind : {"none", "preferences"}, vals : Settings],
           UNCHANGED <<up, disk, cached, workerVars, http, fileVars, wanted>>
    PROVE  Inv'
<1> USE DEF Inv, Shape
<1>1. Shape'  BY DEF workerVars, fileVars
<1>2. ChoicesKept' /\ CopyKept' /\ SessionFollows' /\ ActionsExclusive' /\ FilterFollows'
  BY DEF ChoicesKept, CopyKept, SessionFollows, ActionsExclusive, FilterFollows, workerVars
<1> QED  BY <1>1, <1>2

\* What the preferences save is what their controls show, and the defaults of
\* what they do not offer.
LEMMA AcceptPreferencesKeeps ==
    ASSUME MaxValue \in Nat, Inv, AcceptPreferences
    PROVE  Inv'
<1> USE DEF Inv, Shape
<1> DEFINE s == CurrentSettings(dialog.vals)
<1>1. s \in Settings /\ Exclusive(s)
  BY OverIs, NormalizedIs, DefaultsAre DEF CurrentSettings
<1>2. SaveCombined(s) /\ AfterSave(s, DialogKeys) /\ dialog' = NoDialog
      /\ UNCHANGED <<up, session, loaded, file, event, rewatch>> /\ up = "running"
  BY DEF AcceptPreferences
<1>3. \A k \in Kept : k \notin DialogKeys => s[k] \in wanted[k]  BY KeyGroups
<1> HIDE DEF s
<1>4. /\ disk' \in Settings /\ cached' \in Settings /\ cmds' \in Seq(Settings)
      /\ http' \in Values /\ watched' \in BOOLEAN
      /\ wanted' \in [Keys -> SUBSET Values]
      /\ ChoicesKept' /\ CopyKept' /\ SessionFollows' /\ ActionsExclusive'
  BY <1>1, <1>2, <1>3, DialogSaves
<1>5. dialog' \in [kind : {"none", "preferences"}, vals : Settings]
  BY <1>2, DefaultsAre DEF NoDialog
<1>6. FilterFollows'  BY <1>2 DEF FilterFollows
<1> QED  BY <1>2, <1>4, <1>5, <1>6

\* The cookie manager writes the file's own settings with other cookies.
LEMMA SaveCookiesKeeps ==
    ASSUME MaxValue \in Nat, Inv, NEW v \in Values, SaveCookies(v)
    PROVE  Inv'
<1> USE DEF Inv, Shape
<1> DEFINE s == [Load EXCEPT !["cookies"] = v]
<1>1. Load \in Settings /\ Exclusive(Load)  BY NormalizedIs DEF Load
<1>2. /\ s \in Settings /\ s["cookies"] = v
      /\ \A k \in Keys : k # "cookies" => s[k] = Load[k]
  BY <1>1, ExceptIs, KeyGroups
<1>3. Exclusive(s)  BY <1>1, <1>2, KeyGroups DEF Exclusive
<1>4. SaveCombined(s) /\ AfterSave(s, {"cookies"}) /\ up = "running"
      /\ UNCHANGED <<up, session, loaded, dialog, file, event, rewatch>>
  BY DEF SaveCookies, Idle
<1> HIDE DEF s
<1>5. \A k \in Kept : k \notin {"cookies"} => s[k] \in wanted[k]
  BY <1>2, KeyGroups DEF ChoicesKept, Kept, Load
<1>6. /\ disk' \in Settings /\ cached' \in Settings /\ cmds' \in Seq(Settings)
      /\ http' \in Values /\ watched' \in BOOLEAN
      /\ wanted' \in [Keys -> SUBSET Values]
      /\ ChoicesKept' /\ CopyKept' /\ SessionFollows' /\ ActionsExclusive'
  BY <1>2, <1>3, <1>4, <1>5, DialogSaves
<1>7. FilterFollows'  BY <1>4 DEF FilterFollows
<1> QED  BY <1>4, <1>6, <1>7

\* The theme menu writes the file's own settings with another theme.
LEMMA SetThemeKeeps ==
    ASSUME MaxValue \in Nat, Inv, NEW v \in Values, SetTheme(v)
    PROVE  Inv'
<1> USE DEF Inv, Shape
<1> DEFINE s == [Load EXCEPT !["theme"] = v]
<1>1. Load \in Settings /\ Exclusive(Load)  BY NormalizedIs DEF Load
<1>2. s \in Settings /\ \A k \in Keys : k # "theme" => s[k] = Load[k]
  BY <1>1, ExceptIs, KeyGroups
<1>3. Exclusive(s)  BY <1>1, <1>2, KeyGroups DEF Exclusive
<1>4. disk' = SaveApp(s) /\ Told(disk', {"theme"})
      /\ UNCHANGED <<up, cached, workerVars, http, dialog, fileVars>>
  BY DEF SetTheme
<1> HIDE DEF s
<1>5. SaveCombined(s)  BY <1>4 DEF SaveCombined
<1>6. /\ disk' \in Settings
      /\ \A k \in Keys : Normalized(disk')[k] \in {s[k], Normalized(disk)[k]}
  BY <1>2, <1>3, <1>5, SaveCombinedIs
<1>7. /\ wanted' \in [Keys -> SUBSET Values]
      /\ \A k \in Keys : k \notin {"theme"} => wanted'[k] = wanted[k]
  <2>1. wanted' = [k \in Keys |-> IF k \in {"theme"} THEN {disk'[k]} ELSE wanted[k]]
    BY <1>4 DEF Told
  <2>2. \A k \in Keys : disk'[k] \in Values /\ wanted[k] \in SUBSET Values
    BY <1>6 DEF Settings
  <2> QED  BY <2>1, <2>2
<1>8. \A k \in Kept : Normalized(disk')[k] = Normalized(disk)[k] /\ wanted'[k] = wanted[k]
  BY <1>2, <1>6, <1>7, KeyGroups DEF Load, Kept
<1>9. ChoicesKept' /\ CopyKept'  BY <1>4, <1>8 DEF ChoicesKept, CopyKept, Kept
<1>10. SessionFollows' /\ ActionsExclusive' /\ FilterFollows'
  BY <1>4 DEF SessionFollows, ActionsExclusive, FilterFollows, workerVars
<1>11. Shape'  BY <1>4, <1>6, <1>7 DEF workerVars, fileVars
<1> QED  BY <1>9, <1>10, <1>11

\* The tracker editor writes the controller's copy, its own group changed.
LEMMA SetDefaultTrackersKeeps ==
    ASSUME MaxValue \in Nat, Inv, NEW v \in Values, SetDefaultTrackers(v)
    PROVE  Inv'
<1> USE DEF Inv, Shape
<1>1. /\ cached' = [cached EXCEPT !["trackers"] = v] /\ cached \in Settings
      /\ SaveSettings(cached') /\ up = "running"
      /\ UNCHANGED <<up, workerVars, http, dialog, fileVars>>
      /\ \/ disk' = Normalized(cached') /\ Told(cached', {"trackers"})
         \/ ToldFailed(cached', {"trackers"})
  BY DEF SetDefaultTrackers, Idle
<1>2. /\ cached' \in Settings /\ cached'["trackers"] = v
      /\ \A k \in Keys : k # "trackers" => cached'[k] = cached[k]
  <2>1. "trackers" \in Keys  BY KeyGroups
  <2>2. cached' = [cached EXCEPT !["trackers"] = v] /\ cached \in [Keys -> Values]
    BY <1>1 DEF Settings
  <2>3. cached' \in [Keys -> Values]  BY <2>1, <2>2
  <2>4. cached'["trackers"] = v  BY <2>1, <2>2
  <2>5. \A k \in Keys : k # "trackers" => cached'[k] = cached[k]  BY <2>1, <2>2
  <2> QED  BY <2>3, <2>4, <2>5 DEF Settings
<1>3. Exclusive(cached')  BY <1>2, KeyGroups DEF Exclusive, ActionsExclusive
<1>4. Normalized(cached') = cached'  BY <1>2, <1>3, NormalizedIs
<1>5. /\ disk' \in Settings
      /\ \A k \in Keys : Normalized(disk')[k] \in {cached'[k], Normalized(disk)[k]}
  BY <1>1, <1>2, <1>3, <1>4, SaveCombinedIs DEF SaveSettings
<1>6. /\ wanted' \in [Keys -> SUBSET Values]
      /\ \A k \in Kept : cached'[k] \in wanted'[k] /\ Normalized(disk')[k] \in wanted'[k]
  <2>1. \A k \in Kept : k # "trackers" => cached'[k] \in wanted[k]
    BY <1>1, <1>2, KeyGroups DEF CopyKept
  <2>2. CASE disk' = Normalized(cached') /\ Told(cached', {"trackers"})
    <3>1. /\ wanted' \in [Keys -> SUBSET Values]
          /\ \A k \in Keys : wanted'[k] = IF k \in {"trackers"} THEN {cached'[k]} ELSE wanted[k]
      BY <2>2, <1>2, ToldIs
    <3> QED  BY <3>1, <2>1, <2>2, <1>4, KeyGroups
  <2>3. CASE ToldFailed(cached', {"trackers"})
    <3>1. /\ wanted' \in [Keys -> SUBSET Values]
          /\ \A k \in Keys : wanted[k] \subseteq wanted'[k]
          /\ \A k \in Keys : k \in {"trackers"} => cached'[k] \in wanted'[k]
      BY <2>3, <1>2, ToldFailedIs
    <3>2. \A k \in Kept : cached'[k] \in wanted'[k]  BY <3>1, <2>1, KeyGroups
    <3>3. \A k \in Kept : Normalized(disk)[k] \in wanted'[k]
      BY <3>1, KeyGroups DEF ChoicesKept, Kept
    <3> QED  BY <3>1, <3>2, <3>3, <1>5, KeyGroups
  <2> QED  BY <1>1, <2>2, <2>3
<1>7. ChoicesKept' /\ CopyKept'  BY <1>6 DEF ChoicesKept, CopyKept, Kept
<1>8. SessionFollows' /\ FilterFollows'
  BY <1>1, <1>2, KeyGroups DEF SessionFollows, FilterFollows, workerVars
<1>9. ActionsExclusive'  BY <1>3 DEF ActionsExclusive, Exclusive
<1>10. Shape'  BY <1>1, <1>2, <1>5, <1>6 DEF workerVars, fileVars
<1> QED  BY <1>7, <1>8, <1>9, <1>10

\* A change of the filter's file touches that file and the watcher.
LEMMA FileChangesKeeps ==
    ASSUME Inv, NEW v \in 0..MaxVersion, FileChanges(v)
    PROVE  Inv'
<1> USE DEF Inv, Shape
<1>1. /\ file' \in 0..MaxVersion /\ event' \in BOOLEAN /\ watched' \in BOOLEAN
      /\ UNCHANGED <<up, disk, cached, workerVars, http, dialog, rewatch, wanted>>
  BY DEF FileChanges
<1>2. Shape'  BY <1>1 DEF workerVars
<1>3. ChoicesKept' /\ CopyKept' /\ SessionFollows' /\ ActionsExclusive' /\ FilterFollows'
  BY <1>1 DEF ChoicesKept, CopyKept, SessionFollows, ActionsExclusive, FilterFollows, workerVars
<1> QED  BY <1>2, <1>3

\* The watcher's handler reads the file and sends the settings.
LEMMA FileChangedKeeps ==
    ASSUME MaxValue \in Nat, Inv, FileChanged
    PROVE  Inv'
<1> USE DEF Inv, Shape
<1>1. /\ up = "running" /\ cached' = Over(cached, Load, AppKeys) /\ Apply(cached')
      /\ event' = FALSE /\ watched' = FALSE /\ rewatch' = TRUE
      /\ UNCHANGED <<up, disk, session, loaded, dialog, file, wanted>>
  BY DEF FileChanged
<1>2. Load \in Settings /\ Exclusive(Load)  BY NormalizedIs DEF Load
<1>3. /\ cached' \in Settings
      /\ \A k \in Keys : cached'[k] = IF k \in AppKeys THEN Load[k] ELSE cached[k]
  BY <1>1, <1>2, OverIs
<1>4. /\ cmds' \in Seq(Settings) /\ http' = cached'["cookies"] /\ http' \in Values
      /\ \A k \in SessionKeys : Last'[k] = cached'[k]
  BY <1>1, <1>3, ApplyIs
<1>5. SessionFollows'  BY <1>4 DEF SessionFollows, Last
<1>6. ActionsExclusive'  BY <1>2, <1>3, KeyGroups DEF ActionsExclusive, Exclusive
<1>7. CopyKept'  BY <1>1, <1>3, KeyGroups DEF CopyKept, ChoicesKept, Kept, Load
<1>8. ChoicesKept' /\ FilterFollows'  BY <1>1 DEF ChoicesKept, FilterFollows
<1>9. Shape'  BY <1>1, <1>3, <1>4
<1> QED  BY <1>5, <1>6, <1>7, <1>8, <1>9

\* The end of that handler looks at the copy.
LEMMA RewatchKeeps ==
    ASSUME Inv, Rewatch
    PROVE  Inv'
<1> USE DEF Inv, Shape
<1>1. /\ watched' \in BOOLEAN /\ rewatch' = FALSE
      /\ UNCHANGED <<up, disk, cached, workerVars, http, dialog, file, event, wanted>>
  BY DEF Rewatch, Sync
<1>2. Shape'  BY <1>1 DEF workerVars
<1>3. ChoicesKept' /\ CopyKept' /\ SessionFollows' /\ ActionsExclusive' /\ FilterFollows'
  BY <1>1 DEF ChoicesKept, CopyKept, SessionFollows, ActionsExclusive, FilterFollows, workerVars
<1> QED  BY <1>2, <1>3

\* The worker takes the oldest settings and loads the filter they ask for.
LEMMA HandleApplyKeeps ==
    ASSUME MaxVersion \in Nat, Inv, HandleApply
    PROVE  Inv'
<1> USE DEF Inv, Shape
<1>1. /\ cmds # <<>> /\ session' = Head(cmds) /\ loaded' = LoadFilter(Head(cmds))
      /\ cmds' = Tail(cmds)
      /\ UNCHANGED <<up, disk, cached, http, dialog, fileVars, wanted>>
  BY DEF HandleApply
<1>2. /\ Head(cmds) \in Settings /\ cmds' \in Seq(Settings)
      /\ Last' = Last
  <2>1. Len(cmds) \in Nat \ {0} /\ Head(cmds) = cmds[1] /\ Len(cmds') = Len(cmds) - 1
        /\ \A i \in 1..Len(cmds') : cmds'[i] = cmds[i + 1]
    BY <1>1
  <2>2. CASE Len(cmds) = 1  BY <1>1, <2>1, <2>2 DEF Last
  <2>3. CASE Len(cmds) # 1
    <3>1. Len(cmds') \in Nat \ {0} /\ Len(cmds') + 1 = Len(cmds)
      BY <2>1, <2>3
    <3>2. cmds' # <<>>  BY <3>1
    <3>3. cmds'[Len(cmds')] = cmds[Len(cmds)]  BY <3>1, <2>1
    <3> QED  BY <3>2, <3>3, <1>1 DEF Last
  <2> QED  BY <2>1, <2>2, <2>3, <1>1
<1>3. loaded' \in 0..MaxVersion /\ FilterFollows'
  BY <1>1 DEF LoadFilter, FilterFollows, Absent
<1>4. SessionFollows'  BY <1>1, <1>2 DEF SessionFollows, Last
<1>5. ChoicesKept' /\ CopyKept' /\ ActionsExclusive'
  BY <1>1 DEF ChoicesKept, CopyKept, ActionsExclusive
<1>6. Shape'  BY <1>1, <1>2, <1>3 DEF fileVars
<1> QED  BY <1>3, <1>4, <1>5, <1>6

\* After aboutToQuit the copy waits for the destructor.
LEMMA QuitKeeps ==
    ASSUME MaxValue \in Nat, Inv, Quit
    PROVE  Inv'
<1> USE DEF Inv, Shape
<1>1. /\ up = "running" /\ up' = "exiting" /\ dialog' = NoDialog
      /\ UNCHANGED <<disk, cached, workerVars, http, fileVars, wanted>>
  BY DEF Quit
<1>2. Shape'  BY <1>1, DefaultsAre DEF workerVars, fileVars, NoDialog
<1>3. ChoicesKept' /\ CopyKept' /\ SessionFollows' /\ ActionsExclusive' /\ FilterFollows'
  BY <1>1 DEF ChoicesKept, CopyKept, SessionFollows, ActionsExclusive, FilterFollows, workerVars
<1> QED  BY <1>2, <1>3

\* The process is gone, by its destructor or by a crash.
LEMMA StopKeeps ==
    ASSUME MaxValue \in Nat, MaxVersion \in Nat, Inv, up' = "down", Stop,
           disk' \in Settings,
           \A k \in Kept : Normalized(disk')[k] \in wanted[k]
    PROVE  Inv'
<1> USE DEF Inv, Shape
<1>1. Defaults \in Settings /\ Exclusive(Defaults) /\ 0 \in Values  BY DefaultsAre
<1>2. 0 \in 0..MaxVersion  BY DEF Absent
<1>3. Shape'
  <2>1. dialog' \in [kind : {"none", "preferences"}, vals : Settings]
    BY <1>1 DEF Stop, NoDialog
  <2>2. cmds' \in Seq(Settings)  BY DEF Stop
  <2>3. session' \in Settings /\ cached' \in Settings /\ http' \in Values  BY <1>1 DEF Stop
  <2>4. /\ file' \in 0..MaxVersion /\ loaded' \in 0..MaxVersion
        /\ watched' \in BOOLEAN /\ event' \in BOOLEAN /\ rewatch' \in BOOLEAN
        /\ wanted' \in [Keys -> SUBSET Values]
    BY <1>2 DEF Stop, Absent
  <2> QED  BY <2>1, <2>2, <2>3, <2>4
<1>4. ChoicesKept'  BY DEF Stop, ChoicesKept, Kept
<1>5. CopyKept' /\ SessionFollows' /\ ActionsExclusive' /\ FilterFollows'
  BY <1>1 DEF Stop, CopyKept, SessionFollows, ActionsExclusive, FilterFollows, Exclusive
<1> QED  BY <1>3, <1>4, <1>5

\* The destructor writes the copy over the file.
LEMMA DestroyKeeps ==
    ASSUME MaxValue \in Nat, MaxVersion \in Nat, Inv, Destroy
    PROVE  Inv'
<1> USE DEF Inv, Shape
<1>1. up = "exiting" /\ up' = "down" /\ SaveSettings(cached) /\ Stop  BY DEF Destroy
<1>2. Exclusive(cached)  BY DEF ActionsExclusive, Exclusive
<1>3. Normalized(cached) = cached  BY <1>2, NormalizedIs
<1>4. /\ disk' \in Settings
      /\ \A k \in Keys : Normalized(disk')[k] \in {cached[k], Normalized(disk)[k]}
  BY <1>1, <1>2, <1>3, SaveCombinedIs DEF SaveSettings
<1>5. \A k \in Kept : Normalized(disk')[k] \in wanted[k]
  BY <1>1, <1>4, KeyGroups DEF ChoicesKept, CopyKept, Kept
<1> QED  BY <1>1, <1>4, <1>5, StopKeeps

\* A crash leaves the file as it is.
LEMMA CrashKeeps ==
    ASSUME MaxValue \in Nat, MaxVersion \in Nat, Inv, Crash
    PROVE  Inv'
<1>1. up' = "down" /\ Stop /\ disk' = disk  BY DEF Crash
<1>2. disk' \in Settings /\ \A k \in Kept : Normalized(disk')[k] \in wanted[k]
  BY <1>1 DEF Inv, Shape, ChoicesKept, Kept
<1> QED  BY <1>1, <1>2, StopKeeps

\* Every step keeps the invariant.
LEMMA NextKeeps ==
    ASSUME MaxValue \in Nat, MaxVersion \in Nat, Inv, [Next]_vars
    PROVE  Inv'
<1>1. CASE OpenPreferences
  <2>1. dialog' = [kind |-> "preferences", vals |-> Filled(Load)]
        /\ UNCHANGED <<up, disk, cached, workerVars, http, fileVars, wanted>>
    BY <1>1 DEF OpenPreferences
  <2>2. Filled(Load) \in Settings
    BY NormalizedIs, OverIs, DefaultsAre DEF Inv, Shape, Filled, Load
  <2> QED  BY <2>1, <2>2, DialogStepsKeep
<1>2. ASSUME NEW k \in DialogKeys, NEW v \in Values, SetControl(k, v)
      PROVE  Inv'
  <2>1. dialog' = [dialog EXCEPT !.vals[k] = v]
        /\ UNCHANGED <<up, disk, cached, workerVars, http, fileVars, wanted>>
    BY <1>2 DEF SetControl
  <2>2. [dialog.vals EXCEPT ![k] = v] \in Settings
    BY KeyGroups, ExceptIs DEF Inv, Shape
  <2>3. dialog' \in [kind : {"none", "preferences"}, vals : Settings]
    BY <2>1, <2>2 DEF Inv, Shape
  <2> QED  BY <2>1, <2>3, DialogStepsKeep
<1>3. CASE Reject
  <2>1. dialog' = NoDialog /\ UNCHANGED <<up, disk, cached, workerVars, http, fileVars, wanted>>
    BY <1>3 DEF Reject
  <2> QED  BY <2>1, DefaultsAre, DialogStepsKeep DEF NoDialog
<1>4. CASE UNCHANGED vars
  BY <1>4, DialogStepsKeep DEF vars, Inv, Shape
<1> QED
  BY <1>1, <1>2, <1>3, <1>4, StartKeeps, AcceptPreferencesKeeps, SaveCookiesKeeps,
     SetThemeKeeps, SetDefaultTrackersKeeps, FileChangesKeeps, FileChangedKeeps, RewatchKeeps,
     HandleApplyKeeps, QuitKeeps, DestroyKeeps, CrashKeeps
  DEF Next

-----------------------------------------------------------------------------
(* The theorems.                                                           *)

\* Inv is an invariant.
LEMMA InvHolds ==
    ASSUME MaxValue \in Nat \ {0}, MaxVersion \in Nat \ {0}
    PROVE  Spec => []Inv
<1>1. Init => Inv  BY InitInv
<1>2. Inv /\ [Next]_vars => Inv'  BY NextKeeps
<1> QED  BY <1>1, <1>2, PTL DEF Spec

\* Every variable has the type of its member, for any number of values and
\* versions of the filter's file.
THEOREM SettingsTypes ==
    ASSUME MaxValue \in Nat \ {0}, MaxVersion \in Nat \ {0}
    PROVE  Spec => []TypeOK
<1>1. Inv => TypeOK
  BY DEF Inv, Shape, TypeOK
<1> QED  BY <1>1, InvHolds, PTL

\* What the user saved is what the file has, through all later writers, failed
\* writes, crashes and starts; session and fetcher follow the controller's copy;
\* the actions exclude each other; a filter that is switched off goes.
THEOREM SettingsAreKept ==
    ASSUME MaxValue \in Nat \ {0}, MaxVersion \in Nat \ {0}
    PROVE  Spec => []SettingsKept
<1>1. Inv => SettingsKept
  BY DEF Inv, SettingsKept, FilterFollows, FilterGoes
<1> QED  BY <1>1, InvHolds, PTL

-----------------------------------------------------------------------------
(* What the settings rule after the downloads, module SeedingPolicy: for   *)
(* any finite set of tasks.  The two modules are proved apart: the queue,  *)
(* cmds, is here that of SeedingPolicy, as its formulas are prefixed with  *)
(* Seeding.                                                                *)

CONSTANTS Tasks, MaxOps, MaxMoves
VARIABLES torrent, over, snapshot, shared, refresh, policy, actions, stopped, triggered, timer,
          quitting, ops, moves, stops, resumed, fired
Seeding == INSTANCE SeedingPolicy

\* What the proofs need to know of the constants.
SeedingAssumption == IsFiniteSet(Tasks)

TaskCommands == [op : {"Pause", "Resume"}, task : Tasks]
PauseOf(t) == [op |-> "Pause", task |-> t]

TorrentStates == [phase : Seeding!Phases, paused : BOOLEAN]

\* A stop that is remembered is counted, and counted once.
Counted ==
    /\ stops \in [Tasks -> [Seeding!Rules -> {0, 1}]]
    /\ \A t \in Tasks, r \in Seeding!Rules : stops[t][r] = 1 => t \in stopped[r]

\* A pause of the task is on its way or done, or the user has started the task.
PauseArrives(t) == t \in resumed \/ torrent[t].paused
  \/ \E i \in DOMAIN cmds : cmds[i] = PauseOf(t)

SeedingInv ==
    /\ Seeding!TypeOK /\ cmds \in Seq(TaskCommands)
    /\ Counted
    /\ timer => actions.timed # Seeding!Nothing
    /\ Seeding!ActionsApart
    /\ \A i \in DOMAIN cmds : cmds[i].op = "Resume" => cmds[i].task \in resumed
    /\ \A r \in Seeding!Rules : \A t \in stopped[r] : PauseArrives(t)

\* What a queue with more commands behind it holds.
LEMMA QueueGrows ==
    ASSUME NEW X, NEW s \in Seq(X), NEW q \in Seq(X)
    PROVE  /\ s \o q \in Seq(X)
           /\ \A i \in DOMAIN s : i \in DOMAIN (s \o q) /\ (s \o q)[i] = s[i]
           /\ \A i \in DOMAIN q : \E j \in DOMAIN (s \o q) : (s \o q)[j] = q[i]
           /\ \A j \in DOMAIN (s \o q) :
                \/ j \in DOMAIN s /\ (s \o q)[j] = s[j]
                \/ \E i \in DOMAIN q : (s \o q)[j] = q[i]
<1>1. /\ Len(s) \in Nat /\ Len(q) \in Nat /\ DOMAIN s = 1 .. Len(s) /\ DOMAIN q = 1 .. Len(q)
      /\ s \o q \in Seq(X) /\ Len(s \o q) = Len(s) + Len(q)
      /\ DOMAIN (s \o q) = 1 .. Len(s) + Len(q)
  OBVIOUS
<1>2. \A i \in 1 .. Len(s) + Len(q) :
         (s \o q)[i] = IF i <= Len(s) THEN s[i] ELSE q[i - Len(s)]
  OBVIOUS
<1>3. \A i \in DOMAIN s : i \in DOMAIN (s \o q) /\ (s \o q)[i] = s[i]
  BY <1>1, <1>2
<1>4. \A i \in DOMAIN q :
         i + Len(s) \in DOMAIN (s \o q) /\ (s \o q)[i + Len(s)] = q[i]
  BY <1>1, <1>2
<1>5. \A j \in DOMAIN (s \o q) :
         \/ j \in DOMAIN s /\ (s \o q)[j] = s[j]
         \/ j - Len(s) \in DOMAIN q /\ (s \o q)[j] = q[j - Len(s)]
  BY <1>1, <1>2
<1> QED
  BY <1>1, <1>3, <1>4, <1>5

\* The two modules count the members of a set by the same definition.
LEMMA SameCardinality ==
    ASSUME NEW S PROVE Seeding!Cardinality(S) = Cardinality(S)
  BY DEF Cardinality, Seeding!Cardinality

\* The pauses of a refresh: every task that is to be stopped gets one.
LEMMA EachPaused ==
    ASSUME SeedingAssumption, NEW S \in SUBSET Tasks, NEW q \in Seeding!Pauses(S)
    PROVE  /\ q \in Seq(TaskCommands)
           /\ \A i \in DOMAIN q : q[i].op = "Pause" /\ q[i].task \in S
           /\ \A t \in S : \E i \in DOMAIN q : q[i] = PauseOf(t)
<1>1. IsFiniteSet(S) /\ Cardinality(S) \in Nat
  BY FS_Subset, FS_CardinalityType DEF SeedingAssumption
<1> DEFINE n == Cardinality(S)
<1>2. /\ q \in [1 .. n -> [op : {"Pause"}, task : S]]
      /\ \A i, j \in 1 .. n : q[i] = q[j] => i = j
  BY SameCardinality DEF Seeding!Pauses
<1>3. q \in Seq(TaskCommands)
  <2>1. [op : {"Pause"}, task : S] \subseteq TaskCommands
    BY DEF TaskCommands
  <2>2. q \in [1 .. n -> TaskCommands]
    BY <1>2, <2>1
  <2> QED
    BY <1>1, <2>2, SeqDef
<1>4. \A i \in 1 .. n : q[i].task \in S /\ q[i] = PauseOf(q[i].task)
  BY <1>2 DEF PauseOf
<1> DEFINE f == [i \in 1 .. n |-> q[i].task]
<1>5. f \in Injection(1 .. n, S)
  <2>1. f \in [1 .. n -> S]
    BY <1>4
  <2>2. \A i, j \in 1 .. n : f[i] = f[j] => i = j
    BY <1>2, <1>4
  <2> QED
    BY <2>1, <2>2 DEF Injection, IsInjective
<1>6. Cardinality(1 .. n) = Cardinality(S)
  BY <1>1, FS_Interval
<1>7. f \in Surjection(1 .. n, S)
  BY <1>1, <1>5, <1>6, FS_Injection
<1>8. \A t \in S : \E i \in 1 .. n : f[i] = t
  BY <1>7 DEF Surjection
<1> QED
  BY <1>2, <1>3, <1>4, <1>8 DEF PauseOf

\* Nothing has been stopped at the start.
LEMMA SeedingInit == Seeding!Init => SeedingInv
<1> SUFFICES ASSUME Seeding!Init PROVE SeedingInv
  OBVIOUS
<1>1. cmds \in Seq(TaskCommands) /\ DOMAIN cmds = {}
  BY DEF Seeding!Init
<1>2. Seeding!TypeOK
  <2>1. refresh \in BOOLEAN /\ triggered \in BOOLEAN /\ quitting \in BOOLEAN
    BY DEF Seeding!Init
  <2>2. timer \in BOOLEAN
    BY DEF Seeding!Init
  <2>3. /\ torrent \in [Tasks -> [phase : Seeding!Phases, paused : BOOLEAN]]
        /\ over \in [Tasks -> SUBSET Seeding!Rules]
             /\ snapshot \in [Tasks -> Seeding!Status \cup {Seeding!Absent}]
        /\ stopped \in [Seeding!Rules -> SUBSET Tasks]
    BY DEF Seeding!Init
  <2> QED
    BY <1>1, <2>1, <2>2, <2>3 DEF Seeding!TypeOK
<1>3. Counted
  BY DEF Seeding!Init, Counted
<1> QED
  BY <1>1, <1>2, <1>3 DEF Seeding!Init, SeedingInv, Seeding!ActionsApart

\* The session and the store go on; the policy and the queue stay.
LEMMA SessionStep ==
    ASSUME SeedingInv, NEW t0 \in Tasks,
           Seeding!TorrentMoves(t0) \/ Seeding!Report(t0)
             \/ \E r \in Seeding!Rules : Seeding!PassesLimit(t0, r)
    PROVE  SeedingInv'
<1>1. /\ UNCHANGED <<cmds, policy, actions, stopped, triggered, timer, quitting, stops, resumed,
                     fired>>
      /\ \/ \E p \in Seeding!Phases : torrent' = [torrent EXCEPT ![t0].phase = p]
         \/ torrent' = torrent
      /\ \/ \E r \in Seeding!Rules : over' = [over EXCEPT ![t0] = @ \cup {r}]
         \/ over' = over
      /\ \/ snapshot' = [snapshot EXCEPT ![t0] = Seeding!StatusOf(torrent[t0])] /\ refresh' = TRUE
         \/ UNCHANGED <<snapshot, refresh>>
  BY DEF Seeding!TorrentMoves, Seeding!Report, Seeding!PassesLimit, Seeding!Move,
     Seeding!policyVars, Seeding!torrentVars, Seeding!histories
<1>2. /\ torrent \in [Tasks -> TorrentStates] /\ over \in [Tasks -> SUBSET Seeding!Rules]
      /\ snapshot \in [Tasks -> Seeding!Status \cup {Seeding!Absent}]
  BY DEF SeedingInv, Seeding!TypeOK, TorrentStates
<1>3. torrent[t0] \in TorrentStates /\ Seeding!StatusOf(torrent[t0]) \in Seeding!Status
  BY <1>2 DEF TorrentStates, Seeding!StatusOf, Seeding!Status
<1>4. /\ torrent' \in [Tasks -> TorrentStates]
      /\ \A t \in Tasks : torrent'[t].paused = torrent[t].paused
  BY <1>1, <1>2, <1>3 DEF TorrentStates
<1>5. over' \in [Tasks -> SUBSET Seeding!Rules]
      /\ snapshot' \in [Tasks -> Seeding!Status \cup {Seeding!Absent}]
  BY <1>1, <1>2, <1>3
<1>6. Seeding!TypeOK'
  BY <1>1, <1>4, <1>5 DEF SeedingInv, Seeding!TypeOK, TorrentStates
<1>7. \A t \in Tasks : PauseArrives(t) => PauseArrives(t)'
  BY <1>1, <1>4 DEF PauseArrives
<1>8. \A r \in Seeding!Rules : stopped[r] \subseteq Tasks
  BY DEF SeedingInv, Seeding!TypeOK
<1> QED
  BY <1>1, <1>6, <1>7, <1>8 DEF SeedingInv, Counted, Seeding!ActionsApart

\* The worker handles a command: a pause that is taken from the queue is done.
LEMMA HandleCmdStep ==
    ASSUME SeedingInv, Seeding!HandleCmd PROVE SeedingInv'
<1>1. /\ cmds # <<>> /\ cmds' = Tail(cmds)
      /\ torrent' = [torrent EXCEPT ![Head(cmds).task].paused = (Head(cmds).op = "Pause")]
      /\ UNCHANGED <<over, snapshot, refresh, policy, actions, stopped, triggered, timer,
                     quitting, stops, resumed, fired>>
  BY DEF Seeding!HandleCmd, Seeding!policyVars, Seeding!histories
<1>2. cmds \in Seq(TaskCommands) /\ torrent \in [Tasks -> TorrentStates]
  BY DEF SeedingInv, Seeding!TypeOK, TorrentStates
<1>3. /\ cmds' \in Seq(TaskCommands) /\ Head(cmds) \in TaskCommands /\ Head(cmds) = cmds[1]
      /\ 1 \in DOMAIN cmds
      /\ \A i \in DOMAIN cmds' : i + 1 \in DOMAIN cmds /\ cmds'[i] = cmds[i + 1]
      /\ \A i \in DOMAIN cmds : i = 1 \/ (i - 1 \in DOMAIN cmds' /\ cmds'[i - 1] = cmds[i])
  <2>1. Len(cmds) \in Nat \ {0} /\ DOMAIN cmds = 1 .. Len(cmds)
    BY <1>1, <1>2
  <2>2. Tail(cmds) \in Seq(TaskCommands) /\ Len(Tail(cmds)) = Len(cmds) - 1
    BY <1>1, <1>2
  <2>3. \A i \in 1 .. Len(cmds) - 1 : Tail(cmds)[i] = cmds[i + 1]
    BY <1>1, <1>2
  <2>4. Head(cmds) \in TaskCommands /\ Head(cmds) = cmds[1]
    BY <1>1, <1>2
  <2> QED
    BY <1>1, <2>1, <2>2, <2>3, <2>4
<1>4. Head(cmds).task \in Tasks
  BY <1>3 DEF TaskCommands
<1>5. torrent' \in [Tasks -> TorrentStates]
  BY <1>1, <1>2, <1>4 DEF TorrentStates
<1>6. Seeding!TypeOK'
  BY <1>1, <1>3, <1>5 DEF SeedingInv, Seeding!TypeOK, TorrentStates, TaskCommands
<1>7. ASSUME NEW t \in Tasks, PauseArrives(t) PROVE PauseArrives(t)'
  <2>1. CASE Head(cmds).task = t /\ Head(cmds).op = "Pause"
    BY <1>1, <1>2, <2>1 DEF PauseArrives, TorrentStates
  <2>2. CASE Head(cmds).task = t /\ Head(cmds).op # "Pause"
    <3>1. Head(cmds).op = "Resume"
      BY <1>3, <2>2 DEF TaskCommands
    <3>2. t \in resumed
      BY <1>3, <2>2, <3>1 DEF SeedingInv
    <3> QED
      BY <1>1, <3>2 DEF PauseArrives
  <2>3. CASE Head(cmds).task # t
    <3>1. torrent'[t] = torrent[t]
      BY <1>1, <1>2, <1>4, <2>3
    <3>2. \A i \in DOMAIN cmds : cmds[i] = PauseOf(t) =>
              i - 1 \in DOMAIN cmds' /\ cmds'[i - 1] = PauseOf(t)
      BY <1>3, <2>3 DEF PauseOf
    <3> QED
      BY <1>1, <1>7, <3>1, <3>2 DEF PauseArrives
  <2> QED
    BY <2>1, <2>2, <2>3
<1>8. \A r \in Seeding!Rules : stopped[r] \subseteq Tasks
  BY DEF SeedingInv, Seeding!TypeOK
<1>9. \A i \in DOMAIN cmds' : cmds'[i].op = "Resume" => cmds'[i].task \in resumed
  BY <1>3 DEF SeedingInv
<1> QED
  BY <1>1, <1>3, <1>6, <1>7, <1>8, <1>9 DEF SeedingInv, Counted, Seeding!ActionsApart

\* The policy is applied: whom it stops it had not stopped before, and each is sent
\* a pause.
LEMMA RefreshStep ==
    ASSUME SeedingAssumption, SeedingInv, Seeding!Refresh PROVE SeedingInv'
<1> DEFINE ByRule(r) == {t \in Seeding!Present : Seeding!RuleFor(t) = r}
           gone == {t \in Seeding!Present : snapshot[t] # "seeding"}
           S == ByRule("ratio") \cup ByRule("time")
<1>1. PICK q \in Seeding!Pauses(S) : cmds' = cmds \o q
  BY DEF Seeding!Refresh
<1>2. /\ stopped' = [r \in Seeding!Rules |-> (stopped[r] \cup ByRule(r)) \ gone]
      /\ stops' = [t \in Tasks |-> [r \in Seeding!Rules |-> Seeding!Seen(t, r)]]
      /\ refresh' = FALSE
      /\ UNCHANGED <<torrent, over, snapshot, policy, actions, timer, resumed>>
  BY DEF Seeding!Refresh, Seeding!torrentVars
<1>3. /\ triggered' \in BOOLEAN /\ quitting' \in {quitting, TRUE}
      /\ \/ fired' = fired
         \/ fired' = fired \cup {<<"complete", actions>>} /\ actions.timed = Seeding!Nothing
  BY DEF Seeding!Refresh, Seeding!PostDownload
<1>4. S \in SUBSET Tasks /\ Seeding!Present \subseteq Tasks
  BY DEF Seeding!Present
<1>5. /\ q \in Seq(TaskCommands)
      /\ \A i \in DOMAIN q : q[i].op = "Pause" /\ q[i].task \in S
      /\ \A t \in S : \E i \in DOMAIN q : q[i] = PauseOf(t)
  BY <1>1, <1>4, EachPaused
<1>6. cmds \in Seq(TaskCommands) /\ stopped \in [Seeding!Rules -> SUBSET Tasks]
  BY DEF SeedingInv, Seeding!TypeOK
<1>7. /\ cmds' \in Seq(TaskCommands)
      /\ \A i \in DOMAIN cmds : i \in DOMAIN cmds' /\ cmds'[i] = cmds[i]
      /\ \A i \in DOMAIN q : \E j \in DOMAIN cmds' : cmds'[j] = q[i]
      /\ \A j \in DOMAIN cmds' :
           \/ j \in DOMAIN cmds /\ cmds'[j] = cmds[j]
           \/ \E i \in DOMAIN q : cmds'[j] = q[i]
  BY <1>1, <1>5, <1>6, QueueGrows
<1>8. stopped' \in [Seeding!Rules -> SUBSET Tasks]
  BY <1>2, <1>4, <1>6
<1>9. Seeding!TypeOK'
  <2>1. \A i \in DOMAIN cmds' : cmds'[i] \in TaskCommands
    BY <1>7
  <2>2. {refresh', triggered', timer', quitting'} \subseteq BOOLEAN
    BY <1>2, <1>3 DEF SeedingInv, Seeding!TypeOK
  <2> QED
    BY <1>2, <1>8, <2>1, <2>2 DEF SeedingInv, Seeding!TypeOK, TaskCommands
<1>10. Counted'
  <2> SUFFICES ASSUME NEW t \in Tasks, NEW r \in Seeding!Rules
               PROVE  Seeding!Seen(t, r) \in {0, 1}
                 /\ (Seeding!Seen(t, r) = 1 => t \in stopped'[r])
    BY <1>2 DEF Counted
  <2>1. stops[t][r] \in {0, 1} /\ (stops[t][r] = 1 => t \in stopped[r])
    BY DEF SeedingInv, Counted
  <2>2. CASE snapshot[t] # "seeding"
    BY <2>2 DEF Seeding!Seen
  <2>3. CASE snapshot[t] = "seeding"
    <3>1. t \in Seeding!Present /\ t \notin gone
      BY <2>3 DEF Seeding!Present, Seeding!Absent
    <3>2. stopped'[r] = (stopped[r] \cup ByRule(r)) \ gone
      BY <1>2
    <3>3. CASE Seeding!RuleFor(t) = r
      <4>1. t \notin stopped[r]
        BY <3>3 DEF Seeding!RuleFor, Seeding!Rules, Seeding!Nothing
      <4>2. t \in ByRule(r)
        BY <3>1, <3>3
      <4> QED
        BY <2>1, <2>3, <3>1, <3>2, <3>3, <4>1, <4>2 DEF Seeding!Seen
    <3>4. CASE Seeding!RuleFor(t) # r
      BY <2>1, <2>3, <3>1, <3>2, <3>4 DEF Seeding!Seen
    <3> QED
      BY <3>3, <3>4
  <2> QED
    BY <2>2, <2>3
<1>11. Seeding!ActionsApart'
  BY <1>2, <1>3 DEF SeedingInv, Seeding!ActionsApart
<1>12. \A i \in DOMAIN cmds' : cmds'[i].op = "Resume" => cmds'[i].task \in resumed
  BY <1>5, <1>7 DEF SeedingInv
<1>13. ASSUME NEW r \in Seeding!Rules, NEW t \in stopped'[r] PROVE PauseArrives(t)'
  <2>1. t \in stopped[r] \/ t \in S
    BY <1>2 DEF Seeding!Rules
  <2>2. CASE t \in stopped[r]
    BY <1>2, <1>7, <2>2 DEF SeedingInv, PauseArrives
  <2>3. CASE t \in S
    BY <1>5, <1>7, <2>3 DEF PauseArrives
  <2> QED
    BY <2>1, <2>2, <2>3
<1> QED
  BY <1>2, <1>7, <1>9, <1>10, <1>11, <1>12, <1>13 DEF SeedingInv

\* The user starts or pauses tasks: whoever is started is remembered.
LEMMA UserStep ==
    ASSUME SeedingAssumption, SeedingInv,
           Seeding!ResumeAllPausedTasks \/ \E t \in Tasks : Seeding!StartTask(t)
             \/ Seeding!StopTask(t)
    PROVE  SeedingInv'
<1>1. cmds \in Seq(TaskCommands) /\ snapshot \in [Tasks -> Seeding!Status \cup {Seeding!Absent}]
  BY DEF SeedingInv, Seeding!TypeOK
<1>2. PICK q \in Seq(TaskCommands) :
        /\ cmds' = cmds \o q /\ resumed \subseteq resumed'
        /\ \A i \in DOMAIN q : q[i].op = "Resume" => q[i].task \in resumed'
        /\ UNCHANGED <<torrent, over, policy, actions, stopped, triggered, timer, quitting,
                       stops, fired>>
        /\ refresh' \in {refresh, TRUE}
             /\ snapshot' \in [Tasks -> Seeding!Status \cup {Seeding!Absent}]
  <2>1. CASE Seeding!ResumeAllPausedTasks
    <3> DEFINE ts == {t \in Tasks : snapshot[t] = "paused"}
               R(q) == [i \in DOMAIN q |-> [q[i] EXCEPT !.op = "Resume"]]
    <3>1. PICK q \in Seeding!Pauses(ts) : cmds' = cmds \o R(q) /\ resumed' = resumed \cup ts
      BY <2>1 DEF Seeding!ResumeAllPausedTasks
    <3>2. /\ UNCHANGED <<torrent, over, snapshot, refresh, policy, actions, stopped, triggered,
                         timer, quitting, stops, fired>>
      BY <2>1 DEF Seeding!ResumeAllPausedTasks, Seeding!Op, Seeding!policyVars,
         Seeding!torrentVars
    <3>3. /\ q \in Seq(TaskCommands)
          /\ \A i \in DOMAIN q : q[i].op = "Pause" /\ q[i].task \in ts
      BY EachPaused
    <3>4. \A i \in DOMAIN q : /\ R(q)[i] \in TaskCommands
                              /\ R(q)[i].task = q[i].task
      <4> SUFFICES ASSUME NEW i \in DOMAIN q
                   PROVE  R(q)[i] \in TaskCommands /\ R(q)[i].task = q[i].task
        OBVIOUS
      <4>1. q[i] \in TaskCommands
        BY <3>3
      <4> QED
        BY <4>1 DEF TaskCommands
    <3>5. R(q) \in Seq(TaskCommands) /\ DOMAIN R(q) = DOMAIN q
      <4>1. DOMAIN q = 1 .. Len(q) /\ Len(q) \in Nat
        BY <3>3
      <4>2. R(q) \in [1 .. Len(q) -> TaskCommands]
        BY <3>4, <4>1
      <4> QED
        BY <4>1, <4>2, SeqDef
    <3>6. \A i \in DOMAIN R(q) : R(q)[i].task \in resumed \cup ts
      BY <3>3, <3>4, <3>5
    <3> HIDE DEF R, ts
    <3> QED
      BY <1>1, <3>1, <3>2, <3>5, <3>6
  <2>2. ASSUME NEW t \in Tasks, Seeding!StartTask(t) \/ Seeding!StopTask(t)
        PROVE  \E q \in Seq(TaskCommands) :
                 /\ cmds' = cmds \o q /\ resumed \subseteq resumed'
                 /\ \A i \in DOMAIN q : q[i].op = "Resume" => q[i].task \in resumed'
                 /\ UNCHANGED <<torrent, over, policy, actions, stopped, triggered, timer,
                                quitting, stops, fired>>
                 /\ refresh' \in {refresh, TRUE}
                      /\ snapshot' \in [Tasks -> Seeding!Status \cup {Seeding!Absent}]
    <3>1. PICK op \in {"Pause", "Resume"}, st \in {"paused", "queued"} : Seeding!Command(op, t,
          st)
      BY <2>2 DEF Seeding!StartTask, Seeding!StopTask
    <3> DEFINE c == [op |-> op, task |-> t]
    <3>2. /\ cmds' = Append(cmds, c) /\ refresh' = TRUE
          /\ snapshot' = [snapshot EXCEPT ![t] = st]
          /\ resumed' = IF op = "Resume" THEN resumed \cup {t} ELSE resumed
          /\ UNCHANGED <<torrent, over, policy, actions, stopped, triggered, timer, quitting,
                         stops, fired>>
      BY <3>1 DEF Seeding!Command, Seeding!Op, Seeding!policyVars, Seeding!torrentVars
    <3>3. c \in TaskCommands /\ <<c>> \in Seq(TaskCommands) /\ DOMAIN <<c>> = {1} /\ <<c>>[1] = c
      BY DEF TaskCommands
    <3>4. cmds' = cmds \o <<c>>
      BY <1>1, <3>2, <3>3, AppendIsConcat
    <3>5. snapshot' \in [Tasks -> Seeding!Status \cup {Seeding!Absent}]
      BY <1>1, <3>2 DEF Seeding!Status
    <3>6. \A i \in DOMAIN <<c>> : <<c>>[i].op = "Resume" => <<c>>[i].task \in resumed'
      BY <3>2, <3>3
    <3> QED
      BY <3>2, <3>3, <3>4, <3>5, <3>6
  <2> QED
    BY <2>1, <2>2
<1>3. /\ cmds' \in Seq(TaskCommands)
      /\ \A i \in DOMAIN cmds : i \in DOMAIN cmds' /\ cmds'[i] = cmds[i]
      /\ \A j \in DOMAIN cmds' :
           \/ j \in DOMAIN cmds /\ cmds'[j] = cmds[j]
           \/ \E i \in DOMAIN q : cmds'[j] = q[i]
  BY <1>1, <1>2, QueueGrows
<1>4. Seeding!TypeOK'
  <2>1. \A i \in DOMAIN cmds' : cmds'[i] \in TaskCommands
    BY <1>3
  <2>2. {refresh', triggered', timer', quitting'} \subseteq BOOLEAN
    BY <1>2 DEF SeedingInv, Seeding!TypeOK
  <2> QED
    BY <1>2, <2>1, <2>2 DEF SeedingInv, Seeding!TypeOK, TaskCommands
<1>5. \A i \in DOMAIN cmds' : cmds'[i].op = "Resume" => cmds'[i].task \in resumed'
  BY <1>2, <1>3 DEF SeedingInv
<1>6. \A r \in Seeding!Rules : \A t \in stopped'[r] : PauseArrives(t)'
  BY <1>2, <1>3 DEF SeedingInv, PauseArrives
<1> QED
  BY <1>2, <1>3, <1>4, <1>5, <1>6 DEF SeedingInv, Counted, Seeding!ActionsApart

\* The settings are applied: what was stopped is forgotten, and the timer follows them.
LEMMA SettingsStep ==
    ASSUME SeedingInv, Seeding!SettingsChanged \/ Seeding!FilterChanged PROVE SeedingInv'
<1>1. /\ stopped' = [r \in Seeding!Rules |-> {}] /\ triggered' = FALSE
      /\ stops' = [t \in Tasks |-> [r \in Seeding!Rules |-> 0]]
      /\ UNCHANGED <<torrent, over, snapshot, refresh, cmds, quitting, resumed, fired>>
  BY DEF Seeding!SettingsChanged, Seeding!FilterChanged, Seeding!Op, Seeding!Forget,
     Seeding!torrentVars
<1>4. timer' \in BOOLEAN /\ (timer' => actions'.timed # Seeding!Nothing)
  <2>1. CASE Seeding!SettingsChanged
    <3>1. timer' = (actions'.timed # Seeding!Nothing)
      BY <2>1 DEF Seeding!SettingsChanged, Seeding!ScheduleTimedAction
    <3> QED
      BY <3>1
  <2>2. CASE Seeding!FilterChanged
    <3>1. timer' = timer /\ actions' = actions
      BY <2>2 DEF Seeding!FilterChanged
    <3> QED
      BY <3>1 DEF SeedingInv, Seeding!TypeOK
  <2> QED
    BY <2>1, <2>2
<1>2. Seeding!TypeOK'
  BY <1>1, <1>4 DEF SeedingInv, Seeding!TypeOK
<1>3. Counted'
  BY <1>1 DEF Counted
<1> QED
  BY <1>1, <1>2, <1>3, <1>4 DEF SeedingInv, Seeding!ActionsApart

\* The time is up: the timer runs only while a timed action is set.
LEMMA TimerStep ==
    ASSUME SeedingInv, Seeding!TimerFires PROVE SeedingInv'
<1>1. /\ timer /\ timer' = FALSE /\ fired' = fired \cup {<<"timed", actions>>}
      /\ quitting' \in BOOLEAN
      /\ UNCHANGED <<torrent, over, snapshot, refresh, cmds, policy, actions, stopped, triggered,
                     stops, resumed>>
  BY DEF Seeding!TimerFires, Seeding!torrentVars
<1>2. Seeding!TypeOK'
  BY <1>1 DEF SeedingInv, Seeding!TypeOK
<1>3. Seeding!ActionsApart'
  BY <1>1 DEF SeedingInv, Seeding!ActionsApart
<1> QED
  BY <1>1, <1>2, <1>3 DEF SeedingInv, Counted, PauseArrives

\* Every step keeps the invariant.
LEMMA SeedingNext ==
    ASSUME SeedingAssumption, SeedingInv, [Seeding!Next]_Seeding!vars PROVE SeedingInv'
<1>1. CASE UNCHANGED Seeding!vars
  BY <1>1 DEF SeedingInv, Seeding!TypeOK, Counted, Seeding!ActionsApart, PauseArrives,
     Seeding!vars, Seeding!torrentVars, Seeding!policyVars, Seeding!histories
<1> QED
  BY <1>1, SessionStep, HandleCmdStep, RefreshStep, UserStep, SettingsStep, TimerStep
     DEF Seeding!Next

\* The seeding policy: each rule stops a task once, a stop that is remembered is on its
\* way or done, and of the two kinds of action only the one that is set is run.
THEOREM StopsAreKept ==
    ASSUME SeedingAssumption
    PROVE  Seeding!Spec => [](Seeding!TypeOK /\ Seeding!StopsOnce /\ Seeding!StopsArrive
      /\ Seeding!ActionsApart)
<1>1. SeedingInv /\ [Seeding!Next]_Seeding!vars => SeedingInv'
  BY SeedingNext
<1>2. SeedingInv => Seeding!TypeOK /\ Seeding!StopsOnce /\ Seeding!StopsArrive
      /\ Seeding!ActionsApart
  <2> SUFFICES ASSUME SeedingInv PROVE Seeding!StopsOnce /\ Seeding!StopsArrive
    BY DEF SeedingInv
  <2>1. Seeding!StopsOnce
    BY DEF SeedingInv, Counted, Seeding!StopsOnce
  <2>2. Seeding!StopsArrive
    BY DEF SeedingInv, PauseArrives, PauseOf, Seeding!StopsArrive
  <2> QED
    BY <2>1, <2>2
<1> QED
  BY <1>1, <1>2, SeedingInit, PTL DEF Seeding!Spec

-----------------------------------------------------------------------------
(* The file of the IP filter, module IpFilter: for addresses of any width  *)
(* and files of any length.  Its formulas are prefixed with Filter.        *)

CONSTANTS Bits4, Bits6, MaxLines
VARIABLES lines, read, blocked, applied
Filter == INSTANCE IpFilter WITH file <- lines

\* What the proofs need to know of the constants.
FilterAssumption == Bits4 \in Nat \ {0} /\ Bits6 \in Nat \ {0}

\* Numbers are rows of bits.
LEMMA NumbersAre ==
    ASSUME FilterAssumption, NEW f \in Filter!Families
    PROVE  /\ Filter!Bits[f] \in Nat \ {0} /\ 0 .. Filter!Bits[f] - 1 \subseteq Nat
           /\ \A x \in Filter!Numbers(f) : /\ DOMAIN x = 0 .. Filter!Bits[f] - 1
                                    /\ \A k \in 0 .. Filter!Bits[f] - 1 : x[k] \in {0, 1}
  BY DEF FilterAssumption, Filter!Families, Filter!Bits, Filter!Numbers

\* Where two rows differ there is a first bit in which they do.
LEMMA FirstDifference ==
    ASSUME FilterAssumption, NEW f \in Filter!Families, NEW x \in Filter!Numbers(f),
           NEW y \in Filter!Numbers(f),
           x # y
    PROVE  \E k \in 0 .. Filter!Bits[f] - 1 : x[k] # y[k] /\ \A j \in 0 .. k - 1 : x[j] = y[j]
<1> DEFINE R == OpToRel(<, Nat)
           D == {k \in 0 .. Filter!Bits[f] - 1 : x[k] # y[k]}
<1>1. IsWellFoundedOn(R, Nat)
  BY NatLessThanWellFounded
<1>2. \A i, k \in Nat : i < k => <<i, k>> \in R
  BY DEF OpToRel
<1>3. D \subseteq Nat /\ D # {}
  BY NumbersAre DEF Filter!Numbers
<1> HIDE DEF R
<1>4. PICK k \in D : \A j \in D : ~ <<j, k>> \in R
  BY <1>1, <1>3, WFMin
<1>5. \A j \in 0 .. k - 1 : j \in Nat /\ j \in 0 .. Filter!Bits[f] - 1 /\ j < k /\ k \in Nat
  BY <1>3, NumbersAre
<1>6. \A j \in 0 .. k - 1 : j \notin D
  BY <1>2, <1>4, <1>5
<1> QED
  BY <1>4, <1>5, <1>6

\* Of two rows one is below the other.
LEMMA BelowTotal ==
    ASSUME FilterAssumption, NEW f \in Filter!Families, NEW x \in Filter!Numbers(f),
           NEW y \in Filter!Numbers(f)
    PROVE  Filter!Below(x, y) \/ Filter!Below(y, x)
<1> SUFFICES ASSUME x # y PROVE Filter!Below(x, y) \/ Filter!Below(y, x)
  BY DEF Filter!Below
<1>1. PICK k \in 0 .. Filter!Bits[f] - 1 : x[k] # y[k] /\ \A j \in 0 .. k - 1 : x[j] = y[j]
  BY FirstDifference
<1>2. /\ x[k] \in {0, 1} /\ y[k] \in {0, 1}
      /\ DOMAIN x = 0 .. Filter!Bits[f] - 1 /\ DOMAIN y = 0 .. Filter!Bits[f] - 1
  BY NumbersAre
<1>3. x[k] < y[k] \/ y[k] < x[k]
  BY <1>1, <1>2
<1> QED
  BY <1>1, <1>2, <1>3 DEF Filter!Below

\* What is below one that is below a third is below that.
LEMMA BelowTransitive ==
    ASSUME FilterAssumption, NEW f \in Filter!Families, NEW x \in Filter!Numbers(f),
           NEW y \in Filter!Numbers(f),
           NEW z \in Filter!Numbers(f), Filter!Below(x, y), Filter!Below(y, z)
    PROVE  Filter!Below(x, z)
<1> SUFFICES ASSUME x # y, y # z PROVE Filter!Below(x, z)
  OBVIOUS
<1> DEFINE N == 0 .. Filter!Bits[f] - 1
<1>1. /\ DOMAIN x = N /\ DOMAIN y = N /\ DOMAIN z = N /\ N \subseteq Nat
      /\ \A k \in N : x[k] \in {0, 1} /\ y[k] \in {0, 1} /\ z[k] \in {0, 1}
  BY NumbersAre
<1>2. PICK k \in N : x[k] < y[k] /\ \A j \in 0 .. k - 1 : x[j] = y[j]
  BY <1>1 DEF Filter!Below
<1>3. PICK m \in N : y[m] < z[m] /\ \A j \in 0 .. m - 1 : y[j] = z[j]
  BY <1>1 DEF Filter!Below
<1>4. \E n \in N : x[n] < z[n] /\ \A j \in 0 .. n - 1 : x[j] = z[j]
  <2> HIDE DEF N
  <2>1. CASE k < m
    <3>1. y[k] = z[k] /\ \A j \in 0 .. k - 1 : y[j] = z[j]
      BY <1>1, <1>2, <1>3, <2>1
    <3> QED
      BY <1>2, <3>1
  <2>2. CASE m < k
    <3>1. x[m] = y[m] /\ \A j \in 0 .. m - 1 : x[j] = y[j]
      BY <1>1, <1>2, <1>3, <2>2
    <3> QED
      BY <1>3, <3>1
  <2>3. CASE k = m
    BY <1>1, <1>2, <1>3, <2>3
  <2> QED
    BY <1>1, <2>1, <2>2, <2>3
<1> QED
  BY <1>1, <1>4 DEF Filter!Below

\* Two rows below each other are one.
LEMMA BelowBoth ==
    ASSUME FilterAssumption, NEW f \in Filter!Families, NEW x \in Filter!Numbers(f),
           NEW y \in Filter!Numbers(f),
           Filter!Below(x, y), Filter!Below(y, x)
    PROVE  x = y
<1> SUFFICES ASSUME x # y PROVE FALSE
  OBVIOUS
<1> DEFINE N == 0 .. Filter!Bits[f] - 1
<1>1. /\ DOMAIN x = N /\ DOMAIN y = N /\ N \subseteq Nat
      /\ \A k \in N : x[k] \in {0, 1} /\ y[k] \in {0, 1}
  BY NumbersAre
<1>2. PICK k \in N : x[k] < y[k] /\ \A j \in 0 .. k - 1 : x[j] = y[j]
  BY <1>1 DEF Filter!Below
<1>3. PICK m \in N : y[m] < x[m] /\ \A j \in 0 .. m - 1 : y[j] = x[j]
  BY <1>1 DEF Filter!Below
<1> HIDE DEF N
<1> QED
  BY <1>1, <1>2, <1>3

\* The first p bits of ip, with zeros and with ones behind them.
BlockOf(f, ip, p, first, last) ==
    \A k \in 0 .. Filter!Bits[f] - 1 :
      /\ first[k] = IF k < p THEN ip[k] ELSE 0
      /\ last[k] = IF k < p THEN ip[k] ELSE 1

\* The rows between the one that ends in zeros and the one that ends in ones are
\* those that begin with the same bits.
LEMMA BlockIs ==
    ASSUME FilterAssumption, NEW f \in Filter!Families, NEW ip \in Filter!Numbers(f),
           NEW first \in Filter!Numbers(f), NEW last \in Filter!Numbers(f),
           NEW p \in 0 .. Filter!Bits[f], BlockOf(f, ip, p, first, last)
    PROVE  Filter!Between(f, first, last) =
             {f} \X {x \in Filter!Numbers(f) : \A k \in 0 .. p - 1 : x[k] = ip[k]}
<1> DEFINE N == 0 .. Filter!Bits[f] - 1
<1>1. /\ N \subseteq Nat /\ p \in Nat /\ 0 .. p - 1 \subseteq N
      /\ DOMAIN first = N /\ DOMAIN last = N
      /\ \A k \in N : k < p => k \in 0 .. p - 1
  BY NumbersAre
<1> SUFFICES ASSUME NEW x \in Filter!Numbers(f)
             PROVE  (Filter!Below(first, x) /\ Filter!Below(x, last)) <=>
                       (\A k \in 0 .. p - 1 : x[k] = ip[k])
  BY DEF Filter!Between
<1>2. DOMAIN x = N /\ \A k \in N : x[k] \in {0, 1}
  BY NumbersAre
<1>3. \A k \in 0 .. Filter!Bits[f] - 1 :
        /\ first[k] = IF k < p THEN ip[k] ELSE 0
        /\ last[k] = IF k < p THEN ip[k] ELSE 1
  BY DEF BlockOf
<1>4. \A k \in N : /\ k < p => first[k] = ip[k] /\ last[k] = ip[k]
                  /\ ~ k < p => first[k] = 0 /\ last[k] = 1
  BY <1>1, <1>3
<1>5. ASSUME Filter!Below(first, x), Filter!Below(x, last), NEW k \in 0 .. p - 1
      PROVE  x[k] = ip[k]
  <2>3. k \in N /\ k < p /\ k \in Nat /\ first[k] = ip[k] /\ last[k] = ip[k]
    <3>1. k \in N /\ k < p
      BY <1>1
    <3> QED
      BY <1>3, <1>1, <1>4, <3>1
  <2>1. CASE x = first \/ x = last
    BY <2>1, <2>3
  <2>2. CASE x # first /\ x # last
    <3>1. PICK m \in N : first[m] < x[m] /\ \A j \in 0 .. m - 1 : first[j] = x[j]
      BY <1>1, <1>5, <2>2 DEF Filter!Below
    <3>2. PICK n \in N : x[n] < last[n] /\ \A j \in 0 .. n - 1 : x[j] = last[j]
      BY <1>2, <1>5, <2>2 DEF Filter!Below
    <3>5. m \in Nat /\ n \in Nat /\ x[m] \in {0, 1} /\ x[n] \in {0, 1}
      BY <1>1, <1>2
    <3>3. CASE p <= m \/ p <= n
      <4>1. k \in 0 .. m - 1 \/ k \in 0 .. n - 1
        BY <1>1, <2>3, <3>3, <3>5
      <4> QED
        BY <2>3, <3>1, <3>2, <4>1
    <3>4. CASE m < p /\ n < p
      <4>1. first[m] = last[m] /\ first[n] = last[n] /\ first[m] \in {0, 1}
        BY <1>3, <1>4, <3>4, NumbersAre
      <4>2. CASE m < n
        BY <3>1, <3>2, <3>5, <4>1, <4>2
      <4>3. CASE n < m
        BY <3>1, <3>2, <3>5, <4>1, <4>3
      <4>4. CASE m = n
        BY <3>1, <3>2, <3>5, <4>1, <4>4
      <4> QED
        BY <3>5, <4>2, <4>3, <4>4
    <3> QED
      BY <1>1, <3>3, <3>4, <3>5
  <2> QED
    BY <2>1, <2>2
<1>6. ASSUME \A k \in 0 .. p - 1 : x[k] = ip[k]
      PROVE  Filter!Below(first, x) /\ Filter!Below(x, last)
  <2>1. Filter!Below(first, x)
    <3> SUFFICES ASSUME first # x PROVE Filter!Below(first, x)
      BY DEF Filter!Below
    <3>1. PICK k \in N : first[k] # x[k] /\ \A j \in 0 .. k - 1 : first[j] = x[j]
      BY FirstDifference DEF N
    <3>2. first[k] < x[k]
      BY <1>3, <1>1, <1>2, <1>6, <1>4, <3>1
    <3> QED
      BY <1>1, <3>1, <3>2 DEF Filter!Below
  <2>2. Filter!Below(x, last)
    <3> SUFFICES ASSUME x # last PROVE Filter!Below(x, last)
      BY DEF Filter!Below
    <3>1. PICK k \in N : x[k] # last[k] /\ \A j \in 0 .. k - 1 : x[j] = last[j]
      BY FirstDifference DEF N
    <3>2. x[k] < last[k]
      BY <1>3, <1>1, <1>2, <1>6, <1>4, <3>1
    <3> QED
      BY <1>2, <3>1, <3>2 DEF Filter!Below
  <2> QED
    BY <2>1, <2>2
<1> QED
  BY <1>5, <1>6

\* An address has its family and its bits.
LEMMA AddressIs ==
    ASSUME NEW a
    PROVE  a \in Filter!Addresses <=> /\ a = <<a[1], a[2]>> /\ a[1] \in Filter!Families
                               /\ a[2] \in Filter!Numbers(a[1])
<1>1. a \in Filter!Addresses <=> \E f \in Filter!Families : a \in {f} \X Filter!Numbers(f)
  BY DEF Filter!Addresses
<1>2. ASSUME NEW f \in Filter!Families, a \in {f} \X Filter!Numbers(f)
      PROVE  a = <<a[1], a[2]>> /\ a[1] = f /\ a[2] \in Filter!Numbers(f)
  BY <1>2
<1>3. ASSUME a = <<a[1], a[2]>>, a[1] \in Filter!Families, a[2] \in Filter!Numbers(a[1])
      PROVE  a \in {a[1]} \X Filter!Numbers(a[1])
  BY <1>3
<1> QED
  BY <1>1, <1>2, <1>3

\* The lines of a file.
LEMMA LineIs ==
    ASSUME NEW l \in Filter!Lines
    PROVE  \/ l.kind \in {"comment", "junk"}
           \/ l.kind = "single" /\ l.ip \in Filter!Addresses
           \/ l.kind = "range" /\ l.left \in Filter!Addresses /\ l.right \in Filter!Addresses
           \/ /\ l.kind = "cidr" /\ l.ip = <<l.ip[1], l.ip[2]>> /\ l.ip[1] \in Filter!Families
              /\ l.ip[2] \in Filter!Numbers(l.ip[1])
              /\ l.prefix \in -1 .. Filter!Bits[l.ip[1]] + 1
<1>1. CASE l \in {[kind |-> k] : k \in {"comment", "junk"}}
  BY <1>1
<1>2. CASE l \in [kind : {"single"}, ip : Filter!Addresses]
  BY <1>2
<1>3. CASE l \in [kind : {"range"}, left : Filter!Addresses, right : Filter!Addresses]
  BY <1>3
<1>4. CASE \E f \in Filter!Families :
             l \in [kind : {"cidr"}, ip : {f} \X Filter!Numbers(f),
                   prefix : -1 .. Filter!Bits[f] + 1]
  <2>1. PICK f \in Filter!Families :
             l \in [kind : {"cidr"}, ip : {f} \X Filter!Numbers(f),
                   prefix : -1 .. Filter!Bits[f] + 1]
    BY <1>4
  <2>2. /\ l.kind = "cidr" /\ l.ip \in {f} \X Filter!Numbers(f)
        /\ l.prefix \in -1 .. Filter!Bits[f] + 1
    BY <2>1
  <2>3. l.ip = <<l.ip[1], l.ip[2]>> /\ l.ip[1] = f /\ l.ip[2] \in Filter!Numbers(f)
    BY <2>2
  <2> QED
    BY <2>2, <2>3
<1> QED
  BY <1>1, <1>2, <1>3, <1>4 DEF Filter!Lines

\* What appendCidrIpv4 makes of a prefix: the mask has its ones in front.
LEMMA CidrIpv4Is ==
    ASSUME FilterAssumption, NEW ip \in Filter!Numbers(4), NEW p \in 0 .. Filter!Bits[4]
    PROVE  \E first \in Filter!Numbers(4), last \in Filter!Numbers(4) :
             /\ Filter!CidrIpv4(ip, p) = <<4, first, last>>
             /\ \A k \in 0 .. Filter!Bits[4] - 1 :
                  /\ first[k] = IF k < p THEN ip[k] ELSE 0
                  /\ last[k] = IF k < p THEN ip[k] ELSE 1
<1> DEFINE N == 0 .. Filter!Bits[4] - 1
           ones == Filter!Fill(4, 1)
           mask == Filter!ShiftLeft(ones, Filter!Bits[4] - p)
           first == Filter!And(ip, mask)
           last == Filter!Or(first, Filter!Not(mask))
<1>1. /\ 4 \in Filter!Families /\ Filter!Bits[4] \in Nat \ {0} /\ N \subseteq Nat /\ p \in Nat
      /\ DOMAIN ip = N /\ \A k \in N : ip[k] \in {0, 1}
  BY NumbersAre DEF Filter!Families
<1>2. ones = [k \in N |-> 1] /\ DOMAIN ones = N
  BY DEF Filter!Fill
<1>3. mask = [k \in N |-> IF k + (Filter!Bits[4] - p) \in N
                        THEN ones[k + (Filter!Bits[4] - p)] ELSE 0]
  BY <1>2 DEF Filter!ShiftLeft
<1>4. /\ DOMAIN mask = N
      /\ \A k \in N : mask[k] = IF k < p THEN 1 ELSE 0
  <2>1. ASSUME NEW k \in N PROVE k + (Filter!Bits[4] - p) \in N <=> k < p
    BY <1>1
  <2> HIDE DEF mask, ones
  <2> QED
    BY <1>2, <1>3, <2>1
<1> HIDE DEF mask
<1>5. /\ DOMAIN first = N
      /\ \A k \in N : first[k] = IF k < p THEN ip[k] ELSE 0
  <2>1. first = [k \in N |-> IF ip[k] = 1 THEN mask[k] ELSE 0]
    BY <1>1 DEF Filter!And
  <2>2. \A k \in N : first[k] = IF ip[k] = 1 THEN mask[k] ELSE 0
    BY <2>1
  <2>3. DOMAIN first = N
    BY <2>1
  <2> HIDE DEF first
  <2>4. ASSUME NEW k \in N PROVE first[k] = IF k < p THEN ip[k] ELSE 0
    BY <1>1, <1>4, <2>2
  <2> QED
    BY <2>3, <2>4
<1>6. first \in [N -> {0, 1}]
  <2>1. first = [k \in N |-> IF ip[k] = 1 THEN mask[k] ELSE 0]
    BY <1>1 DEF Filter!And
  <2> QED
    BY <1>4, <2>1
<1> HIDE DEF first
<1>7. /\ last \in [N -> {0, 1}]
      /\ \A k \in N : last[k] = IF k < p THEN ip[k] ELSE 1
  <2>1. Filter!Not(mask) = [k \in N |-> 1 - mask[k]]
    BY <1>4 DEF Filter!Not
  <2>2. last = [k \in N |-> IF first[k] = 1 THEN 1 ELSE 1 - mask[k]]
    BY <1>5, <2>1 DEF Filter!Or
  <2>3. \A k \in N : last[k] = IF first[k] = 1 THEN 1 ELSE 1 - mask[k]
    BY <2>2
  <2>4. last \in [N -> {0, 1}]
    BY <1>4, <2>2
  <2> HIDE DEF last
  <2>5. ASSUME NEW k \in N PROVE last[k] = IF k < p THEN ip[k] ELSE 1
    BY <1>1, <1>4, <1>5, <2>3
  <2> QED
    BY <2>4, <2>5
<1>8. Filter!Numbers(4) = [N -> {0, 1}]
  BY DEF Filter!Numbers
<1>9. CASE p # 0
  <2>1. Filter!CidrIpv4(ip, p) = <<4, first, last>>
    BY <1>9 DEF Filter!CidrIpv4, first, mask
  <2>2. first \in Filter!Numbers(4) /\ last \in Filter!Numbers(4)
    BY <1>6, <1>7, <1>8
  <2>3. \A k \in 0 .. Filter!Bits[4] - 1 : /\ first[k] = IF k < p THEN ip[k] ELSE 0
                                   /\ last[k] = IF k < p THEN ip[k] ELSE 1
    BY <1>5, <1>7
  <2> HIDE DEF last
  <2> QED
    BY <2>1, <2>2, <2>3, Zenon
<1>10. CASE p = 0
  <2> DEFINE zeros == Filter!Fill(4, 0)
  <2>1. Filter!CidrIpv4(ip, p) = <<4, zeros, ones>>
    BY <1>10 DEF Filter!CidrIpv4
  <2>2. zeros \in [N -> {0, 1}] /\ ones \in [N -> {0, 1}]
    BY DEF Filter!Fill
  <2>3. \A k \in N : zeros[k] = 0 /\ ones[k] = 1 /\ ~(k < p)
    BY <1>1, <1>10 DEF Filter!Fill
  <2> HIDE DEF zeros, ones
  <2>4. \A k \in N : /\ zeros[k] = IF k < p THEN ip[k] ELSE 0
                     /\ ones[k] = IF k < p THEN ip[k] ELSE 1
    BY <2>3
  <2>5. zeros \in Filter!Numbers(4) /\ ones \in Filter!Numbers(4)
    BY <1>8, <2>2
  <2> QED
    BY <2>1, <2>4, <2>5, Zenon
<1> QED
  BY <1>1, <1>9, <1>10

\* What ipv6ApplyPrefixRange makes of a prefix.
LEMMA CidrIpv6Is ==
    ASSUME FilterAssumption, NEW ip \in Filter!Numbers(6), NEW p \in 0 .. Filter!Bits[6]
    PROVE  \E first \in Filter!Numbers(6), last \in Filter!Numbers(6) :
             /\ Filter!ipv6ApplyPrefixRange(ip, p) = <<6, first, last>>
             /\ \A k \in 0 .. Filter!Bits[6] - 1 :
                  /\ first[k] = IF k < p THEN ip[k] ELSE 0
                  /\ last[k] = IF k < p THEN ip[k] ELSE 1
<1> DEFINE N == 0 .. Filter!Bits[6] - 1
           first == [k \in N |-> IF k < p THEN ip[k] ELSE 0]
           last == [k \in N |-> IF k < p THEN ip[k] ELSE 1]
<1>1. /\ 6 \in Filter!Families /\ Filter!Bits[6] \in Nat \ {0} /\ N \subseteq Nat /\ p \in Nat
      /\ DOMAIN ip = N /\ ip \in [N -> {0, 1}] /\ \A k \in N : ip[k] \in {0, 1}
  BY NumbersAre DEF Filter!Families, Filter!Numbers
<1>2. first \in [N -> {0, 1}] /\ last \in [N -> {0, 1}]
  BY <1>1
<1>3. \A k \in N : /\ first[k] = IF k < p THEN ip[k] ELSE 0
                   /\ last[k] = IF k < p THEN ip[k] ELSE 1
  OBVIOUS
<1>4. Filter!ipv6ApplyPrefixRange(ip, p) = <<6, first, last>>
  <2>1. CASE p = 0
    <3>1. Filter!Fill(6, 0) = first /\ Filter!Fill(6, 1) = last
      BY <1>1, <2>1 DEF Filter!Fill
    <3> QED
      BY <2>1, <3>1 DEF Filter!ipv6ApplyPrefixRange
  <2>2. CASE p # 0 /\ p = Filter!Bits[6]
    <3>1. ip = first /\ ip = last
      BY <1>1, <2>2
    <3> QED
      BY <2>2, <3>1 DEF Filter!ipv6ApplyPrefixRange
  <2>3. CASE p # 0 /\ p # Filter!Bits[6]
    BY <1>1, <2>3 DEF Filter!ipv6ApplyPrefixRange
  <2> QED
    BY <2>1, <2>2, <2>3
<1>5. Filter!Numbers(6) = [N -> {0, 1}]
  BY DEF Filter!Numbers
<1> HIDE DEF first, last
<1>6. first \in Filter!Numbers(6) /\ last \in Filter!Numbers(6)
  BY <1>2, <1>5
<1> QED
  BY <1>3, <1>4, <1>6, Zenon

\* What an accepted rule blocks.
Blocks(r) == Filter!Between(r[1], r[2], r[3])

\* What a line is taken for and what it says.
LineRight(l) ==
    /\ Filter!Meant(l) \subseteq Filter!Addresses
    /\ Filter!Parse(l) = Filter!Refused => Filter!Meant(l) = {}
    /\ Filter!Parse(l) # Filter!Refused =>
         /\ Filter!Meant(l) # {}
         /\ Filter!Meant(l) = Blocks(Filter!Parse(l))

\* The rows between two are addresses.
LEMMA BetweenIs ==
    ASSUME NEW f \in Filter!Families, NEW x, NEW y
    PROVE  Filter!Between(f, x, y) \subseteq Filter!Addresses
  BY DEF Filter!Between, Filter!Addresses

\* A single address.
LEMMA SingleRight ==
    ASSUME FilterAssumption, NEW l \in Filter!Lines, l.kind = "single"
    PROVE  LineRight(l)
<1>1. l.ip \in Filter!Addresses
  BY LineIs
<1> DEFINE f == l.ip[1]
           x == l.ip[2]
<1>2. l.ip = <<f, x>> /\ f \in Filter!Families /\ x \in Filter!Numbers(f)
  BY <1>1, AddressIs
<1>3. Filter!Parse(l) = <<f, x, x>> /\ Filter!Parse(l) # Filter!Refused
  BY DEF Filter!Parse, Filter!ParseSingle, Filter!Refused
<1>4. Filter!Meant(l) = {l.ip}
  BY DEF Filter!Meant
<1> HIDE DEF f, x
<1>5. \A y \in Filter!Numbers(f) : Filter!Below(x, y) /\ Filter!Below(y, x) <=> y = x
  BY <1>2, BelowBoth DEF Filter!Below
<1>6. Filter!Between(f, x, x) = {<<f, x>>}
  BY <1>2, <1>5 DEF Filter!Between
<1>7. Filter!Parse(l)[1] = f /\ Filter!Parse(l)[2] = x /\ Filter!Parse(l)[3] = x
  BY <1>3
<1> QED
  BY <1>1, <1>2, <1>3, <1>4, <1>6, <1>7 DEF LineRight, Blocks

\* Two addresses, in any order.
LEMMA RangeRight ==
    ASSUME FilterAssumption, NEW l \in Filter!Lines, l.kind = "range"
    PROVE  LineRight(l)
<1> DEFINE f == l.left[1]
           x == l.left[2]
           y == l.right[2]
<1>1. /\ l.left = <<f, x>> /\ f \in Filter!Families /\ x \in Filter!Numbers(f)
      /\ l.right[1] \in Filter!Families /\ y \in Filter!Numbers(l.right[1])
  BY LineIs, AddressIs
<1>2. Filter!Meant(l) = {a \in Filter!Addresses :
        /\ a[1] = f /\ a[1] = l.right[1]
        /\ \/ Filter!Below(x, a[2]) /\ Filter!Below(a[2], y)
           \/ Filter!Below(y, a[2]) /\ Filter!Below(a[2], x)}
  BY DEF Filter!Meant
<1>3. Filter!Parse(l) = Filter!ParseRange(l)
  BY DEF Filter!Parse
<1>4. CASE f # l.right[1]
  <2>1. Filter!Parse(l) = Filter!Refused
    BY <1>3, <1>4 DEF Filter!ParseRange
  <2>2. Filter!Meant(l) = {}
    BY <1>2, <1>4
  <2> QED
    BY <2>1, <2>2 DEF LineRight, Blocks
<1>5. CASE f = l.right[1]
  <2>1. y \in Filter!Numbers(f)
    BY <1>1, <1>5
  <2>2. /\ Filter!Below(x, y) => Filter!Parse(l) = <<f, x, y>>
        /\ ~Filter!Below(x, y) => Filter!Parse(l) = <<f, y, x>>
    BY <1>3, <1>5 DEF Filter!ParseRange
  <2> HIDE DEF f, x, y
  <2>3. Filter!Meant(l) = Filter!Between(f, x, y) \cup Filter!Between(f, y, x)
    <3>1. ASSUME NEW a
          PROVE  a \in Filter!Meant(l) <=>
                   a \in Filter!Between(f, x, y) \cup Filter!Between(f, y, x)
      <4>1. a \in Filter!Meant(l) <=>
              /\ a = <<a[1], a[2]>> /\ a[1] = f /\ a[2] \in Filter!Numbers(f)
              /\ \/ Filter!Below(x, a[2]) /\ Filter!Below(a[2], y)
                 \/ Filter!Below(y, a[2]) /\ Filter!Below(a[2], x)
        BY <1>1, <1>2, <1>5, AddressIs
      <4>2. a \in Filter!Between(f, x, y) <=>
              /\ a = <<a[1], a[2]>> /\ a[1] = f /\ a[2] \in Filter!Numbers(f)
              /\ Filter!Below(x, a[2]) /\ Filter!Below(a[2], y)
        BY DEF Filter!Between
      <4>3. a \in Filter!Between(f, y, x) <=>
              /\ a = <<a[1], a[2]>> /\ a[1] = f /\ a[2] \in Filter!Numbers(f)
              /\ Filter!Below(y, a[2]) /\ Filter!Below(a[2], x)
        BY DEF Filter!Between
      <4> QED
        BY <4>1, <4>2, <4>3
    <3> QED
      BY <3>1
  <2>4. Filter!Meant(l) \subseteq Filter!Addresses
    BY <1>2
  <2>5. CASE Filter!Below(x, y)
    <3>1. \A z \in Filter!Numbers(f) :
            Filter!Below(y, z) /\ Filter!Below(z, x) => Filter!Below(x, z) /\ Filter!Below(z, y)
      <4> SUFFICES ASSUME NEW z \in Filter!Numbers(f), Filter!Below(y, z), Filter!Below(z, x)
                   PROVE  Filter!Below(x, z) /\ Filter!Below(z, y)
        OBVIOUS
      <4>1. Filter!Below(x, z)
        BY <1>1, <2>1, <2>5, BelowTransitive
      <4>2. Filter!Below(z, y)
        BY <1>1, <2>1, <2>5, BelowTransitive
      <4> QED
        BY <4>1, <4>2
    <3>2. Filter!Between(f, y, x) \subseteq Filter!Between(f, x, y)
      BY <3>1 DEF Filter!Between
    <3>3. <<f, x>> \in Filter!Between(f, x, y)
      BY <1>1, <2>5 DEF Filter!Between, Filter!Below
    <3>4. /\ Filter!Parse(l) # Filter!Refused
          /\ Filter!Parse(l)[1] = f /\ Filter!Parse(l)[2] = x /\ Filter!Parse(l)[3] = y
      BY <2>2, <2>5 DEF Filter!Refused
    <3> QED
      BY <2>3, <2>4, <3>2, <3>3, <3>4 DEF LineRight, Blocks
  <2>6. CASE ~Filter!Below(x, y)
    <3>1. Filter!Below(y, x)
      BY <1>1, <2>1, <2>6, BelowTotal
    <3>2. \A z \in Filter!Numbers(f) : ~(Filter!Below(x, z) /\ Filter!Below(z, y))
      BY <1>1, <2>1, <2>6, BelowTransitive
    <3>3. Filter!Between(f, x, y) = {}
      BY <3>2 DEF Filter!Between
    <3>4. <<f, y>> \in Filter!Between(f, y, x)
      BY <2>1, <3>1 DEF Filter!Between, Filter!Below
    <3>5. /\ Filter!Parse(l) # Filter!Refused
          /\ Filter!Parse(l)[1] = f /\ Filter!Parse(l)[2] = y /\ Filter!Parse(l)[3] = x
      BY <2>2, <2>6 DEF Filter!Refused
    <3> QED
      BY <2>3, <2>4, <3>3, <3>4, <3>5 DEF LineRight, Blocks
  <2> QED
    BY <2>5, <2>6
<1> QED
  BY <1>4, <1>5

\* A prefix.
LEMMA CidrRight ==
    ASSUME FilterAssumption, NEW l \in Filter!Lines, l.kind = "cidr"
    PROVE  LineRight(l)
<1> DEFINE f == l.ip[1]
           ip == l.ip[2]
           p == l.prefix
<1>1. /\ l.ip = <<f, ip>> /\ f \in Filter!Families /\ ip \in Filter!Numbers(f)
      /\ p \in -1 .. Filter!Bits[f] + 1 /\ Filter!Bits[f] \in Nat \ {0}
  BY LineIs, NumbersAre
<1>2. Filter!Meant(l) = {a \in Filter!Addresses : /\ a[1] = f /\ p \in 0 .. Filter!Bits[a[1]]
                                    /\ \A k \in 0 .. p - 1 : a[2][k] = ip[k]}
  BY DEF Filter!Meant
<1>3. Filter!Parse(l) = Filter!ParseCidr(l)
  BY DEF Filter!Parse
<1>4. CASE p \notin 0 .. Filter!Bits[f]
  <2>1. Filter!Parse(l) = Filter!Refused
    BY <1>3, <1>4 DEF Filter!ParseCidr
  <2>2. Filter!Meant(l) = {}
    BY <1>2, <1>4
  <2> QED
    BY <2>1, <2>2 DEF LineRight, Blocks
<1>5. CASE p \in 0 .. Filter!Bits[f]
  <2>1. Filter!Parse(l) = IF f = 4 THEN Filter!CidrIpv4(ip, p)
                          ELSE Filter!ipv6ApplyPrefixRange(ip, p)
    BY <1>3, <1>5 DEF Filter!ParseCidr
  <2> HIDE DEF f, ip, p
  <2>2. \E first \in Filter!Numbers(f), last \in Filter!Numbers(f) :
             /\ Filter!Parse(l) = <<f, first, last>>
             /\ \A k \in 0 .. Filter!Bits[f] - 1 :
                  /\ first[k] = IF k < p THEN ip[k] ELSE 0
                  /\ last[k] = IF k < p THEN ip[k] ELSE 1
    <3>1. CASE f = 4
      <4>1. /\ Filter!Parse(l) = Filter!CidrIpv4(ip, p) /\ ip \in Filter!Numbers(4)
            /\ p \in 0 .. Filter!Bits[4]
        BY <1>1, <1>5, <2>1, <3>1
      <4>2. PICK first \in Filter!Numbers(4), last \in Filter!Numbers(4) :
               /\ Filter!CidrIpv4(ip, p) = <<4, first, last>>
               /\ \A k \in 0 .. Filter!Bits[4] - 1 :
                    /\ first[k] = IF k < p THEN ip[k] ELSE 0
                    /\ last[k] = IF k < p THEN ip[k] ELSE 1
        BY <4>1, CidrIpv4Is
      <4>3. /\ first \in Filter!Numbers(f) /\ last \in Filter!Numbers(f)
            /\ Filter!Parse(l) = <<f, first, last>>
            /\ \A k \in 0 .. Filter!Bits[f] - 1 :
                 /\ first[k] = IF k < p THEN ip[k] ELSE 0
                 /\ last[k] = IF k < p THEN ip[k] ELSE 1
        BY <3>1, <4>1, <4>2
      <4> QED
        BY <4>3, Zenon
    <3>2. CASE f = 6
      <4>1. /\ Filter!Parse(l) = Filter!ipv6ApplyPrefixRange(ip, p) /\ ip \in Filter!Numbers(6)
            /\ p \in 0 .. Filter!Bits[6]
        BY <1>1, <1>5, <2>1, <3>2
      <4>2. PICK first \in Filter!Numbers(6), last \in Filter!Numbers(6) :
               /\ Filter!ipv6ApplyPrefixRange(ip, p) = <<6, first, last>>
               /\ \A k \in 0 .. Filter!Bits[6] - 1 :
                    /\ first[k] = IF k < p THEN ip[k] ELSE 0
                    /\ last[k] = IF k < p THEN ip[k] ELSE 1
        BY <4>1, CidrIpv6Is
      <4>3. /\ first \in Filter!Numbers(f) /\ last \in Filter!Numbers(f)
            /\ Filter!Parse(l) = <<f, first, last>>
            /\ \A k \in 0 .. Filter!Bits[f] - 1 :
                 /\ first[k] = IF k < p THEN ip[k] ELSE 0
                 /\ last[k] = IF k < p THEN ip[k] ELSE 1
        BY <3>2, <4>1, <4>2
      <4> QED
        BY <4>3, Zenon
    <3> QED
      BY <1>1, <3>1, <3>2 DEF Filter!Families
  <2>3. PICK first \in Filter!Numbers(f), last \in Filter!Numbers(f) :
             /\ Filter!Parse(l) = <<f, first, last>>
             /\ \A k \in 0 .. Filter!Bits[f] - 1 :
                  /\ first[k] = IF k < p THEN ip[k] ELSE 0
                  /\ last[k] = IF k < p THEN ip[k] ELSE 1
    BY <2>2
  <2> DEFINE S == {x \in Filter!Numbers(f) : \A k \in 0 .. p - 1 : x[k] = ip[k]}
  <2>9. BlockOf(f, ip, p, first, last)
    BY <2>3 DEF BlockOf
  <2>4. Filter!Between(f, first, last) = {f} \X S
    BY <1>1, <1>5, <2>9, BlockIs
  <2>5. Filter!Meant(l) = {f} \X S
    <3>1. ASSUME NEW a PROVE a \in Filter!Meant(l) <=> a \in {f} \X S
      <4>1. a \in Filter!Meant(l) <=>
              /\ a = <<a[1], a[2]>> /\ a[1] = f /\ a[2] \in Filter!Numbers(f)
              /\ \A k \in 0 .. p - 1 : a[2][k] = ip[k]
        BY <1>1, <1>2, <1>5, AddressIs
      <4>2. a \in {f} \X S <=> a = <<a[1], a[2]>> /\ a[1] = f /\ a[2] \in S
        OBVIOUS
      <4> QED
        BY <4>1, <4>2
    <3> QED
      BY <3>1
  <2>6. <<f, ip>> \in {f} \X S
    BY <1>1
  <2>7. /\ Filter!Parse(l) # Filter!Refused /\ Filter!Parse(l)[1] = f
        /\ Filter!Parse(l)[2] = first /\ Filter!Parse(l)[3] = last
    BY <2>3 DEF Filter!Refused
  <2>8. Filter!Meant(l) \subseteq Filter!Addresses
    BY <1>2
  <2> HIDE DEF S
  <2> QED
    BY <2>4, <2>5, <2>6, <2>7, <2>8 DEF LineRight, Blocks
<1> QED
  BY <1>4, <1>5

\* Every line: what neither is an address nor names some is refused.
LEMMA LinesRight ==
    ASSUME FilterAssumption, NEW l \in Filter!Lines
    PROVE  LineRight(l)
<1>1. CASE l.kind \in {"comment", "junk"}
  BY <1>1 DEF LineRight, Filter!Meant, Filter!Parse
<1>2. l.kind \in {"comment", "junk"} \/ l.kind = "single" \/ l.kind = "range" \/ l.kind = "cidr"
  BY LineIs
<1> QED
  BY <1>1, <1>2, SingleRight, RangeRight, CidrRight

-----------------------------------------------------------------------------
(* The file is read line by line.                                          *)

\* What was read is what is blocked and counted.
FilterInv ==
    /\ lines \in Seq(Filter!Lines) /\ read \in 0 .. Len(lines)
    /\ blocked \subseteq Filter!Addresses /\ applied \in Nat
    /\ Filter!BlocksWhatIsMeant /\ Filter!CountsRules

\* The module counts by the definition of the library.
LEMMA FilterCount ==
    ASSUME NEW S PROVE Filter!Cardinality(S) = Cardinality(S)
  BY DEF Filter!Cardinality, Cardinality

\* An empty filter before the first line.
LEMMA FilterInit ==
    ASSUME Filter!Init PROVE FilterInv
<1>1. lines \in Seq(Filter!Lines) /\ Len(lines) \in Nat
  BY DEF Filter!Init
<1>2. read = 0 /\ blocked = {} /\ applied = 0
  BY DEF Filter!Init
<1>3. 1 .. read = {}
  BY <1>2
<1>4. {i \in 1 .. read : Filter!Meant(lines[i]) # {}} = {}
      /\ UNION {Filter!Meant(lines[i]) : i \in 1 .. read} = {}
  BY <1>3
<1>5. Cardinality({}) = 0
  BY FS_EmptySet
<1> QED
  BY <1>1, <1>2, <1>4, <1>5, FilterCount
  DEF FilterInv, Filter!BlocksWhatIsMeant, Filter!CountsRules

\* A line more: its addresses, and it counts if it names some.
LEMMA FilterStep ==
    ASSUME FilterAssumption, FilterInv, [Filter!Next]_Filter!vars
    PROVE  FilterInv'
<1>1. CASE UNCHANGED Filter!vars
  BY <1>1 DEF FilterInv, Filter!BlocksWhatIsMeant, Filter!CountsRules, Filter!vars
<1>2. CASE Filter!ReadLine
  <2> DEFINE l == lines[read + 1]
             S == {i \in 1 .. read : Filter!Meant(lines[i]) # {}}
             T == {i \in 1 .. read + 1 : Filter!Meant(lines[i]) # {}}
  <2>1. /\ lines \in Seq(Filter!Lines) /\ Len(lines) \in Nat /\ read \in 0 .. Len(lines)
        /\ read < Len(lines) /\ read' = read + 1 /\ lines' = lines
        /\ blocked \subseteq Filter!Addresses /\ applied \in Nat
    BY <1>2 DEF FilterInv, Filter!ReadLine
  <2>2. l \in Filter!Lines /\ read + 1 \in 1 .. Len(lines) /\ read' \in 0 .. Len(lines')
    BY <2>1
  <2>3. LineRight(l)
    BY <2>2, LinesRight
  <2>4. /\ blocked = UNION {Filter!Meant(lines[i]) : i \in 1 .. read}
        /\ applied = Cardinality(S)
    BY FilterCount DEF FilterInv, Filter!BlocksWhatIsMeant, Filter!CountsRules
  <2>5. 1 .. read + 1 = (1 .. read) \cup {read + 1} /\ read + 1 \notin 1 .. read
    BY <2>1
  <2>6. UNION {Filter!Meant(lines[i]) : i \in 1 .. read + 1} = blocked \cup Filter!Meant(l)
    BY <2>4, <2>5
  <2>7. T = IF Filter!Meant(l) = {} THEN S ELSE S \cup {read + 1}
    BY <2>5
  <2>8. IsFiniteSet(S) /\ read + 1 \notin S
    <3>1. IsFiniteSet(1 .. read)
      BY <2>1, FS_Interval
    <3> QED
      BY <2>5, <3>1, FS_Subset
  <2> HIDE DEF l, S, T
  <2>9. blocked' = blocked \cup Filter!Meant(l) /\ applied' = Cardinality(T) /\ applied' \in Nat
    <3>1. CASE Filter!Parse(l) = Filter!Refused
      <4>1. UNCHANGED <<blocked, applied>>
        BY <1>2, <3>1 DEF Filter!ReadLine, l, Blocks
      <4> QED
        BY <2>1, <2>3, <2>4, <2>7, <3>1, <4>1 DEF LineRight, Blocks
    <3>2. CASE Filter!Parse(l) # Filter!Refused
      <4>1. /\ blocked' = blocked \cup Blocks(Filter!Parse(l))
            /\ applied' = applied + 1
        BY <1>2, <3>2 DEF Filter!ReadLine, l, Blocks
      <4>2. Cardinality(S \cup {read + 1}) = Cardinality(S) + 1
        BY <2>8, FS_AddElement
      <4>3. Filter!Meant(l) # {}
            /\ Filter!Meant(l) = Blocks(Filter!Parse(l))
        BY <2>3, <3>2 DEF LineRight, Blocks
      <4> QED
        BY <2>1, <2>4, <2>7, <4>1, <4>2, <4>3
    <3> QED
      BY <3>1, <3>2
  <2>10. Filter!BlocksWhatIsMeant'
    BY <2>1, <2>6, <2>9 DEF Filter!BlocksWhatIsMeant
  <2>11. Filter!CountsRules'
    BY <2>1, <2>9, FilterCount DEF Filter!CountsRules, T
  <2>12. blocked' \subseteq Filter!Addresses
    BY <2>1, <2>3, <2>9 DEF LineRight, Blocks
  <2> QED
    BY <2>1, <2>2, <2>9, <2>10, <2>11, <2>12 DEF FilterInv
<1> QED
  BY <1>1, <1>2 DEF Filter!Next

\* The lines read are lines of the file and only addresses are blocked, whatever the
\* file says.
THEOREM FilterTypes ==
    ASSUME FilterAssumption
    PROVE  Filter!Spec => []Filter!TypeOK
<1>1. FilterInv => Filter!TypeOK
  BY DEF FilterInv, Filter!TypeOK
<1>2. Filter!Init => FilterInv
  BY FilterInit
<1>3. FilterInv /\ [Filter!Next]_Filter!vars => FilterInv'
  BY FilterStep
<1> QED
  BY <1>1, <1>2, <1>3, PTL DEF Filter!Spec

\* The filter blocks the addresses that the lines read so far name and no other, and
\* counts the lines that name some: for addresses of any width and files of any length.
THEOREM FilterIsExact ==
    ASSUME FilterAssumption
    PROVE  Filter!Spec => [](Filter!BlocksWhatIsMeant /\ Filter!CountsRules)
<1>1. FilterInv => Filter!BlocksWhatIsMeant /\ Filter!CountsRules
  BY DEF FilterInv
<1>2. Filter!Init => FilterInv
  BY FilterInit
<1>3. FilterInv /\ [Filter!Next]_Filter!vars => FilterInv'
  BY FilterStep
<1> QED
  BY <1>1, <1>2, <1>3, PTL DEF Filter!Spec
=============================================================================
