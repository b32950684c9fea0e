------------------------------- MODULE Settings ------------------------------
(***************************************************************************)
(* modforge's persistent settings (src/modforge/src/settings.rs): a value  *)
(* in memory behind a mutex, a JSON file that every update rewrites        *)
(* through a temporary one, a reload on demand, and a watcher thread that  *)
(* reloads when the file's modification time changes.  Reads may fail, the *)
(* process may be killed and the machine may lose power.                   *)
(*                                                                         *)
(* A value says, for each writer, how many times that writer has changed   *)
(* its part of the settings.  The writers are the threads that call update *)
(* and the user's text editor, which changes the file behind the program.  *)
(***************************************************************************)
EXTENDS Naturals

CONSTANTS
    Updaters,    \* threads calling Settings::update
    Editor,      \* the user's text editor
    Watcher,     \* the thread of Settings::watch
    Button,      \* another caller of Settings::reload (an op, a tab's button)
    None,        \* Option::None
    MaxUpdates,  \* bound: updates by each updater
    MaxEdits,    \* bound: writes by the editor
    MaxCrashes   \* bound: kills and power losses

ASSUME SettingsAssumption ==
    /\ MaxUpdates \in Nat
    /\ MaxEdits \in Nat
    /\ MaxCrashes \in Nat
    /\ Editor \notin Updaters
    /\ Watcher # Button
    /\ None \notin Updaters \cup {Editor}

Writers   == Updaters \cup {Editor}
Reloaders == {Watcher, Button}
Value     == [Writers -> Nat]
Default   == [w \in Writers |-> 0]

\* A file: its text, whether that parses, and when it was written.
File == [text : Value, parses : BOOLEAN, mtime : Nat]

\* None is told apart from a file and from a time.
ASSUME NoneAssumption == None \notin File /\ None \notin Nat

VARIABLES
    inner,   \* Mutex<T>: the settings in memory
    lock,    \* the updater inside `update`, or None
    saving,  \* where its save is: "write" or "rename"
    tmp,     \* the temporary file, or None
    file,    \* the settings file, or None
    synced,  \* the file as the disk holds it, which a power loss leaves
    clock,   \* the time of the last write of any file
    seen,    \* the watcher's last_mtime, None when it could not be had
    at,      \* [Reloaders -> "off", "idle", "read" or "set"]
    got,     \* [Reloaders -> the text a reload has in its hands]
    asked,   \* [Updaters -> updates begun]
    edits,   \* writes of the editor so far
    crashes, \* kills and power losses so far
    failed,  \* history: a save failed
    raced,   \* history: a reload overlapped an update, or an edit was overtaken
    missed,  \* history: memory lacks what is in the file, and nobody will look
    spoilt,  \* history: the editor left the file malformed
    reset    \* history: a restart did not find what was in the file before it

memVars  == <<inner, lock, saving>>
diskVars == <<tmp, file, clock>>
loadVars == <<seen, at, got>>
faults   == <<failed, raced, spoilt, reset>>
vars     == <<memVars, diskVars, synced, loadVars, asked, edits, crashes, missed, faults>>

TypeOK ==
    /\ inner \in Value
    /\ lock \in Updaters \cup {None}
    /\ saving \in {"write", "rename"}
    /\ tmp \in File \cup {None}
    /\ {file, synced} \subseteq File \cup {None}
    /\ clock \in Nat
    /\ seen \in Nat \cup {None}
    /\ at \in [Reloaders -> {"off", "idle", "read", "set"}]
    /\ got \in [Reloaders -> Value]
    /\ asked \in [Updaters -> 0..MaxUpdates]
    /\ edits \in 0..MaxEdits
    /\ crashes \in 0..MaxCrashes
    /\ {failed, raced, missed, spoilt, reset} \subseteq BOOLEAN

MTime == IF file = None THEN None ELSE file.mtime

\* What Settings::load may put in memory: the file's text, or the defaults when
\* it is missing or malformed, and when reading it fails.
Loads(f) == {Default} \cup {x.text : x \in {y \in {f} \ {None} : y.parses}}

\* A well-formed file says something else than v.
Unloaded(f, v) == f # None /\ f.parses /\ v # f.text

\* No thread reloads, the watcher's has not started.
AllOff == [r \in Reloaders |-> IF r = Watcher THEN "off" ELSE "idle"]

\* The user may have edited the file before the first start.
Init ==
    /\ file \in {None} \cup [text : {Default, [Default EXCEPT ![Editor] = 1]},
                              parses : BOOLEAN, mtime : {0}]
    /\ inner \in Loads(file)
    /\ lock = None /\ saving = "write" /\ tmp = None
    /\ synced = file /\ clock = 0
    /\ seen = None /\ at = AllOff /\ got = [r \in Reloaders |-> Default]
    /\ asked = [u \in Updaters |-> 0]
    /\ edits = 0 /\ crashes = 0
    /\ failed = FALSE /\ raced = FALSE /\ reset = FALSE
    /\ missed = Unloaded(file, inner)
    /\ spoilt = (file # None /\ ~file.parses)

------------------------------------------------------------------------------
(* Settings::update.                                                       *)

\* The closure runs under the lock.
UpdateMutate(u) ==
    /\ lock = None
    /\ asked[u] < MaxUpdates
    /\ lock' = u
    /\ saving' = "write"
    /\ inner' = [inner EXCEPT ![u] = @ + 1]
    /\ asked' = [asked EXCEPT ![u] = @ + 1]
    /\ raced' = (raced \/ \E r \in Reloaders : at[r] = "set")
    /\ UNCHANGED <<diskVars, synced, loadVars, edits, crashes, missed, failed, spoilt, reset>>

\* Mutant of SaveWrite: the settings file itself is written, and is cut short
\* until the write is over.
SaveWriteInPlace ==
    /\ lock # None /\ saving = "write"
    /\ clock' = clock + 1
    /\ tmp' = [text |-> inner, parses |-> TRUE, mtime |-> clock']
    /\ file' = [tmp' EXCEPT !.parses = FALSE]
    /\ saving' = "rename"
    /\ UNCHANGED <<inner, lock, synced, loadVars, asked, edits, crashes, missed, faults>>

SaveWrite ==
    /\ lock # None /\ saving = "write"
    /\ clock' = clock + 1
    /\ tmp' = [text |-> inner, parses |-> TRUE, mtime |-> clock']
    /\ saving' = "rename"
    /\ UNCHANGED <<inner, lock, file, synced, loadVars, asked, edits, crashes, missed, faults>>

\* The temporary file replaces the settings file and keeps its own time.
\* Nothing is flushed to the disk.
SaveRename ==
    /\ lock # None /\ saving = "rename"
    /\ file' = tmp
    /\ tmp' = None
    /\ lock' = None
    /\ saving' = "write"
    /\ missed' = FALSE
    /\ spoilt' = FALSE
    /\ UNCHANGED <<inner, clock, synced, loadVars, asked, edits, crashes,
                   failed, raced, reset>>

\* A failed save is logged; the value in memory stays.  A temporary file left
\* behind is never read, and the next save begins it anew.
SaveFails ==
    /\ lock # None
    /\ lock' = None
    /\ saving' = "write"
    /\ tmp' = None
    /\ failed' = TRUE
    /\ UNCHANGED <<inner, file, clock, synced, loadVars, asked, edits, crashes,
                   missed, raced, spoilt, reset>>

------------------------------------------------------------------------------
(* Settings::reload, by the watcher or on demand.                          *)

\* The button is pressed.
ReloadAsked ==
    /\ at[Button] = "idle"
    /\ at' = [at EXCEPT ![Button] = "read"]
    /\ UNCHANGED <<memVars, diskVars, synced, seen, got, asked, edits, crashes, missed, faults>>

\* Mutant of ReloadRead: a missing file is not an error.
ReloadReadMissing(r) ==
    /\ at[r] = "read"
    /\ file # None => file.parses
    /\ got' = [got EXCEPT ![r] = IF file = None THEN None ELSE file.text]
    /\ at' = [at EXCEPT ![r] = "set"]
    /\ raced' = (raced \/ lock # None)
    /\ UNCHANGED <<memVars, diskVars, synced, seen, asked, edits, crashes, missed,
                   failed, spoilt, reset>>

\* The file is read and parsed, without the lock ...
ReloadRead(r) ==
    /\ at[r] = "read"
    /\ file # None /\ file.parses
    /\ got' = [got EXCEPT ![r] = file.text]
    /\ at' = [at EXCEPT ![r] = "set"]
    /\ raced' = (raced \/ lock # None)
    /\ UNCHANGED <<memVars, diskVars, synced, seen, asked, edits, crashes, missed,
                   failed, spoilt, reset>>

\* ... or is not: it is missing or malformed, or cannot be read just now.  The
\* watcher has noted its time and does not try again.
ReloadFails(r) ==
    /\ at[r] = "read"
    /\ at' = [at EXCEPT ![r] = "idle"]
    /\ missed' = (missed \/ (r = Watcher /\ Unloaded(file, inner)))
    /\ UNCHANGED <<memVars, diskVars, synced, seen, got, asked, edits, crashes, faults>>

\* Mutant of ReloadSet: the watcher notes the time once it has reloaded.
ReloadSetNotesTime(r) ==
    /\ at[r] = "set"
    /\ lock = None
    /\ inner' = got[r]
    /\ got' = [got EXCEPT ![r] = Default]
    /\ seen' = IF r = Watcher THEN MTime ELSE seen
    /\ at' = [at EXCEPT ![r] = "idle"]
    /\ missed' = FALSE
    /\ UNCHANGED <<lock, saving, diskVars, synced, asked, edits, crashes, faults>>

\* What was read replaces what is in memory.
ReloadSet(r) ==
    /\ at[r] = "set"
    /\ lock = None
    /\ inner' = got[r]
    /\ got' = [got EXCEPT ![r] = Default]
    /\ at' = [at EXCEPT ![r] = "idle"]
    /\ missed' = FALSE
    /\ UNCHANGED <<lock, saving, diskVars, synced, seen, asked, edits, crashes, faults>>

\* The file's time as the watcher gets it: None when it cannot be had.
Times == {MTime, None}

\* The watcher's thread starts from the file's time of that moment: what the
\* load did not read is not a change to it.
WatchStart ==
    /\ at[Watcher] = "off"
    /\ seen' \in Times
    /\ at' = [at EXCEPT ![Watcher] = "idle"]
    /\ UNCHANGED <<memVars, diskVars, synced, got, asked, edits, crashes, missed, faults>>

\* Mutant of WatchPoll: the poll ends when it has noted the time.
WatchPollNotes ==
    /\ at[Watcher] = "idle"
    /\ seen' \in Times \ {seen}
    /\ missed' = FALSE
    /\ UNCHANGED <<memVars, diskVars, synced, at, got, asked, edits, crashes, faults>>

\* A poll that finds another time notes it before reloading.
WatchPoll ==
    /\ at[Watcher] = "idle"
    /\ seen' \in Times \ {seen}
    /\ at' = [at EXCEPT ![Watcher] = "read"]
    /\ missed' = FALSE
    /\ UNCHANGED <<memVars, diskVars, synced, got, asked, edits, crashes, faults>>

------------------------------------------------------------------------------
\* The editor rewrites the file, well-formed or not, keeping the parts of others.
Edit(parses) ==
    /\ edits < MaxEdits
    /\ edits' = edits + 1
    /\ clock' = clock + 1
    /\ LET old == IF file = None THEN Default ELSE file.text
       IN  file' = [text |-> [old EXCEPT ![Editor] = @ + 1],
                    parses |-> parses, mtime |-> clock']
    /\ raced' = (raced \/ at[Button] = "set")
    /\ missed' = (missed \/ (at[Watcher] = "off" /\ parses))
    /\ spoilt' = ~parses
    /\ UNCHANGED <<memVars, tmp, synced, loadVars, asked, crashes, failed, reset>>

------------------------------------------------------------------------------
(* Crashes.                                                                *)

\* The operating system writes the file out.  After the last crash of the bound
\* nobody can tell.
Flush ==
    /\ synced # file
    /\ crashes < MaxCrashes
    /\ synced' = file
    /\ UNCHANGED <<memVars, diskVars, loadVars, asked, edits, crashes, missed, faults>>

\* What a power loss may leave of a file that is not flushed: this one, the last
\* flushed one, or this one torn.
Survivors ==
    {file, synced} \cup
        {[x EXCEPT !.text = Default, !.parses = FALSE] : x \in {file} \ {synced, None}}

\* The program ends and comes up again, to find the file f.  An update that was
\* not saved yet is not counted.
Restart(f) ==
    /\ crashes < MaxCrashes
    /\ crashes' = crashes + 1
    /\ file' = f
    /\ inner' \in Loads(f)
    /\ lock' = None /\ saving' = "write" /\ tmp' = None
    /\ seen' = None /\ at' = AllOff /\ got' = [r \in Reloaders |-> Default]
    /\ asked' = [u \in Updaters |-> IF lock = u THEN asked[u] - 1 ELSE asked[u]]
    /\ missed' = Unloaded(f, inner')
    /\ reset' = (reset \/ f # file \/ spoilt \/ missed')
    /\ UNCHANGED <<clock, edits, failed, raced, spoilt>>

Kill == \E f \in {file} : Restart(f) /\ UNCHANGED synced

PowerLoss == \E f \in Survivors : Restart(f) /\ synced' = f

------------------------------------------------------------------------------
Update == (\E u \in Updaters : UpdateMutate(u)) \/ SaveWrite \/ SaveRename \/ SaveFails

Reload ==
    \/ ReloadAsked
    \/ \E r \in Reloaders : ReloadRead(r) \/ ReloadFails(r) \/ ReloadSet(r)

Next ==
    \/ Update \/ Reload \/ WatchStart \/ WatchPoll
    \/ \E b \in BOOLEAN : Edit(b)
    \/ Flush \/ Kill \/ PowerLoss

Spec == Init /\ [][Next]_vars

\* The watcher polls for ever and gets the file's time in the end, a read and a
\* save end, and a reload gets the lock in the end (the mutex of parking_lot is
\* eventually fair).  No read need succeed.
Fairness ==
    /\ WF_vars(WatchStart)
    /\ WF_vars(WatchPoll)
    /\ WF_vars(SaveWrite \/ SaveRename)
    /\ \A r \in Reloaders : WF_vars(ReloadRead(r) \/ ReloadFails(r)) /\ SF_vars(ReloadSet(r))

FairSpec == Spec /\ Fairness

------------------------------------------------------------------------------
(* Properties.                                                             *)

\* No update is lost: between updates, everything that was asked for is in
\* memory and on disk, and a killed process finds it again.  The exceptions are a
\* failed save, a reload whose read overlapped an update, and a restart that did
\* not find the file as it was: the power was lost before it was flushed, the
\* user had left it malformed, or load could not read it and took the defaults.
UpdatesKept ==
    lock = None /\ ~failed /\ ~raced /\ ~reset =>
        \A u \in Updaters :
            /\ inner[u] = asked[u]
            /\ asked[u] > 0 => file # None /\ file.text[u] = asked[u]

\* Once the watcher has seen the file as it is and nothing is under way,
\* memory is what the file says, through kills and power losses too.  The
\* exceptions are a failed save, a reload whose read overlapped an update, an
\* edit made during a reload on demand, and, until a later poll, reload or save,
\* what the watcher or the load failed to read and an edit made before the
\* watcher started.
Settled ==
    /\ lock = None /\ at = [r \in Reloaders |-> "idle"]
    /\ file # None /\ file.parses /\ seen = MTime

SettledAgrees == Settled /\ ~failed /\ ~raced /\ ~missed => inner = file.text

\* An edit that the watcher has not seen yet gets into memory, unless the file
\* is written again, or reading it fails once its time is noted: that read is
\* not tried again.
Holds(e) == file # None /\ file.parses /\ file.text[Editor] = e

EditsArrive ==
    \A e \in 1..(MaxEdits + 1) :
        Holds(e) /\ seen # MTime /\ at[Watcher] # "off" ~>
            inner[Editor] = e \/ ~Holds(e) \/ (missed /\ seen = MTime)
==============================================================================
