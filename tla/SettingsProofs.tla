----------------------------- MODULE SettingsProofs -----------------------------
(***************************************************************************)
(* Proofs about Settings for any set of updaters and any number of updates,*)
(* edits and crashes.                                                      *)
(*                                                                         *)
(* UpdatesKept and SettledAgrees look at moments when nothing is under way.*)
(* To get from one such moment to the next one has to know what a save and *)
(* a reload have in their hands (SaveInv, GotInv), what a kill would leave *)
(* at any moment (CountInv), that no time stamp is used twice (TimeInv),   *)
(* and how far memory and file may differ before the watcher starts or     *)
(* when it has seen the file (AgreeInv).                                   *)
(***************************************************************************)
EXTENDS Settings, TLAPS

\* No save failed, and no reload went past an update or an edit.
Calm == ~failed /\ ~raced

TimeInv ==
    /\ seen # None => seen <= clock
    /\ file # None => file.mtime <= clock
    /\ synced # None => synced.mtime <= clock
    /\ tmp # None => tmp.mtime <= clock

\* A save that is about to rename holds what memory holds.
SaveInv == lock # None =>
    /\ asked[lock] > 0
    /\ saving = "rename" => tmp # None /\ tmp.parses /\ tmp.text = inner

\* The updates of u that a save has brought to the file.
Saved(u) == IF lock = u THEN asked[u] - 1 ELSE asked[u]

\* Updates: all are in memory, and on disk unless one is being saved; what does
\* not parse is not ours.
CountInv == Calm /\ ~reset =>
    /\ \A u \in Updaters : /\ inner[u] = asked[u]
                           /\ file = None => Saved(u) = 0
                           /\ file # None => file.text[u] = Saved(u)
    /\ file # None /\ ~file.parses => spoilt

\* Reloads: what one has read, nobody has changed since, or the watcher will
\* see that it was.
GotInv == Calm => \A r \in Reloaders : at[r] = "set" =>
    /\ lock = None /\ file # None
    /\ ~reset => (\A u \in Updaters : got[r][u] = asked[u])
    /\ r = Button \/ seen = file.mtime => got[r] = file.text

\* Memory and file.
AgreeInv == Calm /\ lock = None /\ ~missed /\ file # None /\ file.parses =>
    /\ at[Watcher] = "off" => inner = file.text
    /\ at[Watcher] = "idle" /\ seen = file.mtime => inner = file.text

IInv == TypeOK /\ TimeInv /\ SaveInv /\ CountInv /\ GotInv /\ AgreeInv

------------------------------------------------------------------------------
LEMMA Constants ==
    /\ MaxUpdates \in Nat /\ MaxEdits \in Nat /\ MaxCrashes \in Nat
    /\ Updaters \subseteq Writers /\ Editor \in Writers /\ Editor \notin Updaters
    /\ None \notin Updaters /\ Watcher # Button /\ None \notin File /\ None \notin Nat
    /\ Watcher \in Reloaders /\ Button \in Reloaders
    /\ Default \in Value /\ \A w \in Writers : Default[w] = 0
BY SettingsAssumption, NoneAssumption DEF Writers, Reloaders, Default, Value

\* What load may read of a file is a value, and what is unloaded is well-formed.
LEMMA LoadsAreValues ==
    ASSUME NEW f \in File \cup {None}, NEW v \in Loads(f)
    PROVE  /\ v \in Value
           /\ ~Unloaded(f, v) => f = None \/ ~f.parses \/ v = f.text
           /\ f = None => v = Default
           /\ Unloaded(f, v) \in BOOLEAN
BY Constants DEF Loads, Unloaded, File

LEMMA OffTypes ==
    /\ AllOff \in [Reloaders -> {"off", "idle", "read", "set"}]
    /\ \A r \in Reloaders : AllOff[r] # "set"
    /\ AllOff[Watcher] = "off"
BY Constants DEF AllOff

LEMMA Initially == Init => IInv
<1> SUFFICES ASSUME Init PROVE IInv OBVIOUS
<1>1. /\ file # None => file \in File /\ file.mtime = 0 /\ \A u \in Updaters : file.text[u] = 0
      /\ file \in File \cup {None}
  <2> DEFINE edited == [Default EXCEPT ![Editor] = 1]
  <2>1. edited \in Value /\ \A u \in Updaters : edited[u] = 0 /\ Default[u] = 0
    BY Constants DEF Value
  <2>2. file \in {None} \cup [text : {Default, edited}, parses : BOOLEAN, mtime : {0}]
    BY DEF Init
  <2> HIDE DEF edited
  <2> QED BY <2>1, <2>2, Constants DEF File
<1>2. inner \in Loads(file) /\ at = AllOff BY DEF Init
<1>3. /\ inner \in Value /\ (~Unloaded(file, inner) => file = None \/ ~file.parses \/ inner = file.text)
      /\ Unloaded(file, inner) \in BOOLEAN
  BY <1>1, <1>2, LoadsAreValues
<1>4. \A u \in Updaters : inner[u] = 0 BY <1>1, <1>2, Constants DEF Loads
<1>5. TypeOK
  <2>1. {failed, raced, missed, spoilt, reset} \subseteq BOOLEAN BY <1>3 DEF Init
  <2>2. asked \in [Updaters -> 0..MaxUpdates] /\ edits \in 0..MaxEdits /\ crashes \in 0..MaxCrashes
    BY Constants DEF Init
  <2>3. {file, synced} \subseteq File \cup {None} BY <1>1 DEF Init
  <2>4. got \in [Reloaders -> Value] BY Constants DEF Init
  <2> QED BY <1>2, <1>3, <2>1, <2>2, <2>3, <2>4, OffTypes, Constants DEF Init, TypeOK
<1>6. TimeInv BY <1>1 DEF Init, TimeInv
<1>7. SaveInv BY DEF Init, SaveInv
<1>8. CountInv BY <1>1, <1>4, Constants DEF Init, CountInv, Saved
<1>9. GotInv BY <1>2, OffTypes DEF GotInv
<1>10. AgreeInv BY <1>2, <1>3, OffTypes DEF Init, AgreeInv
<1> QED BY <1>5, <1>6, <1>7, <1>8, <1>9, <1>10 DEF IInv

------------------------------------------------------------------------------
(* Settings::update.                                                       *)

LEMMA MutateKeeps ==
    ASSUME IInv, NEW u \in Updaters, UpdateMutate(u) PROVE IInv'
<1>t. TypeOK /\ TimeInv /\ SaveInv /\ CountInv /\ GotInv /\ AgreeInv BY DEF IInv
<1>1. /\ lock = None /\ lock' = u /\ lock' # None /\ saving' = "write" /\ asked[u] < MaxUpdates
      /\ inner' = [inner EXCEPT ![u] = @ + 1] /\ asked' = [asked EXCEPT ![u] = @ + 1]
      /\ UNCHANGED <<tmp, file, clock, synced, seen, at, got, edits, crashes, missed, failed,
                     spoilt, reset>>
  BY Constants DEF UpdateMutate, diskVars, loadVars
<1>2. raced' = (raced \/ \E r \in Reloaders : at[r] = "set") BY DEF UpdateMutate
<1>3. Calm' => Calm /\ \A r \in Reloaders : at[r] # "set" BY <1>1, <1>2 DEF Calm
<1>a. asked[u] \in Nat /\ asked'[u] = asked[u] + 1 /\ \A v \in Updaters \ {u} : asked'[v] = asked[v]
  BY <1>t, <1>1, Constants DEF TypeOK
<1>4. TypeOK'
  <2>1. raced' \in BOOLEAN BY <1>2
  <2>2. inner' \in Value BY <1>t, <1>1, Constants DEF TypeOK, Value
  <2>3. asked' \in [Updaters -> 0..MaxUpdates] BY <1>t, <1>1, Constants DEF TypeOK
  <2> QED BY <1>t, <1>1, <2>1, <2>2, <2>3 DEF TypeOK
<1>5. TimeInv' BY <1>t, <1>1 DEF TimeInv
<1>6. SaveInv' BY <1>1, <1>a DEF SaveInv
<1>7. CountInv'
  <2>1. \A v \in Updaters : inner[v] = asked[v] => inner'[v] = asked'[v]
    BY <1>t, <1>1, Constants DEF TypeOK, Value
  <2>2. \A v \in Updaters : Saved(v)' = Saved(v) BY <1>t, <1>1, <1>a, Constants DEF Saved, TypeOK
  <2> QED BY <1>t, <1>1, <1>3, <2>1, <2>2 DEF CountInv
<1>8. GotInv' BY <1>1, <1>3 DEF GotInv
<1>9. AgreeInv' BY <1>1 DEF AgreeInv
<1> QED BY <1>4, <1>5, <1>6, <1>7, <1>8, <1>9 DEF IInv

LEMMA SaveKeeps ==
    ASSUME IInv, SaveWrite \/ SaveRename \/ SaveFails PROVE IInv'
<1>t. TypeOK /\ TimeInv /\ SaveInv /\ CountInv /\ GotInv /\ AgreeInv BY DEF IInv
<1>1. CASE SaveWrite
  <2>1. /\ lock # None /\ clock' = clock + 1 /\ saving' = "rename"
        /\ tmp' = [text |-> inner, parses |-> TRUE, mtime |-> clock + 1]
        /\ UNCHANGED <<inner, lock, file, synced, seen, at, got, asked, edits, crashes, missed,
                       failed, raced, spoilt, reset>>
    BY <1>1 DEF SaveWrite, loadVars, faults
  <2>2. clock' \in Nat /\ \A n \in Nat : n <= clock => n <= clock' BY <1>t, <2>1 DEF TypeOK
  <2>3. tmp' \in File /\ tmp'.text = inner /\ tmp'.parses /\ tmp'.mtime = clock'
    BY <1>t, <2>1, <2>2 DEF TypeOK, File
  <2>4. TypeOK' BY <1>t, <2>1, <2>2, <2>3 DEF TypeOK
  <2>5. TimeInv' BY <1>t, <2>1, <2>2, <2>3 DEF TypeOK, TimeInv, File
  <2>6. SaveInv' BY <1>t, <2>1, <2>3, Constants DEF SaveInv
  <2>7. CountInv' /\ GotInv' /\ AgreeInv' BY <1>t, <2>1 DEF CountInv, GotInv, AgreeInv, Calm, Saved
  <2> QED BY <2>4, <2>5, <2>6, <2>7 DEF IInv
<1>2. CASE SaveRename
  <2>1. /\ lock # None /\ saving = "rename" /\ file' = tmp /\ tmp' = None /\ lock' = None
        /\ saving' = "write" /\ missed' = FALSE /\ spoilt' = FALSE
        /\ UNCHANGED <<inner, clock, synced, seen, at, got, asked, edits, crashes, failed, raced,
                       reset>>
    BY <1>2 DEF SaveRename, loadVars
  <2>2. tmp # None /\ tmp \in File /\ tmp.text = inner /\ tmp.mtime <= clock /\ tmp.parses
    BY <1>t, <2>1 DEF TypeOK, SaveInv, TimeInv
  <2>3. TypeOK' BY <1>t, <2>1 DEF TypeOK
  <2>4. TimeInv' BY <1>t, <2>1, <2>2 DEF TimeInv
  <2>5. SaveInv' BY <2>1 DEF SaveInv
  <2>6. CountInv'
    <3>1. \A u \in Updaters : Saved(u)' = asked[u] BY <2>1, Constants DEF Saved
    <3> QED BY <1>t, <2>1, <2>2, <3>1 DEF CountInv, Calm
  <2>7. GotInv' BY <1>t, <2>1 DEF GotInv, Calm
  <2>8. AgreeInv' BY <2>1, <2>2 DEF AgreeInv
  <2> QED BY <2>3, <2>4, <2>5, <2>6, <2>7, <2>8 DEF IInv
<1>3. CASE SaveFails
  <2>1. /\ lock' = None /\ saving' = "write" /\ tmp' = None /\ failed' = TRUE
        /\ UNCHANGED <<inner, file, clock, synced, seen, at, got, asked, edits, crashes, missed,
                       raced, spoilt, reset>>
    BY <1>3 DEF SaveFails, loadVars
  <2>2. TypeOK' BY <1>t, <2>1 DEF TypeOK
  <2>3. TimeInv' BY <1>t, <2>1 DEF TimeInv
  <2>4. SaveInv' /\ CountInv' /\ GotInv' /\ AgreeInv'
    BY <2>1 DEF SaveInv, CountInv, GotInv, AgreeInv, Calm
  <2> QED BY <2>2, <2>3, <2>4 DEF IInv
<1> QED BY <1>1, <1>2, <1>3

------------------------------------------------------------------------------
(* Settings::reload and the watcher.                                       *)

LEMMA ReadKeeps ==
    ASSUME IInv, NEW r \in Reloaders, ReloadRead(r) \/ ReloadFails(r) PROVE IInv'
<1>t. TypeOK /\ TimeInv /\ SaveInv /\ CountInv /\ GotInv /\ AgreeInv BY DEF IInv
<1>1. /\ at[r] = "read"
      /\ UNCHANGED <<inner, lock, saving, tmp, file, clock, synced, seen, asked, edits, crashes,
                     failed, spoilt, reset>>
  BY DEF ReloadRead, ReloadFails, memVars, diskVars, faults
<1>2. TimeInv' /\ SaveInv' BY <1>t, <1>1 DEF TimeInv, SaveInv
<1>3. CASE ReloadRead(r)
  <2>1. /\ got' = [got EXCEPT ![r] = file.text] /\ at' = [at EXCEPT ![r] = "set"]
        /\ raced' = (raced \/ lock # None) /\ file # None /\ file.parses /\ missed' = missed
    BY <1>3 DEF ReloadRead
  <2>2. Calm' => Calm /\ lock = None BY <1>1, <2>1 DEF Calm
  <2>3. file.text \in Value BY <1>t, <2>1 DEF TypeOK, File
  <2>4. TypeOK'
    <3>1. raced' \in BOOLEAN BY <2>1
    <3> QED BY <1>t, <1>1, <2>1, <2>3, <3>1 DEF TypeOK
  <2>5. CountInv' BY <1>t, <1>1, <2>2 DEF CountInv, Saved
  <2>6. GotInv'
    <3>1. /\ at'[r] = "set" /\ got'[r] = file.text
          /\ \A s \in Reloaders \ {r} : at'[s] = at[s] /\ got'[s] = got[s]
      BY <1>t, <2>1 DEF TypeOK
    <3>2. Calm' /\ ~reset => \A u \in Updaters : file.text[u] = asked[u]
      BY <1>t, <2>1, <2>2, Constants DEF CountInv, Saved
    <3> QED BY <1>t, <1>1, <2>1, <2>2, <3>1, <3>2 DEF GotInv
  <2>7. AgreeInv' BY <1>t, <1>1, <2>1, <2>2, Constants DEF TypeOK, AgreeInv
  <2> QED BY <1>2, <2>4, <2>5, <2>6, <2>7 DEF IInv
<1>4. CASE ReloadFails(r)
  <2>1. /\ at' = [at EXCEPT ![r] = "idle"] /\ got' = got /\ raced' = raced
        /\ missed' = (missed \/ (r = Watcher /\ Unloaded(file, inner)))
    BY <1>4 DEF ReloadFails, faults
  <2>2. TypeOK'
    <3>1. missed' \in BOOLEAN BY <2>1
    <3> QED BY <1>t, <1>1, <2>1, <3>1 DEF TypeOK
  <2>3. CountInv' BY <1>t, <1>1, <2>1 DEF CountInv, Calm, Saved
  <2>4. GotInv' BY <1>t, <1>1, <2>1 DEF TypeOK, GotInv, Calm
  <2>5. AgreeInv'
    <3>1. Calm' /\ lock' = None /\ ~missed' /\ file' # None /\ file'.parses
          => /\ Calm /\ lock = None /\ ~missed /\ file # None /\ file.parses
             /\ r = Watcher => inner = file.text
      BY <1>1, <2>1 DEF Calm, Unloaded
    <3>2. r # Watcher => at'[Watcher] = at[Watcher] BY <1>t, <2>1, Constants DEF TypeOK
    <3> QED BY <1>t, <1>1, <3>1, <3>2 DEF AgreeInv
  <2> QED BY <1>2, <2>2, <2>3, <2>4, <2>5 DEF IInv
<1> QED BY <1>3, <1>4

LEMMA SetKeeps ==
    ASSUME IInv, NEW r \in Reloaders, ReloadSet(r) PROVE IInv'
<1>t. TypeOK /\ TimeInv /\ SaveInv /\ CountInv /\ GotInv /\ AgreeInv BY DEF IInv
<1>1. /\ at[r] = "set" /\ lock = None /\ inner' = got[r] /\ at' = [at EXCEPT ![r] = "idle"]
      /\ got' = [got EXCEPT ![r] = Default] /\ missed' = FALSE
      /\ UNCHANGED <<lock, saving, tmp, file, clock, synced, seen, asked, edits, crashes, failed,
                     raced, spoilt, reset>>
  BY DEF ReloadSet, diskVars, faults
<1>2. Calm => /\ file # None
              /\ ~reset => (\A u \in Updaters : got[r][u] = asked[u])
              /\ r = Button \/ seen = file.mtime => got[r] = file.text
  BY <1>t, <1>1 DEF GotInv
<1>3. TypeOK' BY <1>t, <1>1, Constants DEF TypeOK
<1>4. TimeInv' /\ SaveInv' BY <1>t, <1>1 DEF TimeInv, SaveInv
<1>5. CountInv' BY <1>t, <1>1, <1>2 DEF CountInv, Calm, Saved
<1>6. GotInv'
  <2>1. \A s \in Reloaders : at'[s] = "set" => at[s] = "set" /\ got'[s] = got[s]
    BY <1>t, <1>1 DEF TypeOK
  <2> QED BY <1>t, <1>1, <2>1 DEF GotInv, Calm
<1>7. AgreeInv'
  <2>1. r = Watcher \/ r = Button BY DEF Reloaders
  <2>2. r = Watcher => at'[Watcher] = "idle" BY <1>t, <1>1, Constants DEF TypeOK
  <2> QED BY <1>1, <1>2, <2>1, <2>2 DEF AgreeInv, Calm
<1> QED BY <1>3, <1>4, <1>5, <1>6, <1>7 DEF IInv

LEMMA WatchKeeps ==
    ASSUME IInv, WatchStart \/ WatchPoll \/ ReloadAsked PROVE IInv'
<1>t. TypeOK /\ TimeInv /\ SaveInv /\ CountInv /\ GotInv /\ AgreeInv BY DEF IInv
<1>1. UNCHANGED <<inner, lock, saving, tmp, file, clock, synced, got, asked, edits, crashes,
                  failed, raced, spoilt, reset>>
  BY DEF WatchStart, WatchPoll, ReloadAsked, memVars, diskVars, faults
<1>m. \A t \in Times : t \in Nat \cup {None} /\ (t # None => t <= clock)
  BY <1>t DEF TypeOK, TimeInv, File, Times, MTime
<1>2. SaveInv' BY <1>t, <1>1 DEF SaveInv
<1>3. CountInv' BY <1>t, <1>1 DEF CountInv, Calm, Saved
<1>4. CASE WatchStart
  <2>1. /\ at[Watcher] = "off" /\ at' = [at EXCEPT ![Watcher] = "idle"]
        /\ seen' \in Times /\ missed' = missed
    BY <1>4 DEF WatchStart
  <2>2. TypeOK' BY <1>t, <1>1, <1>m, <2>1 DEF TypeOK
  <2>3. TimeInv' BY <1>t, <1>1, <1>m, <2>1 DEF TimeInv
  <2>4. GotInv'
    <3>1. \A r \in Reloaders : at'[r] = "set" => at[r] = "set" /\ r = Button
      BY <1>t, <2>1 DEF TypeOK, Reloaders
    <3> QED BY <1>t, <1>1, <2>1, <3>1 DEF GotInv, Calm
  <2>5. AgreeInv' BY <1>t, <1>1, <2>1 DEF AgreeInv, Calm
  <2> QED BY <1>2, <1>3, <2>2, <2>3, <2>4, <2>5 DEF IInv
<1>5. CASE WatchPoll
  <2>1. /\ at[Watcher] = "idle" /\ at' = [at EXCEPT ![Watcher] = "read"]
        /\ seen' \in Times /\ missed' = FALSE
    BY <1>5 DEF WatchPoll
  <2>2. TypeOK' BY <1>t, <1>1, <1>m, <2>1 DEF TypeOK
  <2>3. TimeInv' BY <1>t, <1>1, <1>m, <2>1 DEF TimeInv
  <2>4. GotInv'
    <3>1. \A r \in Reloaders : at'[r] = "set" => at[r] = "set" /\ r = Button
      BY <1>t, <2>1 DEF TypeOK, Reloaders
    <3> QED BY <1>t, <1>1, <2>1, <3>1 DEF GotInv, Calm
  <2>5. AgreeInv'
    <3>1. at'[Watcher] = "read" BY <1>t, <2>1, Constants DEF TypeOK
    <3> QED BY <3>1 DEF AgreeInv
  <2> QED BY <1>2, <1>3, <2>2, <2>3, <2>4, <2>5 DEF IInv
<1>6. CASE ReloadAsked
  <2>1. /\ at[Button] = "idle" /\ at' = [at EXCEPT ![Button] = "read"]
        /\ seen' = seen /\ missed' = missed
    BY <1>6 DEF ReloadAsked
  <2>2. TypeOK' BY <1>t, <1>1, <2>1 DEF TypeOK
  <2>3. TimeInv' BY <1>t, <1>1, <2>1 DEF TimeInv
  <2>4. GotInv' BY <1>t, <1>1, <2>1 DEF TypeOK, GotInv, Calm
  <2>5. AgreeInv'
    <3>1. at'[Watcher] = at[Watcher] BY <1>t, <2>1, Constants DEF TypeOK
    <3> QED BY <1>t, <1>1, <2>1, <3>1 DEF AgreeInv, Calm
  <2> QED BY <1>2, <1>3, <2>2, <2>3, <2>4, <2>5 DEF IInv
<1> QED BY <1>4, <1>5, <1>6

------------------------------------------------------------------------------
(* The editor.                                                             *)

LEMMA EditKeeps ==
    ASSUME IInv, NEW b \in BOOLEAN, Edit(b) PROVE IInv'
<1>t. TypeOK /\ TimeInv /\ SaveInv /\ CountInv /\ GotInv /\ AgreeInv BY DEF IInv
<1> DEFINE old == IF file = None THEN Default ELSE file.text
           text == [old EXCEPT ![Editor] = @ + 1]
<1>1. /\ edits < MaxEdits /\ edits' = edits + 1 /\ clock' = clock + 1
      /\ file' = [text |-> text, parses |-> b, mtime |-> clock + 1]
      /\ raced' = (raced \/ at[Button] = "set")
      /\ missed' = (missed \/ (at[Watcher] = "off" /\ b))
      /\ spoilt' = ~b
      /\ UNCHANGED <<inner, lock, saving, tmp, synced, seen, at, got, asked, crashes, failed, reset>>
  BY DEF Edit, memVars, loadVars
<1>2. old \in Value BY <1>t, Constants DEF TypeOK, File
<1>3. text \in Value /\ \A u \in Updaters : text[u] = old[u] BY <1>2, Constants DEF Value
<1>4. \A u \in Updaters : old[u] = IF file = None THEN 0 ELSE file.text[u] BY Constants
<1> HIDE DEF old, text
<1>5. /\ clock' \in Nat /\ clock' = clock + 1 /\ clock \in Nat
      /\ edits' \in 0..MaxEdits
  BY <1>t, <1>1, Constants DEF TypeOK
<1>6. /\ file' \in File /\ file'.text = text /\ file'.mtime = clock' /\ file'.parses = b
  BY <1>1, <1>3, <1>5 DEF File
<1>7. Calm' => Calm /\ at[Button] # "set" BY <1>1 DEF Calm
<1>8. seen # file'.mtime /\ file' # None BY <1>t, <1>5, <1>6, Constants DEF TypeOK, TimeInv
<1>9. TypeOK'
  <2>1. raced' \in BOOLEAN /\ missed' \in BOOLEAN /\ spoilt' \in BOOLEAN BY <1>1
  <2> QED BY <1>t, <1>1, <1>5, <1>6, <2>1 DEF TypeOK
<1>10. TimeInv'
  <2>1. seen' # None => seen' <= clock' BY <1>t, <1>1, <1>5 DEF TypeOK, TimeInv
  <2>2. tmp' # None => tmp'.mtime <= clock' BY <1>t, <1>1, <1>5 DEF TypeOK, TimeInv, File
  <2>3. file'.mtime <= clock' BY <1>5, <1>6
  <2>4. synced' # None => synced'.mtime <= clock' BY <1>t, <1>1, <1>5 DEF TypeOK, TimeInv, File
  <2> QED BY <2>1, <2>2, <2>3, <2>4 DEF TimeInv
<1>11. SaveInv' BY <1>t, <1>1 DEF SaveInv
<1>12. CountInv'
  <2>1. SUFFICES ASSUME Calm', ~reset'
                 PROVE  /\ \A u \in Updaters : inner[u] = asked[u] /\ file'.text[u] = Saved(u)
                        /\ ~b => spoilt'
    BY <1>1, <1>6, <1>8 DEF CountInv, Saved
  <2>2. \A u \in Updaters : /\ inner[u] = asked[u]
                            /\ file = None => Saved(u) = 0
                            /\ file # None => file.text[u] = Saved(u)
    BY <1>t, <1>1, <1>7, <2>1 DEF CountInv
  <2> QED BY <1>1, <1>3, <1>4, <1>6, <2>2
<1>13. GotInv'
  <2>1. ASSUME Calm', NEW r \in Reloaders, at'[r] = "set"
        PROVE  /\ lock' = None /\ file' # None
               /\ ~reset' => (\A u \in Updaters : got'[r][u] = asked'[u])
               /\ r # Button /\ seen' # file'.mtime
    BY <1>t, <1>1, <1>7, <1>8, <2>1 DEF GotInv
  <2> QED BY <2>1 DEF GotInv
<1>14. AgreeInv'
  <2>1. at[Watcher] = "off" => missed' \/ ~file'.parses BY <1>1, <1>6
  <2> QED BY <1>1, <1>8, <2>1 DEF AgreeInv
<1> QED BY <1>9, <1>10, <1>11, <1>12, <1>13, <1>14 DEF IInv

------------------------------------------------------------------------------
(* Crashes.                                                                *)

LEMMA FlushKeeps == ASSUME IInv, Flush PROVE IInv'
<1>t. TypeOK /\ TimeInv /\ SaveInv /\ CountInv /\ GotInv /\ AgreeInv BY DEF IInv
<1>1. /\ synced' = file
      /\ UNCHANGED <<inner, lock, saving, tmp, file, clock, seen, at, got, asked, edits, crashes,
                     missed, failed, raced, spoilt, reset>>
  BY DEF Flush, memVars, diskVars, loadVars, faults
<1>2. TypeOK' BY <1>t, <1>1 DEF TypeOK
<1>3. TimeInv' BY <1>t, <1>1 DEF TimeInv
<1>4. SaveInv' /\ CountInv' /\ GotInv' /\ AgreeInv'
  BY <1>t, <1>1 DEF SaveInv, CountInv, GotInv, AgreeInv, Calm, Saved
<1> QED BY <1>2, <1>3, <1>4 DEF IInv

\* Whatever file the program comes up with, when the disk holds the file sy.
LEMMA RestartKeeps ==
    ASSUME IInv, NEW f \in File \cup {None}, NEW sy \in File \cup {None}, Restart(f), synced' = sy,
           f # None => f.mtime <= clock, sy # None => sy.mtime <= clock
    PROVE  IInv'
<1>t. TypeOK /\ TimeInv /\ SaveInv /\ CountInv /\ GotInv /\ AgreeInv BY DEF IInv
<1>1. /\ crashes < MaxCrashes /\ crashes' = crashes + 1 /\ file' = f
      /\ inner' \in Loads(f) /\ lock' = None /\ saving' = "write" /\ tmp' = None
      /\ seen' = None /\ at' = AllOff /\ got' = [r \in Reloaders |-> Default]
      /\ asked' = [u \in Updaters |-> Saved(u)]
      /\ missed' = Unloaded(f, inner')
      /\ reset' = (reset \/ f # file \/ spoilt \/ missed')
      /\ UNCHANGED <<clock, edits, failed, raced, spoilt>>
  BY DEF Restart, Saved
<1>2. /\ inner' \in Value /\ missed' \in BOOLEAN
      /\ ~missed' => f = None \/ ~f.parses \/ inner' = f.text
      /\ f = None => inner' = Default
  BY <1>1, LoadsAreValues
<1>3. \A u \in Updaters : Saved(u) \in 0..MaxUpdates
  BY <1>t, Constants DEF TypeOK, SaveInv, Saved
<1>4. TypeOK'
  <2>1. reset' \in BOOLEAN BY <1>1
  <2>2. asked' \in [Updaters -> 0..MaxUpdates] BY <1>1, <1>3
  <2>3. crashes' \in 0..MaxCrashes BY <1>t, <1>1, Constants DEF TypeOK
  <2>4. {failed, raced, missed, spoilt, reset}' \subseteq BOOLEAN BY <1>t, <1>1, <1>2, <2>1 DEF TypeOK
  <2>5. got' \in [Reloaders -> Value] BY <1>1, Constants
  <2>6. {file, synced}' \subseteq File \cup {None} BY <1>1
  <2> QED BY <1>t, <1>1, <1>2, <2>2, <2>3, <2>4, <2>5, <2>6, OffTypes DEF TypeOK
<1>5. TimeInv' BY <1>1 DEF TimeInv
<1>6. SaveInv' BY <1>1 DEF SaveInv
<1>7. CountInv'
  <2>1. SUFFICES ASSUME Calm', ~reset'
                 PROVE  /\ \A u \in Updaters : /\ inner'[u] = Saved(u)
                                               /\ f = None => Saved(u) = 0
                                               /\ f # None => f.text[u] = Saved(u)
                        /\ f # None => f.parses
    <3>1. \A u \in Updaters : asked'[u] = Saved(u) BY <1>1
    <3>2. \A u \in Updaters : Saved(u)' = asked'[u] BY <1>1, Constants DEF Saved
    <3> QED BY <1>1, <3>1, <3>2 DEF CountInv
  <2>2. Calm /\ ~reset /\ f = file /\ ~spoilt /\ ~missed' BY <1>1, <2>1 DEF Calm
  <2>3. /\ \A u \in Updaters : /\ file = None => Saved(u) = 0
                               /\ file # None => file.text[u] = Saved(u)
        /\ file # None => file.parses
    BY <1>t, <2>2 DEF CountInv
  <2> QED BY <1>2, <2>2, <2>3, Constants
<1>8. GotInv' BY <1>1, OffTypes DEF GotInv
<1>9. AgreeInv' BY <1>1, <1>2, OffTypes DEF AgreeInv
<1> QED BY <1>4, <1>5, <1>6, <1>7, <1>8, <1>9 DEF IInv

LEMMA CrashKeeps == ASSUME IInv, Kill \/ PowerLoss PROVE IInv'
<1>t. /\ file \in File \cup {None} /\ synced \in File \cup {None}
      /\ (file # None => file.mtime <= clock) /\ (synced # None => synced.mtime <= clock)
  BY DEF IInv, TypeOK, TimeInv
<1>1. CASE Kill
  <2>1. Restart(file) /\ synced' = synced BY <1>1 DEF Kill
  <2> QED BY <1>t, <2>1, RestartKeeps
<1>2. CASE PowerLoss
  <2>1. PICK f \in Survivors : Restart(f) /\ synced' = f BY <1>2 DEF PowerLoss
  <2>2. f \in File \cup {None} /\ (f # None => f.mtime <= clock)
    <3>1. CASE f = file \/ f = synced BY <1>t, <3>1
    <3>2. CASE ~(f = file \/ f = synced)
      <4>1. file # None /\ f = [file EXCEPT !.text = Default, !.parses = FALSE]
        BY <3>2 DEF Survivors
      <4>2. f \in File /\ f.mtime = file.mtime BY <1>t, <4>1, Constants DEF File
      <4> QED BY <1>t, <4>1, <4>2
    <3> QED BY <3>1, <3>2
  <2> QED BY <2>1, <2>2, RestartKeeps
<1> QED BY <1>1, <1>2

------------------------------------------------------------------------------
LEMMA Inductive == IInv /\ [Next]_vars => IInv'
<1> SUFFICES ASSUME IInv, [Next]_vars PROVE IInv' OBVIOUS
<1>1. ASSUME NEW u \in Updaters, UpdateMutate(u) PROVE IInv' BY <1>1, MutateKeeps
<1>2. CASE SaveWrite \/ SaveRename \/ SaveFails BY <1>2, SaveKeeps
<1>3. ASSUME NEW r \in Reloaders, ReloadRead(r) \/ ReloadFails(r) \/ ReloadSet(r) PROVE IInv'
  BY <1>3, ReadKeeps, SetKeeps
<1>4. CASE WatchStart \/ WatchPoll \/ ReloadAsked BY <1>4, WatchKeeps
<1>5. ASSUME NEW b \in BOOLEAN, Edit(b) PROVE IInv' BY <1>5, EditKeeps
<1>6. CASE Flush \/ Kill \/ PowerLoss BY <1>6, FlushKeeps, CrashKeeps
<1>7. CASE UNCHANGED vars
  BY <1>7 DEF vars, memVars, diskVars, loadVars, faults,
              IInv, TypeOK, TimeInv, SaveInv, CountInv, GotInv, AgreeInv, Calm, Saved
<1> QED BY <1>1, <1>2, <1>3, <1>4, <1>5, <1>6, <1>7 DEF Next, Update, Reload

\* The inductive invariant, for any number of updaters, updates, edits and
\* crashes.
THEOREM Invariance == Spec => []IInv
<1> QED BY Initially, Inductive, PTL DEF Spec

\* Type correctness.
THEOREM TypeCorrect == Spec => []TypeOK
<1>1. IInv => TypeOK BY DEF IInv
<1> QED BY <1>1, Invariance, PTL

\* No update is lost, in memory or on disk, and a kill at any moment loses none
\* that was saved: only a failed save, a reload that overlapped the update, or a
\* restart that does not find or cannot read the file loses one.
THEOREM NoUpdateIsLost == Spec => []UpdatesKept
<1>1. IInv => UpdatesKept
  <2> SUFFICES ASSUME IInv, lock = None, ~failed, ~raced, ~reset, NEW u \in Updaters
               PROVE  inner[u] = asked[u] /\ (asked[u] > 0 => file # None /\ file.text[u] = asked[u])
    BY DEF UpdatesKept
  <2>1. Saved(u) = asked[u] BY Constants DEF Saved
  <2> QED BY <2>1 DEF IInv, CountInv, Calm
<1> QED BY <1>1, Invariance, PTL

\* When the watcher has seen the file and nobody is at work, memory is what the
\* file says, unless a read of it failed after its time was noted.
THEOREM MemoryFollowsFile == Spec => []SettledAgrees
<1>1. IInv => SettledAgrees
  BY Constants DEF IInv, AgreeInv, SettledAgrees, Settled, MTime, Calm
<1> QED BY <1>1, Invariance, PTL
==============================================================================
