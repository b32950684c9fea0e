----------------------------- MODULE ImageProofs -----------------------------
(***************************************************************************)
(* Proofs about the two ways in which a new build reaches a running game:  *)
(* ImageSwap (files beside the game) and Generations (images loaded one    *)
(* after the other), for any number of deploys, crashes, images and inits. *)
(*                                                                         *)
(* Neither Loadable nor NewestIsKept is inductive.  What they need is the  *)
(* division of labour between the two processes: a copy owns the file it   *)
(* writes (CopyInv), a swap under way has a side file to promote           *)
(* (PendingInv), a deploy into the side file began beside a main.dll       *)
(* (SeededInv), and the newest build is in the side file while there is    *)
(* one and in main.dll while there is none (NewestInv).                    *)
(*                                                                         *)
(* OnlyActiveServes is not inductive: it says nothing while a swap is under*)
(* way, nor which image a swap, a park or a rollback will start again.     *)
(* GenIInv adds where the loader keeps its images (LoaderInv) and, for     *)
(* every image that was initialised once at most, which one still has      *)
(* threads, with the handlers that will stop them (ServingInv).            *)
(***************************************************************************)
EXTENDS ImageSwap, Generations, TLAPS

------------------------------------------------------------------------------
(* ImageSwap.                                                              *)

CopyInv ==
    /\ deploy # "idle" => built # 0
    /\ deploy = "copy" => file[dst] = built
    /\ built = 0 => delivered = 0 /\ \A n \in Names : file[n] = NoFile

PendingInv ==
    pc \in {"remove", "aside", "promote", "back"} => file["new"] # NoFile

SeededInv ==
    file["main"] = NoFile /\ (delivered # 0 \/ (deploy # "idle" /\ dst = "new")) =>
        pc \in {"promote", "back"} \/ cut

NewestInv ==
    ~astray =>
        /\ file["new"] # NoFile =>
             file["new"] = IF deploy = "copy" THEN built ELSE delivered
        /\ file["new"] = NoFile /\ delivered # 0 => file["main"] = delivered
        /\ deploy # "idle" /\ dst = "main" => delivered = 0 /\ file["new"] = NoFile

IInv == TypeOK /\ CopyInv /\ PendingInv /\ SeededInv /\ NewestInv

------------------------------------------------------------------------------
LEMMA Constants == MaxDeploys \in Nat /\ MaxCrashes \in Nat /\ NoFile \notin Builds
BY ImageSwapAssumption DEF Builds, NoFile

LEMMA Initially == Init => IInv
<1> SUFFICES ASSUME Init PROVE IInv OBVIOUS
<1>1. \A n \in Names : file[n] = NoFile BY DEF Init
<1>2. file["main"] = NoFile /\ file["new"] = NoFile BY <1>1 DEF Names
<1>3. file \in [Names -> Builds \cup {NoFile}] BY DEF Init
<1>a. built \in 0 .. MaxDeploys /\ delivered \in 0 .. MaxDeploys /\ crashes \in 0 .. MaxCrashes
  BY Constants DEF Init
<1>b. hotkey \in BOOLEAN /\ focus \in BOOLEAN /\ cut \in BOOLEAN /\ astray \in BOOLEAN
  BY DEF Init
<1>4. TypeOK BY <1>3, <1>a, <1>b DEF Init, TypeOK
<1>5. CopyInv BY <1>1 DEF Init, CopyInv
<1>6. PendingInv /\ SeededInv /\ NewestInv
  BY <1>2 DEF Init, PendingInv, SeededInv, NewestInv
<1> QED BY <1>4, <1>5, <1>6 DEF IInv

\* A rename keeps the types; what it does to each of the three files.
LEMMA RenameFiles ==
    ASSUME TypeOK, NEW from \in Names, NEW to \in Names, from # to, from # "new" \/ to = "main",
           to # "new", Rename(from, to)
    PROVE  /\ file' \in [Names -> Builds \cup {NoFile}]
           /\ mapped' \in {"main", "old", NoName}
           /\ file[from] # NoFile
           /\ file'[to] = file[from] /\ file'[from] = NoFile
           /\ \A n \in Names \ {from, to} : file'[n] = file[n]
           /\ ~Written(from) /\ ~Written(to)
<1>1. /\ file[from] # NoFile /\ ~Written(from) /\ ~Written(to)
      /\ file' = [file EXCEPT ![to] = file[from], ![from] = NoFile]
      /\ mapped' = IF mapped = from THEN to ELSE mapped
  BY DEF Rename, CanRename, CanReplace
<1>2. mapped' \in {"main", "old", NoName} BY <1>1 DEF TypeOK, Names
<1>3. file \in [Names -> Builds \cup {NoFile}] BY DEF TypeOK
<1> HIDE DEF TypeOK, Rename
<1>4. file' \in [Names -> Builds \cup {NoFile}] BY <1>1, <1>3
<1>5. file'[to] = file[from] /\ file'[from] = NoFile BY <1>1, <1>3
<1>6. \A n \in Names \ {from, to} : file'[n] = file[n] BY <1>1, <1>3
<1> QED BY <1>1, <1>2, <1>4, <1>5, <1>6

\* Removing main-old.dll touches nothing else.
LEMMA RemoveFiles ==
    ASSUME TypeOK, TryRemoveOld
    PROVE  /\ file' \in [Names -> Builds \cup {NoFile}]
           /\ mapped' \in {"main", "old", NoName}
           /\ file'["main"] = file["main"] /\ file'["new"] = file["new"]
           /\ file'["old"] \in {file["old"], NoFile}
BY DEF TypeOK, TryRemoveOld, Names

------------------------------------------------------------------------------
(* The deploy tool's steps.                                                *)

LEMMA DeploySteps == IInv /\ (DeployChooses \/ Deploy) => IInv'
<1> SUFFICES ASSUME IInv, DeployChooses \/ Deploy PROVE IInv' OBVIOUS
<1> USE Constants DEF NoFile
<1>1. CASE DeployChooses
  <2>1. TypeOK' BY <1>1 DEF IInv, TypeOK, DeployChooses, gameVars, reloadVars
  <2>2. CopyInv' /\ PendingInv' /\ SeededInv'
    BY <1>1 DEF IInv, TypeOK, CopyInv, PendingInv, SeededInv, DeployChooses, gameVars, Names
  <2>e. astray' = (astray \/ (file["main"] = 0 /\ built > 0)) BY <1>1 DEF DeployChooses
  <2>f. ~astray' => ~astray /\ (file["main"] = 0 => ~(built > 0)) BY ONLY <2>e, Zenon
  <2>a. ~astray' => ~astray /\ (file["main"] = 0 => built = 0)
    <3>1. ~(built > 0) => built = 0 BY DEF IInv, TypeOK
    <3> QED BY ONLY <3>1, <2>f, Zenon
  <2>b. built = 0 => delivered = 0 /\ file["new"] = 0 BY DEF IInv, CopyInv, Names
  <2>c. dst' = "main" => file["main"] = 0 BY <1>1 DEF DeployChooses
  <2>d. file' = file /\ delivered' = delivered /\ deploy = "idle" /\ deploy' = "open"
    BY <1>1 DEF DeployChooses
  <2>3. NewestInv' BY <2>a, <2>b, <2>c, <2>d DEF IInv, NewestInv
  <2> QED BY <2>1, <2>2, <2>3 DEF IInv
<1>2. CASE DeployOpens
  <2>1. built \in Builds /\ dst \in Names
    BY <1>2 DEF DeployOpens, IInv, TypeOK, CopyInv, Builds, Names
  <2>2. /\ file' \in [Names -> Builds \cup {0}] /\ file'[dst] = built
        /\ \A n \in Names \ {dst} : file'[n] = file[n]
    BY <1>2, <2>1 DEF DeployOpens, IInv, TypeOK
  <2>3. TypeOK' BY <1>2, <2>2 DEF IInv, TypeOK, DeployOpens, gameVars, reloadVars
  <2>4. CopyInv' /\ PendingInv' /\ SeededInv' /\ NewestInv'
    BY <1>2, <2>1, <2>2 DEF IInv, TypeOK, CopyInv, PendingInv, SeededInv, NewestInv,
                            DeployOpens, gameVars, Names
  <2> QED BY <2>3, <2>4 DEF IInv
<1>3. CASE DeployFails
  <2>1. dst = "main" BY <1>3 DEF DeployFails, IInv, TypeOK, NoName
  <2>2. TypeOK' BY <1>3 DEF IInv, TypeOK, DeployFails, gameVars, reloadVars
  <2>3. CopyInv' /\ PendingInv' /\ SeededInv' /\ NewestInv'
    BY <1>3, <2>1 DEF IInv, CopyInv, PendingInv, SeededInv, NewestInv, DeployFails, gameVars
  <2> QED BY <2>2, <2>3 DEF IInv
<1>4. CASE DeployEnds
  <2>1. TypeOK' BY <1>4 DEF IInv, TypeOK, DeployEnds, gameVars, reloadVars
  <2>2. CopyInv' /\ PendingInv' /\ SeededInv' /\ NewestInv'
    BY <1>4 DEF IInv, TypeOK, CopyInv, PendingInv, SeededInv, NewestInv, DeployEnds, gameVars
  <2> QED BY <2>1, <2>2 DEF IInv
<1> QED BY <1>1, <1>2, <1>3, <1>4 DEF Deploy

------------------------------------------------------------------------------
(* The swap's steps.                                                       *)

\* Steps of the image that leave the files as they are and begin no swap.
LEMMA StillSteps ==
    ASSUME IInv, TypeOK', UNCHANGED <<file, deployVars, astray>>,
           pc' \in {"remove", "aside", "promote", "back"} => file["new"] # NoFile,
           file["main"] = NoFile /\ (pc \in {"promote", "back"} \/ cut) =>
               pc' \in {"promote", "back"} \/ cut'
    PROVE  IInv'
BY DEF IInv, CopyInv, PendingInv, SeededInv, NewestInv, deployVars

\* Steps that only remove main-old.dll.
LEMMA RemovingSteps ==
    ASSUME IInv, TryRemoveOld, TypeOK', pc \notin {"promote", "back"},
           UNCHANGED <<deployVars, cut, astray>>,
           pc' \in {"remove", "aside", "promote", "back"} => file["new"] # NoFile
    PROVE  IInv'
<1>1. file'["main"] = file["main"] /\ file'["new"] = file["new"]
      /\ file'["old"] \in {file["old"], NoFile}
  BY RemoveFiles DEF IInv
<1> QED BY <1>1 DEF IInv, TypeOK, CopyInv, PendingInv, SeededInv, NewestInv, deployVars, Names

LEMMA SwapSteps == IInv /\ (Aside \/ Promote \/ RollBack) => IInv'
<1> SUFFICES ASSUME IInv, Aside \/ Promote \/ RollBack PROVE IInv' OBVIOUS
<1> USE Constants DEF NoFile, Names
<1>1. CASE Aside
  <2>1. /\ file' \in [Names -> Builds \cup {0}] /\ mapped' \in {"main", "old", NoName}
        /\ file'["new"] = file["new"] /\ file'["main"] = 0 /\ file'["old"] = file["main"]
        /\ file["main"] # 0 /\ ~Written("main") /\ ~Written("old")
    BY <1>1, RenameFiles DEF Aside, IInv
  <2>2. TypeOK' BY <1>1, <2>1 DEF IInv, TypeOK, Aside, reloadVars, deployVars
  <2>3. CopyInv' /\ PendingInv' /\ SeededInv' /\ NewestInv'
    BY <1>1, <2>1 DEF IInv, TypeOK, CopyInv, PendingInv, SeededInv, NewestInv,
                      Aside, deployVars, Written
  <2> QED BY <2>2, <2>3 DEF IInv
<1>2. CASE Promote
  <2>1. /\ file' \in [Names -> Builds \cup {0}] /\ mapped' \in {"main", "old", NoName}
        /\ file'["main"] = file["new"] /\ file'["new"] = 0 /\ file'["old"] = file["old"]
        /\ file["new"] # 0 /\ ~Written("main") /\ ~Written("new")
    BY <1>2, RenameFiles DEF Promote, IInv
  <2>2. TypeOK' BY <1>2, <2>1 DEF IInv, TypeOK, Promote, reloadVars, deployVars
  <2>3. CopyInv' /\ PendingInv' /\ SeededInv' /\ NewestInv'
    BY <1>2, <2>1 DEF IInv, TypeOK, CopyInv, PendingInv, SeededInv, NewestInv,
                      Promote, deployVars, Written
  <2> QED BY <2>2, <2>3 DEF IInv
<1>3. CASE RollBack
  <2>1. /\ file' \in [Names -> Builds \cup {0}] /\ mapped' \in {"main", "old", NoName}
        /\ file'["main"] = file["old"] /\ file'["old"] = 0 /\ file'["new"] = file["new"]
        /\ file["old"] # 0 /\ ~Written("main") /\ ~Written("old")
    BY <1>3, RenameFiles DEF RollBack, IInv
  <2>2. TypeOK' BY <1>3, <2>1 DEF IInv, TypeOK, RollBack, reloadVars, deployVars
  <2>3. CopyInv' /\ PendingInv' /\ SeededInv' /\ NewestInv'
    BY <1>3, <2>1 DEF IInv, TypeOK, CopyInv, PendingInv, SeededInv, NewestInv,
                      RollBack, deployVars, Written
  <2> QED BY <2>2, <2>3 DEF IInv
<1> QED BY <1>1, <1>2, <1>3

------------------------------------------------------------------------------
(* The invariant.                                                          *)

LEMMA Inductive == IInv /\ [Next]_vars => IInv'
<1> SUFFICES ASSUME IInv, [Next]_vars PROVE IInv' OBVIOUS
<1>t. TypeOK BY DEF IInv
<1> USE DEF TypeOK, gameVars, reloadVars
<1>1. CASE DeployChooses \/ Deploy BY <1>1, DeploySteps
<1>2. CASE Aside \/ Promote \/ RollBack BY <1>2, SwapSteps
<1>3. CASE Load
  <2>a. file["main"] \in Builds \cup {NoFile} BY <1>t DEF Names
  <2>1. TypeOK' BY <1>t, <1>3, <2>a DEF Load, deployVars
  <2> QED BY <1>3, <2>1, StillSteps DEF Load, deployVars
<1>4. CASE Cleanup
  <2>1. TypeOK' BY <1>t, <1>4, RemoveFiles DEF Cleanup, deployVars
  <2> QED BY <1>4, <2>1, RemovingSteps DEF Cleanup
<1>5. CASE Check
  <2>1. TypeOK' BY <1>t, <1>5 DEF Check, deployVars
  <2> QED BY <1>5, <2>1, StillSteps DEF Check
<1>6. CASE RemoveOld
  <2>1. TypeOK' BY <1>t, <1>6, RemoveFiles DEF RemoveOld, deployVars
  <2>2. file["new"] # NoFile BY <1>6 DEF RemoveOld, IInv, PendingInv
  <2> QED BY <1>6, <2>1, <2>2, RemovingSteps DEF RemoveOld
<1>7. CASE SwapFails
  <2>1. TypeOK' BY <1>t, <1>7 DEF SwapFails, AsideFails, PromoteFails, RollBackFails, deployVars
  <2>2. pc \in {"aside", "promote", "back"} => file["new"] # NoFile BY DEF IInv, PendingInv
  <2> QED BY <1>7, <2>1, <2>2, StillSteps DEF SwapFails, AsideFails, PromoteFails, RollBackFails
<1>8. CASE Start \/ Unmap
  <2>1. TypeOK' BY <1>t, <1>8, Constants DEF Start, Unmap, deployVars, NoFile
  <2> QED BY <1>8, <2>1, StillSteps DEF Start, Unmap
<1>9. CASE PlayerReloads \/ HotkeyReloads
  <2>1. TypeOK' BY <1>t, <1>9 DEF PlayerReloads, HotkeyReloads, Uninstall, deployVars
  <2> QED BY <1>9, <2>1, StillSteps DEF PlayerReloads, HotkeyReloads, Uninstall
<1>10. CASE WatcherSends \/ FocusChanges
  <2>a. hotkey' \in BOOLEAN /\ focus' \in BOOLEAN
    BY <1>t, <1>10 DEF WatcherSends, FocusChanges
  <2>1. TypeOK' BY <1>t, <1>10, <2>a DEF WatcherSends, FocusChanges, deployVars
  <2>2. pc \in {"remove", "aside", "promote", "back"} => file["new"] # NoFile
    BY DEF IInv, PendingInv
  <2> QED BY <1>10, <2>1, <2>2, StillSteps DEF WatcherSends, FocusChanges
<1>11. CASE Crash
  <2>a. crashes' \in 0 .. MaxCrashes BY <1>t, <1>11, Constants DEF Crash
  <2>b. cut' \in BOOLEAN BY <1>11 DEF Crash
  <2>1. TypeOK' BY <1>t, <1>11, <2>a, <2>b DEF Crash, deployVars
  <2> QED BY <1>11, <2>1, StillSteps DEF Crash
<1>12. CASE UNCHANGED vars
  BY <1>12 DEF IInv, CopyInv, PendingInv, SeededInv, NewestInv, vars, deployVars
<1> QED BY <1>1, <1>2, <1>3, <1>4, <1>5, <1>6, <1>7, <1>8, <1>9, <1>10, <1>11, <1>12
        DEF Next, Initialise, Finalise

\* The inductive invariant, for every MaxDeploys and MaxCrashes.
THEOREM Invariance == Spec => []IInv
<1> QED BY Initially, Inductive, PTL DEF Spec

\* Type correctness: in particular a loaded image's file is main.dll or
\* main-old.dll and never the side file.
THEOREM TypeCorrect == Spec => []TypeOK
<1>1. IInv => TypeOK BY DEF IInv
<1> QED BY <1>1, Invariance, PTL

\* main.dll is missing only between the two renames of a swap, or after one
\* that was killed or could not be rolled back.
THEOREM AlwaysLoadable == Spec => []Loadable
<1>1. IInv => Loadable BY DEF IInv, SeededInv, Loadable, NoFile
<1> QED BY <1>1, Invariance, PTL

\* However deploys and swaps interleave and fail, the newest build is in
\* main.dll or main-new.dll (but for a deploy that found no main.dll).
THEOREM NewestSurvives == Spec => []NewestIsKept
<1>1. IInv => NewestIsKept BY DEF IInv, NewestInv, NewestIsKept, NoFile
<1> QED BY <1>1, Invariance, PTL

------------------------------------------------------------------------------
(* Generations.                                                            *)

\* The loader has one image in hand, where it says it is, and has started it.
LoaderInv ==
    /\ place = "none" => once = {} /\ inits = 0 /\ active = None
    /\ place = "running" => active \in once
    /\ place # "running" => active = None
    /\ place \in {"stop", "load"} => old \in once /\ fresh \in Images /\ inits < MaxInits
    /\ place = "parked" => dormant \in once

\* The image whose threads run: the active one, and the one a swap stops first.
Serving == IF place = "stop" THEN old ELSE active

ServingInv ==
    /\ \A g \in Images \ once : threads[g] = 0
    /\ \A g \in Images \ rearmed :
         /\ g = Serving => threads[g] = (IF g \in deaf THEN 0 ELSE 1) /\ g \in handlers
         /\ g # Serving => threads[g] = 0

GenIInv == GenTypeOK /\ LoaderInv /\ ServingInv

------------------------------------------------------------------------------
(* The image's own part.                                                   *)

\* unityforge_init of an image that is not running, by an idle loader: the image
\* gets its threads and, unless it had them before, its handlers.
LEMMA InitKeepsTypes ==
    ASSUME GenIInv, NEW g \in Images, inits < MaxInits, InitOf(g)
    PROVE  /\ once' \subseteq Images /\ handlers' \subseteq once' /\ rearmed' \subseteq once'
           /\ once' = once \cup {g} /\ deaf' \subseteq once'
           /\ threads' \in [Images -> 0 .. inits']
           /\ inits' \in 0 .. MaxInits
<1>1. inits' = inits + 1 /\ inits \in Nat /\ inits' \in 0 .. MaxInits
  BY GenerationsAssumption DEF InitOf, GenIInv, GenTypeOK
<1>2. threads' \in [Images -> 0 .. inits']
  BY <1>1 DEF InitOf, GenIInv, GenTypeOK
<1> QED BY <1>1, <1>2 DEF InitOf, GenIInv, GenTypeOK

\* What InitOf leaves of ServingInv when no image was serving before it.
LEMMA InitServes ==
    ASSUME GenIInv, NEW g \in Images, InitOf(g), g \in once \/ Serving \notin Images,
           \A h \in Images \ rearmed : h \notin once \/ threads[h] = 0,
           Serving' = g
    PROVE  ServingInv'
<1>1. threads \in [Images -> 0 .. inits] /\ rearmed \subseteq once
  BY DEF GenIInv, GenTypeOK
<1>2. ASSUME NEW h \in Images, h \notin once' PROVE threads'[h] = 0
  BY <1>1, <1>2 DEF InitOf, GenIInv, ServingInv
<1>3. ASSUME NEW h \in Images, h \notin rearmed', h = g
      PROVE  threads'[h] = (IF h \in deaf' THEN 0 ELSE 1) /\ h \in handlers'
  BY <1>1, <1>3 DEF InitOf, GenIInv, ServingInv
<1>4. ASSUME NEW h \in Images, h \notin rearmed', h # g PROVE threads'[h] = 0
  BY <1>1, <1>4 DEF InitOf, GenIInv, ServingInv
<1> QED BY <1>2, <1>3, <1>4 DEF ServingInv

\* unityforge_shutdown of the image that serves: an image that was initialised
\* once has its handlers, and they stop its threads.
LEMMA ShutdownStops ==
    ASSUME GenIInv, Serving \in Images, ShutdownOf(Serving), Serving' \notin Images
    PROVE  /\ threads' \in [Images -> 0 .. inits]
           /\ handlers' \subseteq once
           /\ ServingInv'
<1>1. threads \in [Images -> 0 .. inits] /\ handlers \subseteq once /\ inits \in Nat
  BY DEF GenIInv, GenTypeOK
<1>2. threads' \in [Images -> 0 .. inits] /\ handlers' \subseteq once
  BY <1>1 DEF ShutdownOf
<1>3. ASSUME NEW h \in Images \ once PROVE threads'[h] = 0
  BY <1>1, <1>3 DEF ShutdownOf, GenIInv, ServingInv
<1>4. ASSUME NEW h \in Images \ rearmed PROVE threads'[h] = 0
  BY <1>1, <1>4 DEF ShutdownOf, GenIInv, ServingInv
<1> QED BY <1>2, <1>3, <1>4 DEF ShutdownOf, ServingInv

------------------------------------------------------------------------------
(* The invariant.                                                          *)

LEMMA GenInitially == GenInit => GenIInv
<1> SUFFICES ASSUME GenInit PROVE GenIInv OBVIOUS
<1>1. None \notin Images BY GenerationsAssumption DEF Images
<1>2. 0 \in Images BY GenerationsAssumption DEF Images
<1>3. GenTypeOK BY <1>2, GenerationsAssumption DEF GenInit, GenTypeOK
<1>4. LoaderInv BY DEF GenInit, LoaderInv
<1>5. ServingInv BY <1>1 DEF GenInit, ServingInv, Serving
<1> QED BY <1>3, <1>4, <1>5 DEF GenIInv

\* Every step of the loader keeps GenIInv.
LEMMA GenInductive == GenIInv /\ [GenNext]_genVars => GenIInv'
<1> SUFFICES ASSUME GenIInv, [GenNext]_genVars PROVE GenIInv' OBVIOUS
<1>n. None \notin Images /\ 0 \in Images BY GenerationsAssumption DEF Images
<1>t. GenTypeOK /\ LoaderInv /\ ServingInv BY DEF GenIInv
<1>1. ASSUME NEW g \in Images, Stage(g) PROVE GenIInv'
  <2>1. GenTypeOK' BY <1>t, <1>1 DEF GenTypeOK, Stage, loaderVars, imageVars
  <2>2. LoaderInv' /\ ServingInv'
    BY <1>t, <1>1 DEF LoaderInv, ServingInv, Serving, Stage, loaderVars, imageVars
  <2> QED BY <2>1, <2>2 DEF GenIInv
<1>2. ASSUME NEW g \in Images, SwapBegins(g) PROVE GenIInv'
  <2>1. GenTypeOK' BY <1>t, <1>2 DEF GenTypeOK, SwapBegins, diskVars, imageVars
  <2>2. LoaderInv' BY <1>t, <1>2 DEF LoaderInv, SwapBegins, imageVars
  <2>3. ServingInv' BY <1>t, <1>2 DEF LoaderInv, ServingInv, Serving, SwapBegins, imageVars
  <2> QED BY <2>1, <2>2, <2>3 DEF GenIInv
<1>3. CASE LoadInitial
  <2>1. InitOf(0) /\ inits < MaxInits BY <1>3 DEF LoadInitial
  <2>2. GenTypeOK' BY <1>t, <1>n, <1>3, <2>1, InitKeepsTypes DEF GenTypeOK, LoadInitial, diskVars
  <2>3. LoaderInv' BY <1>n, <1>3, <2>1, InitKeepsTypes DEF LoaderInv, LoadInitial
  <2>4. Serving \notin Images /\ once = {} BY <1>t, <1>n, <1>3 DEF LoaderInv, Serving, LoadInitial
  <2>5. Serving' = 0 BY <1>3 DEF Serving, LoadInitial
  <2>6. ServingInv' BY <1>n, <2>1, <2>4, <2>5, InitServes
  <2> QED BY <2>2, <2>3, <2>6 DEF GenIInv
<1>4. CASE SwapStops
  <2>1. ShutdownOf(Serving) /\ Serving \in Images
    BY <1>t, <1>4 DEF SwapStops, Serving, LoaderInv, GenTypeOK
  <2>2. Serving' \notin Images BY <1>t, <1>n, <1>4 DEF SwapStops, Serving, LoaderInv
  <2>3. ServingInv' BY <2>1, <2>2, ShutdownStops
  <2>4. GenTypeOK' BY <1>t, <1>4, <2>1, <2>2, ShutdownStops DEF GenTypeOK, SwapStops, ShutdownOf, diskVars
  <2>5. LoaderInv' BY <1>t, <1>4 DEF LoaderInv, SwapStops, ShutdownOf
  <2> QED BY <2>3, <2>4, <2>5 DEF GenIInv
<1>5. CASE SwapLoads
  <2>1. InitOf(fresh) /\ inits < MaxInits /\ fresh \in Images
    BY <1>t, <1>5 DEF SwapLoads, LoaderInv
  <2>2. Serving \notin Images BY <1>t, <1>n, <1>5 DEF SwapLoads, Serving, LoaderInv
  <2>3. Serving' = fresh BY <1>5 DEF SwapLoads, Serving
  <2>4. ServingInv' BY <1>t, <2>1, <2>2, <2>3, InitServes DEF ServingInv
  <2>5. GenTypeOK' BY <1>t, <1>5, <2>1, InitKeepsTypes DEF GenTypeOK, SwapLoads, diskVars
  <2>6. LoaderInv' BY <1>5, <2>1, InitKeepsTypes DEF LoaderInv, SwapLoads
  <2> QED BY <2>4, <2>5, <2>6 DEF GenIInv
<1>6. CASE SwapRollsBack
  <2>1. InitOf(old) /\ inits < MaxInits /\ old \in Images
    BY <1>t, <1>6 DEF SwapRollsBack, LoaderInv, GenTypeOK
  <2>2. Serving \notin Images BY <1>t, <1>n, <1>6 DEF SwapRollsBack, Serving, LoaderInv
  <2>3. Serving' = old BY <1>6 DEF SwapRollsBack, Serving
  <2>4. ServingInv' BY <1>t, <2>1, <2>2, <2>3, InitServes DEF ServingInv
  <2>5. GenTypeOK' BY <1>t, <1>6, <2>1, InitKeepsTypes DEF GenTypeOK, SwapRollsBack, diskVars
  <2>6. LoaderInv' BY <1>6, <2>1, InitKeepsTypes DEF LoaderInv, SwapRollsBack
  <2> QED BY <2>4, <2>5, <2>6 DEF GenIInv
<1>7. CASE Unload
  <2>1. ShutdownOf(Serving) /\ Serving \in Images
    BY <1>t, <1>7 DEF Unload, Serving, LoaderInv, GenTypeOK
  <2>2. Serving' \notin Images BY <1>n, <1>7 DEF Unload, Serving
  <2>3. ServingInv' BY <2>1, <2>2, ShutdownStops
  <2>4. GenTypeOK' BY <1>t, <1>7, <2>1, <2>2, ShutdownStops DEF GenTypeOK, Unload, ShutdownOf, diskVars
  <2>5. LoaderInv' BY <1>t, <1>7 DEF LoaderInv, Unload, ShutdownOf
  <2> QED BY <2>3, <2>4, <2>5 DEF GenIInv
<1>8. CASE Reload
  <2>1. InitOf(dormant) /\ inits < MaxInits /\ dormant \in Images
    BY <1>t, <1>8 DEF Reload, LoaderInv, GenTypeOK
  <2>2. Serving \notin Images BY <1>t, <1>n, <1>8 DEF Reload, Serving, LoaderInv
  <2>3. Serving' = dormant BY <1>8 DEF Reload, Serving
  <2>4. ServingInv' BY <1>t, <2>1, <2>2, <2>3, InitServes DEF ServingInv
  <2>5. GenTypeOK' BY <1>t, <1>8, <2>1, InitKeepsTypes DEF GenTypeOK, Reload, diskVars
  <2>6. LoaderInv' BY <1>8, <2>1, InitKeepsTypes DEF LoaderInv, Reload
  <2> QED BY <2>4, <2>5, <2>6 DEF GenIInv
<1>9. CASE ShutdownFinal
  <2>1. ShutdownOf(Serving) /\ Serving \in Images
    BY <1>t, <1>9 DEF ShutdownFinal, Serving, LoaderInv, GenTypeOK
  <2>2. Serving' \notin Images BY <1>n, <1>9 DEF ShutdownFinal, Serving
  <2>3. ServingInv' BY <2>1, <2>2, ShutdownStops
  <2>4. GenTypeOK' BY <1>t, <1>9, <2>1, <2>2, ShutdownStops DEF GenTypeOK, ShutdownFinal, ShutdownOf, diskVars
  <2>5. LoaderInv' BY <1>t, <1>9 DEF LoaderInv, ShutdownFinal, ShutdownOf
  <2> QED BY <2>3, <2>4, <2>5 DEF GenIInv
<1>10. CASE RollbackFails
  <2>1. GenTypeOK' BY <1>t, <1>10 DEF GenTypeOK, RollbackFails, diskVars, imageVars
  <2>2. LoaderInv' BY <1>t, <1>10 DEF LoaderInv, RollbackFails, imageVars
  <2>3. ServingInv' BY <1>t, <1>10 DEF LoaderInv, ServingInv, Serving, RollbackFails, imageVars
  <2> QED BY <2>1, <2>2, <2>3 DEF GenIInv
<1>11. CASE LoadFails \/ UNCHANGED genVars
  <2>1. UNCHANGED genVars BY <1>11 DEF LoadFails
  <2> QED BY <1>t, <2>1 DEF GenIInv, GenTypeOK, LoaderInv, ServingInv, Serving,
                            genVars, diskVars, loaderVars, imageVars
<1> QED BY <1>1, <1>2, <1>3, <1>4, <1>5, <1>6, <1>7, <1>8, <1>9, <1>10, <1>11
        DEF GenNext, Swap

\* The inductive invariant, for every MaxGen and MaxInits.
THEOREM GenInvariance == GenSpec => []GenIInv
<1> QED BY GenInitially, GenInductive, PTL DEF GenSpec

\* Type correctness of the loader and of every image's statics
\* (GenerationLoader.cs, unityforge_init and unityforge_shutdown).
THEOREM GenTypeCorrect == GenSpec => []GenTypeOK
<1>1. GenIInv => GenTypeOK BY DEF GenIInv
<1> QED BY <1>1, GenInvariance, PTL

\* Between swaps only the active image has threads: GenerationLoader's swap,
\* rollback, unload and re-init never leave two images serving, except for an
\* image that was initialised again.
THEOREM ActiveServesAlone == GenSpec => []OnlyActiveServes
<1>1. GenIInv => OnlyActiveServes
  BY DEF GenIInv, ServingInv, Serving, OnlyActiveServes
<1> QED BY <1>1, GenInvariance, PTL
==============================================================================
