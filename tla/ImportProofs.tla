---------------------------- MODULE ImportProofs ----------------------------
(***************************************************************************)
(* That an import replaces the game in one step.  The places of the disk   *)
(* are told apart by what the program is doing: the game is at the         *)
(* backup's place only until the next import has put it back, and only a   *)
(* tree that was judged is ever moved to the game's place.                 *)
(***************************************************************************)
EXTENDS Import, TLAPS

DiskInv ==
    /\ disk = [p \in Places \union DOMAIN Folders |-> disk[p]]
    /\ Places \cap DOMAIN Folders = {}

(* The backup is the only game, or there is none; and had, once it is set, *)
(* tells which.                                                            *)
BackupInv ==
    /\ pc \in {"open", "extract", "scrap", "backup", "aside"} => ~Interrupted
    /\ pc \in {"extract", "backup", "aside"} => had = (disk[Game] # Absent)
    /\ pc \in {"aside", "accept"} /\ ~had => disk["previous"] = Absent
    /\ pc = "aside" => disk["previous"] = Absent
    /\ pc = "accept" => disk[Game] = Absent
    /\ pc = "tidy" => disk[Game] # Absent

JudgedInv ==
    pc \in {"backup", "aside", "accept"} =>
        Validates(disk["preparing"], ExeDir(archive.files))

IInv == DiskInv /\ BackupInv /\ JudgedInv

Replaced ==
    Kept' # Kept =>
        /\ pc = "accept"
        /\ Kept' = disk["preparing"]
        /\ Validates(Kept', ExeDir(archive.files))

Idle == {"down", "setup", "chosen", "save", "write", "play", "resave",
         "rewrite", "unsaved", "clean", "restore"}

LEMMA InitInv == Init => IInv
BY ImportAssumption DEF Init, IInv, DiskInv, BackupInv, JudgedInv

(* A step that leaves the disk alone and goes where nothing is claimed.    *)
LEMMA ToIdle ==
    ASSUME IInv, pc' \in Idle, UNCHANGED disk
    PROVE  IInv' /\ Replaced
BY DEF IInv, DiskInv, BackupInv, JudgedInv, Replaced, Kept, Idle

(* Removing the preparation touches nothing that is kept.                  *)
LEMMA RemovesPreparing ==
    ASSUME IInv, NEW done \in Idle, RemoveAll("preparing", done, "setup")
    PROVE  IInv' /\ Replaced
<1>1. PICK t : disk' = [disk EXCEPT !["preparing"] = t]
  BY DEF RemoveAll
<1>2. pc' \in Idle
  BY DEF RemoveAll, Idle
<1>q. QED
  BY <1>1, <1>2 DEF IInv, DiskInv, BackupInv, JudgedInv, Replaced, Kept, Idle, Game, Places

(* Removing the backup does not lose the game: there is one at its place,  *)
(* or no backup to remove.                                                 *)
LEMMA RemovesBackup ==
    ASSUME IInv, ~Interrupted,
           NEW done \in {"aside", "chosen"}, NEW failed \in Idle,
           RemoveAll("previous", done, failed)
    PROVE  /\ DiskInv' /\ Replaced /\ ~Interrupted'
           /\ disk'[Game] = disk[Game]
           /\ disk'["preparing"] = disk["preparing"]
           /\ \/ pc' = done /\ disk'["previous"] = Absent
              \/ pc' = failed
<1>1. \/ disk' = [disk EXCEPT !["previous"] = Absent] /\ pc' = done
      \/ /\ pc' = failed
         /\ \E t : /\ disk' = [disk EXCEPT !["previous"] = t]
                   /\ disk["previous"] = Absent => t = Absent
  BY DEF RemoveAll
<1>q. QED
  BY <1>1 DEF IInv, DiskInv, Interrupted, Replaced, Kept, Game, Places

(* However the program comes to start, it is by Starts.                    *)
LEMMA EveryStart ==
    ASSUME NEW settings \in BOOLEAN, NEW r,
           \/ LaunchRemembered(settings) \/ LaunchAsking(settings)
           \/ LaunchNamed(r, settings) \/ LaunchFound(r, settings)
    PROVE  \E by, chosen : Starts(by, settings, chosen)
BY DEF LaunchRemembered, LaunchAsking, LaunchNamed, LaunchFound

LEMMA StepPreserves == IInv /\ [Next]_vars => IInv' /\ Replaced
<1> SUFFICES ASSUME IInv, [Next]_vars PROVE IInv' /\ Replaced
  OBVIOUS
<1> USE DEF Game
<1>0. ASSUME NEW settings \in BOOLEAN, NEW r,
             \/ LaunchRemembered(settings) \/ LaunchAsking(settings)
             \/ LaunchNamed(r, settings) \/ LaunchFound(r, settings)
      PROVE  IInv' /\ Replaced
  BY <1>0, EveryStart, ToIdle DEF Starts, Idle
<1>1. CASE End \/ Adopt \/ ChangeSetting \/ Truncate \/ Write \/ SaveNothing
  <2>1. pc' \in Idle /\ UNCHANGED disk
    BY <1>1 DEF End, Adopt, ChangeSetting, Truncate, Write, SaveNothing, Idle
  <2>q. QED
    BY <2>1, ToIdle
<1>2. ASSUME NEW f \in DOMAIN Folders, FolderGoes(f) PROVE IInv' /\ Replaced
  <2>1. f \notin Places
    BY <1>2 DEF IInv, DiskInv
  <2>q. QED
    BY <1>2, <2>1 DEF FolderGoes, IInv, DiskInv, BackupInv, JudgedInv, Replaced, Kept, Places
<1>3. ASSUME NEW f \in DOMAIN Folders, NEW dir, ChooseFolder(f, dir)
      PROVE  IInv' /\ Replaced
  BY <1>3, ToIdle DEF ChooseFolder, Idle
<1>4. ASSUME NEW a \in Archives, ChooseArchive(a) PROVE IInv' /\ Replaced
  BY <1>4, ToIdle DEF ChooseArchive, Idle
<1>5. CASE Clean
  BY <1>5, RemovesPreparing DEF Clean, Idle
<1>6. CASE RestoreBackup
  <2>1. CASE disk' = Moved("previous", Game) /\ Interrupted /\ pc' = "open"
    BY <1>6, <2>1 DEF IInv, DiskInv, BackupInv, JudgedInv, Replaced, Kept, Interrupted, Moved, Places
  <2>2. CASE UNCHANGED disk /\ ~Interrupted /\ pc' = "open"
    BY <1>6, <2>2 DEF IInv, DiskInv, BackupInv, JudgedInv, Replaced, Kept, Interrupted
  <2>3. CASE UNCHANGED disk /\ pc' = "setup"
    BY <2>3, ToIdle DEF Idle
  <2>q. QED
    BY <1>6, <2>1, <2>2, <2>3 DEF RestoreBackup
<1>7. CASE OpenArchive
  <2>1. CASE UNCHANGED disk
    BY <1>7, <2>1 DEF OpenArchive, IInv, DiskInv, BackupInv, JudgedInv, Replaced, Kept, Interrupted
  <2>2. CASE disk' = [disk EXCEPT !["preparing"] = Restrict(Packed(archive.files), {})]
             /\ pc' = "extract"
    BY <1>7, <2>2 DEF OpenArchive, IInv, DiskInv, BackupInv, JudgedInv, Replaced, Kept, Interrupted, Places
  <2>q. QED
    BY <1>7, <2>1, <2>2 DEF OpenArchive
<1>8. CASE ExtractFile
  <2>1. CASE pc' = "scrap" /\ UNCHANGED disk
    BY <1>8, <2>1 DEF ExtractFile, IInv, DiskInv, BackupInv, JudgedInv, Replaced, Kept, Interrupted
  <2>2. CASE pc' = pc /\ \E t : disk' = [disk EXCEPT !["preparing"] = t]
    BY <1>8, <2>2 DEF ExtractFile, IInv, DiskInv, BackupInv, JudgedInv, Replaced, Kept, Interrupted, Places
  <2>3. ASSUME NEW content, Writes(content)
        PROVE  pc' = pc /\ \E t : disk' = [disk EXCEPT !["preparing"] = t]
    <3>1. PICK c \in {content} \union (IF ClosesMayFail THEN {Lost} ELSE {}) :
             disk' = [disk EXCEPT !["preparing"] =
                        [n \in DOMAIN @ \union {File.name} |->
                            IF n = File.name THEN c ELSE @[n]]]
      BY <2>3 DEF Writes
    <3>q. QED
      BY <2>3, <3>1 DEF Writes
  <2>q. QED
    BY <1>8, <2>1, <2>2, <2>3 DEF ExtractFile
<1>9. CASE JudgePrepared
  BY <1>9 DEF JudgePrepared, Acceptable, IInv, DiskInv, BackupInv, JudgedInv, Replaced, Kept, Interrupted
<1>10. CASE Scrap
  BY <1>10, RemovesPreparing DEF Scrap, Idle
<1>11. CASE DropBackup
  <2>1. RemoveAll("previous", "aside", "setup") /\ pc = "backup" /\ ~Interrupted
    BY <1>11 DEF DropBackup, IInv, BackupInv
  <2>2. UNCHANGED <<had, archive>>
    BY <2>1 DEF RemoveAll, extractVars
  <2>q. QED
    BY <2>1, <2>2, RemovesBackup DEF IInv, BackupInv, JudgedInv, Idle, Interrupted
<1>12. CASE StepAside
  <2>1. CASE had /\ disk' = Moved(Game, "previous") /\ pc' = "accept"
    BY <1>12, <2>1 DEF StepAside, IInv, DiskInv, BackupInv, JudgedInv, Replaced, Kept, Interrupted,
       Moved, Places, extractVars
  <2>2. CASE ~had /\ UNCHANGED disk /\ pc' = "accept"
    <3>1. disk[Game] = Absent /\ disk["previous"] = Absent
      BY <1>12, <2>2 DEF StepAside, IInv, BackupInv
    <3>2. UNCHANGED <<archive, had>>
      BY <1>12 DEF StepAside, extractVars
    <3>3. BackupInv'
      BY <2>2, <3>1, <3>2 DEF BackupInv
    <3>4. JudgedInv'
      BY <1>12, <2>2, <3>2 DEF StepAside, IInv, JudgedInv
    <3>q. QED
      BY <2>2, <3>3, <3>4 DEF IInv, DiskInv, Replaced, Kept
  <2>3. CASE UNCHANGED disk /\ pc' = "setup"
    BY <2>3, ToIdle DEF Idle
  <2>q. QED
    BY <1>12, <2>1, <2>2, <2>3 DEF StepAside
<1>13. CASE Accept
  <2>1. CASE disk' = Moved("preparing", Game) /\ pc' = IF had THEN "tidy" ELSE "chosen"
    <3>1. pc = "accept" /\ Validates(disk["preparing"], ExeDir(archive.files))
      BY <1>13 DEF Accept, IInv, JudgedInv
    <3>2. disk["preparing"] # Absent
      BY <3>1 DEF Validates
    <3>3. disk'[Game] = disk["preparing"] /\ disk'["previous"] = disk["previous"] /\ DiskInv'
      BY <2>1 DEF Moved, IInv, DiskInv, Places
    <3>4. Kept' = disk["preparing"]
      BY <3>2, <3>3 DEF Kept
    <3>5. BackupInv' /\ JudgedInv'
      BY <2>1, <3>2, <3>3 DEF BackupInv, JudgedInv
    <3>q. QED
      BY <3>1, <3>3, <3>4, <3>5 DEF IInv, Replaced
  <2>2. CASE had /\ disk' = Moved("previous", Game) /\ pc' = "setup"
    <3>1. disk[Game] = Absent
      BY <1>13 DEF Accept, IInv, BackupInv
    <3>q. QED
      BY <2>2, <3>1 DEF IInv, DiskInv, BackupInv, JudgedInv, Replaced, Kept, Moved, Places
  <2>3. CASE UNCHANGED disk /\ pc' = "setup"
    BY <2>3, ToIdle DEF Idle
  <2>q. QED
    BY <1>13, <2>1, <2>2, <2>3 DEF Accept
<1>14. CASE Tidy
  <2>1. RemoveAll("previous", "chosen", "chosen") /\ ~Interrupted
    BY <1>14 DEF Tidy, IInv, BackupInv, Interrupted
  <2>q. QED
    BY <2>1, RemovesBackup DEF IInv, BackupInv, JudgedInv, Idle
<1>15. CASE UNCHANGED vars
  BY <1>15 DEF vars, IInv, DiskInv, BackupInv, JudgedInv, Replaced, Kept, Interrupted
<1>q. QED
  BY <1>0, <1>1, <1>2, <1>3, <1>4, <1>5, <1>6, <1>7, <1>8, <1>9, <1>10, <1>11, <1>12,
     <1>13, <1>14, <1>15 DEF Next

(* What the program is doing tells which place holds the game, throughout  *)
(* every import, failure and restart (commit_import).                      *)
THEOREM Invariance == Spec => []IInv
<1>1. Init => IInv
  BY InitInv
<1>2. IInv /\ [Next]_vars => IInv'
  BY StepPreserves
<1>q. QED
  BY <1>1, <1>2, PTL DEF Spec

(* The imported game is replaced at once by a tree that was accepted, for  *)
(* any archives and folders, wherever a step fails or the program dies     *)
(* (commit_import, restore_interrupted_import).                            *)
THEOREM GameIsNeverLost == Spec => GameIsReplacedAtOnce
<1>1. IInv /\ [Next]_vars => [Replaced]_vars
  BY StepPreserves
<1>2. [Replaced]_vars =>
        [Kept' # Kept =>
           /\ Kept' = disk["preparing"]
           /\ Validates(Kept', ExeDir(archive.files))]_vars
  BY DEF Replaced
<1>q. QED
  BY <1>1, <1>2, Invariance, PTL DEF Spec, GameIsReplacedAtOnce

(* While the game plays, its tree is acceptable.  With a settings file,    *)
(* memory holds what the file named, for a borrowed game, and else the     *)
(* root that plays; without one the file stays as it was.  A borrowed game *)
(* plays from the start on, never after the setup screen.                  *)
Playing == {"save", "write", "play", "resave", "rewrite", "unsaved"}

PlayInv ==
    /\ pc \in Playing => Valid(root)
    /\ pc \in Playing /\ launch.settings =>
          config = IF Borrowed THEN launch.before ELSE root
    /\ ~launch.settings => saved = launch.before /\ pc \notin {"write", "rewrite"}
    /\ Borrowed => pc \in Playing \ {"save", "write"}
    /\ PlayIsRemembered

LEMMA StartsRight ==
    ASSUME NEW settings \in BOOLEAN, NEW r,
           \/ LaunchRemembered(settings) \/ LaunchAsking(settings)
           \/ LaunchNamed(r, settings) \/ LaunchFound(r, settings)
    PROVE  PlayInv'
<1> USE DEF PlayInv, PlayIsRemembered, Playing, Borrowed, Starts, Valid
<1>1. CASE LaunchRemembered(settings)
  <2>1. settings /\ Valid(saved) /\ Starts("settings", settings, saved)
    BY <1>1 DEF LaunchRemembered, Loaded
  <2>q. QED
    BY <2>1 DEF Loaded
<1>2. CASE LaunchAsking(settings)
  BY <1>2 DEF LaunchAsking
<1>3. CASE LaunchNamed(r, settings)
  BY <1>3 DEF LaunchNamed, Loaded
<1>4. CASE LaunchFound(r, settings)
  BY <1>4 DEF LaunchFound, Loaded
<1>q. QED
  BY <1>1, <1>2, <1>3, <1>4

LEMMA PlayPreserved == PlayInv /\ [Next]_vars => PlayInv'
<1> SUFFICES ASSUME PlayInv, [Next]_vars PROVE PlayInv'
  OBVIOUS
<1>1. ASSUME NEW settings \in BOOLEAN, NEW r,
             \/ LaunchRemembered(settings) \/ LaunchAsking(settings)
             \/ LaunchNamed(r, settings) \/ LaunchFound(r, settings)
      PROVE  PlayInv'
  BY <1>1, StartsRight
<1> USE DEF PlayInv, PlayIsRemembered, Playing, Borrowed, memoryVars
<1>2. CASE End
  BY <1>2 DEF End, NoLaunch
<1>3. CASE Adopt
  BY <1>3 DEF Adopt, Remembered, Valid
<1>4. CASE ChangeSetting
  BY <1>4 DEF ChangeSetting, Valid
<1>5. CASE Truncate
  BY <1>5 DEF Truncate, Valid
<1>6. CASE Write \/ SaveNothing
  BY <1>6 DEF Write, SaveNothing, Valid
<1>7. ASSUME NEW p, NEW done, NEW failed,
             ({pc, done, failed} \cap Playing) = {}, RemoveAll(p, done, failed)
      PROVE  PlayInv'
  BY <1>7 DEF RemoveAll
<1>8. CASE Clean \/ Scrap \/ DropBackup \/ Tidy
  BY <1>7, <1>8 DEF Clean, Scrap, DropBackup, Tidy
<1>9. CASE RestoreBackup \/ OpenArchive \/ ExtractFile \/ JudgePrepared
  BY <1>9 DEF RestoreBackup, OpenArchive, ExtractFile, Writes, JudgePrepared
<1>10. CASE StepAside \/ Accept
  BY <1>10 DEF StepAside, Accept
<1>11. ASSUME NEW f \in DOMAIN Folders,
              FolderGoes(f) \/ \E dir : ChooseFolder(f, dir)
       PROVE  PlayInv'
  BY <1>11 DEF FolderGoes, ChooseFolder
<1>12. ASSUME NEW a \in Archives, ChooseArchive(a) PROVE PlayInv'
  BY <1>12 DEF ChooseArchive
<1>13. CASE UNCHANGED vars
  BY <1>13 DEF vars, Valid
<1>q. QED
  BY <1>1, <1>2, <1>3, <1>4, <1>5, <1>6, <1>8, <1>9, <1>10, <1>11, <1>12, <1>13 DEF Next

(* The game that plays is an acceptable tree.  Chosen or remembered, it is *)
(* the one the settings file names, whatever was chosen, moved away or     *)
(* saved before; named or found, or played without a settings file, it     *)
(* leaves that name as it was, whatever is saved meanwhile                 *)
(* (prepare_game_data, game_data_discover, config_save).                   *)
THEOREM TheGamePlayedIsRemembered == Spec => []PlayIsRemembered
<1>1. Init => PlayInv
  BY DEF Init, NoLaunch, Borrowed, PlayInv, PlayIsRemembered, Playing
<1>2. PlayInv => PlayIsRemembered
  BY DEF PlayInv
<1>q. QED
  BY <1>1, <1>2, PlayPreserved, PTL DEF Spec

-----------------------------------------------------------------------------
(* What the extraction has written so far: the files before the next one,  *)
(* each as it was packed.                                                  *)
Extracted(t, files, n) ==
    /\ t = [name \in {files[i].name : i \in 1..(n - 1)} |-> t[name]]
    /\ \A i \in 1..(n - 1) : t[files[i].name] = files[i].content

ExtractInv ==
    /\ pc \in {"clean", "restore", "open", "extract", "backup", "aside", "accept"} =>
          archive \in Archives
    /\ pc = "extract" =>
          /\ Parses(archive.files)
          /\ next \in Nat \ {0} /\ 1..(next - 1) \subseteq DOMAIN archive.files
          /\ Extracted(disk["preparing"], archive.files, next)
    /\ pc \in {"backup", "aside", "accept"} =>
          disk["preparing"] = Packed(archive.files)

PackedInv == ExtractInv /\ InstalledAsPacked

LEMMA FileIsWritten ==
    ASSUME ~ClosesMayFail, ExtractInv, DiskInv, pc = "extract",
           next \in DOMAIN archive.files,
           Writes(File.content), UNCHANGED archive
    PROVE  ExtractInv'
<1>1. /\ disk' = [disk EXCEPT !["preparing"] =
                    [n \in DOMAIN @ \union {File.name} |->
                        IF n = File.name THEN File.content ELSE @[n]]]
      /\ next' = next + 1 /\ pc' = "extract"
  BY DEF Writes
<1> DEFINE t == disk["preparing"]
           files == archive.files
<1>2. disk'["preparing"] = [n \in DOMAIN t \union {File.name} |->
                               IF n = File.name THEN File.content ELSE t[n]]
  BY <1>1 DEF DiskInv, Places
<1>3. /\ archive \in Archives /\ Parses(files)
      /\ next \in Nat \ {0} /\ 1..(next - 1) \subseteq DOMAIN files
      /\ Extracted(t, files, next)
  BY DEF ExtractInv
<1>4. 1..(next' - 1) = (1..(next - 1)) \union {next}
  <2>1. PICK n \in Nat : DOMAIN files = 1..n
    BY <1>3, ImportAssumption
  <2>q. QED
    BY <1>1, <1>3, <2>1
<1>5. \A i \in 1..(next - 1) : files[i].name # File.name
  <2>1. \A i \in 1..(next - 1) : i # next /\ i \in DOMAIN files
    BY <1>3
  <2>q. QED
    BY <1>3, <2>1 DEF Parses, File
<1>6. DOMAIN t = {files[i].name : i \in 1..(next - 1)}
  BY <1>3 DEF Extracted
<1>7. DOMAIN t \union {File.name} = {files[i].name : i \in 1..(next' - 1)}
  BY <1>4, <1>6 DEF File
<1>8. ASSUME NEW i \in 1..(next' - 1)
      PROVE  disk'["preparing"][files[i].name] = files[i].content
  <2>1. CASE i = next
    BY <1>2, <2>1 DEF File
  <2>2. CASE i \in 1..(next - 1)
    BY <1>2, <1>3, <1>5, <1>6, <2>2 DEF Extracted
  <2>q. QED
    BY <1>4, <1>8, <2>1, <2>2
<1>9. Extracted(disk'["preparing"], files, next')
  BY <1>2, <1>7, <1>8 DEF Extracted
<1>10. next' \in Nat \ {0} /\ 1..(next' - 1) \subseteq DOMAIN files
  BY <1>1, <1>3, <1>4
<1>q. QED
  BY <1>1, <1>3, <1>9, <1>10 DEF ExtractInv

(* Either way a file comes out as it was packed: a stream of its sizes is  *)
(* the file, and so is an earlier file of its sizes.                       *)
LEMMA FileIsExtracted ==
    ASSUME ~ClosesMayFail, ExtractInv, DiskInv, ExtractFile
    PROVE  ExtractInv'
<1>1. /\ pc = "extract" /\ next \in DOMAIN archive.files
      /\ archive \in Archives /\ UNCHANGED archive
  BY DEF ExtractFile, ExtractInv
<1>2. CASE Decodes /\ Writes(archive.payload[stream].content)
  <2>1. stream \in DOMAIN archive.payload
        /\ archive.payload[stream].size = File.size
    BY <1>2 DEF Decodes, SameSize
  <2>2. PICK i \in DOMAIN archive.files :
           /\ archive.payload[stream].size = archive.files[i].size
           /\ archive.payload[stream].content = archive.files[i].content
    BY <1>1, <2>1, ImportAssumption
  <2>3. archive.files[i].content = File.content
    BY <1>1, <2>1, <2>2, ImportAssumption DEF File
  <2>q. QED
    BY <1>1, <1>2, <2>2, <2>3, FileIsWritten
<1>3. ASSUME NEW i \in Originals,
             Writes(disk["preparing"][archive.files[i].name])
      PROVE  ExtractInv'
  <2>1. i \in 1..(next - 1) /\ archive.files[i].size = File.size
    BY DEF Originals, SameSize
  <2>2. i \in DOMAIN archive.files
        /\ disk["preparing"][archive.files[i].name] = archive.files[i].content
    BY <1>1, <2>1 DEF ExtractInv, Extracted
  <2>3. archive.files[i].content = File.content
    BY <1>1, <2>1, <2>2, ImportAssumption DEF File
  <2>q. QED
    BY <1>1, <1>3, <2>2, <2>3, FileIsWritten
<1>4. CASE pc' = "scrap"
  BY <1>4 DEF ExtractInv
<1>q. QED
  BY <1>2, <1>3, <1>4 DEF ExtractFile

(* All files extracted, the tree is the packed one.                        *)
LEMMA AllIsExtracted ==
    ASSUME ExtractInv, JudgePrepared
    PROVE  ExtractInv'
<1>1. CASE pc' = "backup"
  <2> DEFINE t == disk["preparing"]
             files == archive.files
  <2>1. /\ archive \in Archives /\ Parses(files)
        /\ next \in Nat \ {0} /\ 1..(next - 1) \subseteq DOMAIN files
        /\ Extracted(t, files, next) /\ next \notin DOMAIN files
    BY DEF JudgePrepared, ExtractInv
  <2>2. DOMAIN files = 1..(next - 1)
    <3>1. PICK n \in Nat : DOMAIN files = 1..n
      BY <2>1, ImportAssumption
    <3>2. next > n
      BY <2>1, <3>1
    <3>q. QED
      BY <2>1, <3>1, <3>2
  <2>3. t = Packed(files)
    <3>1. ASSUME NEW i \in DOMAIN files
          PROVE  Packed(files)[files[i].name] = files[i].content
      <4>1. \A j \in DOMAIN files : files[j].name = files[i].name => j = i
        BY <2>1 DEF Parses
      <4>q. QED
        BY <3>1, <4>1 DEF Packed
    <3>2. DOMAIN Packed(files) = DOMAIN t
      BY <2>1, <2>2 DEF Packed, Extracted
    <3>3. ASSUME NEW name \in DOMAIN t
          PROVE  t[name] = Packed(files)[name]
      <4>1. DOMAIN t = {files[i].name : i \in 1..(next - 1)}
        BY <2>1 DEF Extracted
      <4>2. PICK i \in 1..(next - 1) : files[i].name = name
        BY <3>3, <4>1
      <4>3. t[files[i].name] = files[i].content
        BY <2>1, <4>2 DEF Extracted
      <4>q. QED
        BY <2>2, <3>1, <4>2, <4>3
    <3>4. Packed(files) = [name \in DOMAIN t |-> Packed(files)[name]]
      BY <3>2 DEF Packed
    <3>5. t = [name \in DOMAIN t |-> t[name]]
      BY <2>1 DEF Extracted
    <3>q. QED
      BY <3>3, <3>4, <3>5
  <2>q. QED
    BY <1>1, <2>1, <2>3 DEF JudgePrepared, ExtractInv
<1>2. CASE pc' = "scrap"
  BY <1>2 DEF ExtractInv
<1>q. QED
  BY <1>1, <1>2 DEF JudgePrepared

LEMMA PackedPreserved ==
    ASSUME ~ClosesMayFail, IInv, PackedInv, [Next]_vars
    PROVE  PackedInv'
<1>1. Replaced
  BY StepPreserves
<1>2. InstalledAsPacked'
  <2>1. CASE Kept' = Kept
    BY <2>1 DEF PackedInv, InstalledAsPacked
  <2>2. CASE Kept' # Kept
    <3>1. archive \in Archives /\ Kept' = Packed(archive.files)
      BY <1>1, <2>2 DEF Replaced, PackedInv, ExtractInv
    <3>q. QED
      BY <3>1 DEF InstalledAsPacked
  <2>q. QED
    BY <2>1, <2>2
<1>3. ExtractInv'
  <2> USE DEF PackedInv, ExtractInv
  <2>0. ASSUME NEW settings \in BOOLEAN, NEW r,
               \/ LaunchRemembered(settings) \/ LaunchAsking(settings)
               \/ LaunchNamed(r, settings) \/ LaunchFound(r, settings)
        PROVE  ExtractInv'
    BY <2>0, EveryStart DEF Starts
  <2>1. CASE End \/ Adopt \/ ChangeSetting \/ Truncate \/ Write \/ SaveNothing
    BY <2>1 DEF End, Adopt, ChangeSetting, Truncate, Write, SaveNothing
  <2>2. CASE \E f \in DOMAIN Folders : FolderGoes(f) \/ \E dir : ChooseFolder(f, dir)
    BY <2>2 DEF FolderGoes, ChooseFolder
  <2>3. CASE \E a \in Archives : ChooseArchive(a)
    BY <2>3 DEF ChooseArchive
  <2>4. CASE Clean \/ Scrap \/ Tidy
    BY <2>4 DEF Clean, Scrap, Tidy, RemoveAll, extractVars
  <2>5. CASE RestoreBackup
    BY <2>5 DEF RestoreBackup, extractVars
  <2>6. CASE OpenArchive
    <3>1. CASE pc' = "extract"
      <4>1. /\ Parses(archive.files) /\ UNCHANGED archive /\ next' = 1
            /\ disk'["preparing"] = Restrict(Packed(archive.files), {})
        BY <2>6, <3>1 DEF OpenArchive, IInv, DiskInv, Places
      <4>2. 1..(next' - 1) = {}
        BY <4>1
      <4>q. QED
        BY <2>6, <3>1, <4>1, <4>2 DEF OpenArchive, Extracted, Restrict
    <3>2. CASE pc' # "extract"
      BY <2>6, <3>2 DEF OpenArchive
    <3>q. QED
      BY <3>1, <3>2
  <2>7. CASE ExtractFile
    BY <2>7, FileIsExtracted DEF IInv
  <2>8. CASE JudgePrepared
    BY <2>8, AllIsExtracted
  <2>9. CASE DropBackup
    <3>1. \/ pc' = "setup"
          \/ pc' = "aside" /\ disk' = [disk EXCEPT !["previous"] = Absent]
      BY <2>9 DEF DropBackup, RemoveAll
    <3>2. UNCHANGED archive /\ pc = "backup"
      BY <2>9 DEF DropBackup, RemoveAll, extractVars
    <3>q. QED
      BY <3>1, <3>2 DEF IInv, DiskInv, Places
  <2>10. CASE StepAside
    BY <2>10 DEF StepAside, extractVars, Moved, IInv, DiskInv, Places, Game
  <2>11. CASE Accept
    BY <2>11 DEF Accept
  <2>12. CASE UNCHANGED vars
    BY <2>12 DEF vars
  <2>q. QED
    BY <2>0, <2>1, <2>2, <2>3, <2>4, <2>5, <2>6, <2>7, <2>8, <2>9, <2>10, <2>11,
       <2>12 DEF Next
<1>q. QED
  BY <1>2, <1>3 DEF PackedInv

(* Where closing a file loses nothing, the installed game is, file for     *)
(* file, what some archive packed, repeated files and interrupted imports  *)
(* included (extract_files, commit_import).                                *)
THEOREM TheGameIsAsPacked == ~ClosesMayFail => (Spec => []InstalledAsPacked)
<1> SUFFICES ASSUME ~ClosesMayFail PROVE Spec => []InstalledAsPacked
  OBVIOUS
<1>1. Init => PackedInv
  BY DEF Init, PackedInv, ExtractInv, InstalledAsPacked, Kept, Game, Places
<1>2. IInv /\ PackedInv /\ [Next]_vars => PackedInv'
  BY PackedPreserved
<1>3. PackedInv => InstalledAsPacked
  BY DEF PackedInv
<1>q. QED
  BY <1>1, <1>2, <1>3, Invariance, PTL DEF Spec

=============================================================================
