------------------------------- MODULE Import -------------------------------
(***************************************************************************)
(* How the port gets the player's game files: the start-up that looks for  *)
(* them (main.c), the setup screen's choice, a folder or an archive, the   *)
(* import of an archive over an earlier one (game_selection.cpp), the      *)
(* original installer's extraction (installer_extract.cpp), what makes a   *)
(* tree acceptable (game_data.c) and the settings file that remembers it   *)
(* (config.c).  Every step on the file system may fail, except reading the *)
(* settings, and the program may die between any two.                      *)
(***************************************************************************)
EXTENDS Naturals, Sequences, FiniteSets, Functions

CONSTANTS
    Archives,  \* what the player may choose: installers and ZIPs
    Folders,   \* trees of the player's own, as they first are
    Absent,    \* no directory there, no game remembered
    ClosesMayFail \* whether a close may lose a file's last bytes unseen

(* A file is named by its directory and leaf.  A content is what it is and *)
(* the leaves it lists, none unless it is a manifest, data/data.txt.  A    *)
(* tree maps the names it holds to their contents.                         *)
Exe == "lf2.exe"
Manifest == "data.txt"
Genuine == [is |-> "v2.0a", lists |-> {}]
Lost == [is |-> "cut short", lists |-> {}]
Game == "destination"
Places == {Game, "preparing", "previous"}

(* An archive lists its files, each with its packed and full size, and     *)
(* holds a payload of streams; the original installer stores a repeated    *)
(* file once.  Files of the same two sizes are the same file, and every    *)
(* stream is one of the files.                                             *)
ASSUME ImportAssumption ==
    /\ ClosesMayFail \in BOOLEAN
    /\ Places \cap DOMAIN Folders = {}
    /\ \A a \in Archives : \A i, j \in DOMAIN a.files :
          a.files[i].size = a.files[j].size =>
              a.files[i].content = a.files[j].content
    /\ \A a \in Archives : \A s \in DOMAIN a.payload : \E i \in DOMAIN a.files :
          /\ a.payload[s].size = a.files[i].size
          /\ a.payload[s].content = a.files[i].content
    /\ \A a \in Archives :
          Len(a.files) \in Nat /\ DOMAIN a.files = 1..Len(a.files)

VARIABLES
    pc,       \* what the program is doing
    disk,     \* the tree at each place and in each folder, or Absent
    saved,    \* the root the settings file remembers, or Absent
    config,   \* the root in memory
    root,     \* the root chosen or played: a place and a directory of it
    archive,  \* the archive being imported
    next,     \* its file extracted next
    stream,   \* the stream of its payload read next
    had,      \* destination_exists
    launch    \* how this start came to its game, whether it has a settings
              \* file at all, and, as history, what that named before

vars == <<pc, disk, saved, config, root, archive, next, stream, had, launch>>
memoryVars == <<config, root, launch>>
extractVars == <<archive, next, stream, had>>

Moved(p, q) == [disk EXCEPT ![p] = Absent, ![q] = disk[p]]

(* What an interrupted or failed removal may leave of a tree: some of it.  *)
Parts(t) == {Restrict(t, s) : s \in SUBSET DOMAIN t}

-----------------------------------------------------------------------------
(* What is accepted as the game, game_data_validate_executable: the        *)
(* genuine executable, a manifest, and every file the manifest refers to.  *)
(* Their contents are not looked at.                                       *)
Validates(t, dir) ==
    /\ t # Absent
    /\ <<dir, Exe>> \in DOMAIN t /\ t[<<dir, Exe>>] = Genuine
    /\ <<dir, Manifest>> \in DOMAIN t
    /\ LET listed == t[<<dir, Manifest>>].lists
       IN  listed # {} /\ \A leaf \in listed : <<dir, leaf>> \in DOMAIN t

Valid(r) == r # Absent /\ Validates(disk[r.place], r.dir)

(* parse_file_table: no name twice, and one lf2.exe.                       *)
Executables(a) == {i \in DOMAIN a : a[i].name[2] = Exe}
Parses(a) ==
    /\ \A i, j \in DOMAIN a : a[i].name = a[j].name => i = j
    /\ Cardinality(Executables(a)) = 1
ExeDir(a) == a[CHOOSE i \in Executables(a) : TRUE].name[1]

(* The tree an archive stands for.                                         *)
Packed(a) == [n \in {a[i].name : i \in DOMAIN a} |->
                 a[CHOOSE i \in DOMAIN a : a[i].name = n].content]

-----------------------------------------------------------------------------
(* Starting up.                                                            *)

(* config_load.  LF2_CONFIG, set but empty, leaves this start without a    *)
(* settings file: nothing is remembered, and nothing will be.              *)
Loaded(settings) == IF settings THEN saved ELSE Absent

Starts(by, settings, r) ==
    /\ pc = "down"
    /\ pc' = IF by = "asked" THEN "setup" ELSE "play"
    /\ root' = r /\ config' = Loaded(settings)
    /\ launch' = [by |-> by, settings |-> settings, before |-> saved]
    /\ UNCHANGED <<disk, saved, extractVars>>

(* The trees a start may be pointed at: the player's own and the imported. *)
Trees == {t \in DOMAIN Folders \union {Game} : disk[t] # Absent}
Roots == UNION {{[place |-> t, dir |-> n[1]] : n \in DOMAIN disk[t]} : t \in Trees}

(* game_data_discover and game_data_activate.  An executable named on the  *)
(* command line or in LF2_GAME_EXE is the only candidate; then comes the   *)
(* remembered tree, and then one beside the AppImage or in the working     *)
(* directory.  Only the remembered one is in the settings, and playing     *)
(* another writes nothing there.                                           *)
LaunchNamed(r, settings) == Valid(r) /\ Starts("named", settings, r)
LaunchRemembered(settings) ==
    Valid(Loaded(settings)) /\ Starts("settings", settings, Loaded(settings))
LaunchFound(r, settings) ==
    ~Valid(Loaded(settings)) /\ Valid(r) /\ Starts("found", settings, r)

(* None was acceptable or it could not be entered, or --select-game.       *)
LaunchAsking(settings) == Starts("asked", settings, Absent)

NoLaunch == [by |-> "asked", settings |-> TRUE, before |-> Absent]

(* The program ends, the setup given up or the game left, or it dies,      *)
(* wherever it is: only the disk is left.                                  *)
End ==
    /\ pc # "down"
    /\ pc' = "down"
    /\ config' = Absent /\ root' = Absent /\ launch' = NoLaunch
    /\ archive' = Absent /\ next' = 1 /\ stream' = 1 /\ had' = FALSE
    /\ UNCHANGED <<disk, saved>>

(* While it is down, the player may move a tree of their own away.         *)
FolderGoes(f) ==
    /\ pc = "down" /\ disk[f] # Absent
    /\ disk' = [disk EXCEPT ![f] = Absent]
    /\ UNCHANGED <<pc, saved, memoryVars, extractVars>>

-----------------------------------------------------------------------------
(* The setup screen's choice: resolve_selection.                           *)

(* A folder, or the lf2.exe in it, is taken where it is or refused.        *)
ChooseFolder(f, dir) ==
    /\ pc = "setup"
    /\ Valid([place |-> f, dir |-> dir])
    /\ pc' = "chosen" /\ root' = [place |-> f, dir |-> dir]
    /\ UNCHANGED <<disk, saved, config, launch, extractVars>>

ChooseArchive(a) ==
    /\ pc = "setup"
    /\ pc' = "clean" /\ archive' = a
    /\ UNCHANGED <<disk, saved, memoryVars, next, stream, had>>

(* remove_all: all of it, or some and an error.                            *)
RemoveAll(p, done, failed) ==
    /\ \/ disk' = [disk EXCEPT ![p] = Absent] /\ pc' = done
       \/ /\ \E t \in IF disk[p] = Absent THEN {Absent} ELSE Parts(disk[p]) :
                disk' = [disk EXCEPT ![p] = t]
          /\ pc' = failed
    /\ UNCHANGED <<saved, memoryVars, extractVars>>

(* What an earlier preparation left behind.                                *)
Clean == pc = "clean" /\ RemoveAll("preparing", "restore", "setup")

(* restore_interrupted_import: an import that ended between its two        *)
(* renames left the game at the backup's place.                            *)
NeverInterrupted == FALSE
Interrupted == disk[Game] = Absent /\ disk["previous"] # Absent
RestoreBackup ==
    /\ pc = "restore"
    /\ \/ ~Interrupted /\ pc' = "open" /\ UNCHANGED disk
       \/ Interrupted /\ pc' = "open" /\ disk' = Moved("previous", Game)
       \/ pc' = "setup" /\ UNCHANGED disk
    /\ UNCHANGED <<saved, memoryVars, extractVars>>

-----------------------------------------------------------------------------
(* prepare_import and the original installer's extract_install.  A ZIP's   *)
(* extraction is external; it holds a stream for each of its files.        *)

(* The archive is read and its table parsed before anything is written.    *)
OpenArchive ==
    /\ pc = "open"
    /\ had' = (disk[Game] # Absent)
    /\ \/ pc' = "setup" /\ UNCHANGED <<disk, next, stream>>
       \/ pc' = "scrap" /\ UNCHANGED <<disk, next, stream>>
       \/ /\ Parses(archive.files)
          /\ disk' = [disk EXCEPT !["preparing"] = Restrict(Packed(archive.files), {})]
          /\ next' = 1 /\ stream' = 1 /\ pc' = "extract"
    /\ UNCHANGED <<saved, memoryVars, archive>>

(* size_key, and what decode_stream demands of a stream: exactly as many   *)
(* packed bytes consumed and full bytes produced as the table says.        *)
SameFullSize(s, t) == s.full = t.full
SameSize(s, t) == s = t

File == archive.files[next]
Decodes ==
    /\ stream \in DOMAIN archive.payload
    /\ SameSize(archive.payload[stream].size, File.size)

(* The files already extracted with the sizes of this one; the first of    *)
(* them is kept for copying.                                               *)
Originals == {i \in 1..(next - 1) : SameSize(archive.files[i].size, File.size)}

(* A file written: cut short if the close may fail unseen.                 *)
Writes(content) ==
    /\ \E c \in {content} \union (IF ClosesMayFail THEN {Lost} ELSE {}) :
          disk' = [disk EXCEPT !["preparing"] =
                     [n \in DOMAIN @ \union {File.name} |->
                         IF n = File.name THEN c ELSE @[n]]]
    /\ next' = next + 1 /\ pc' = pc

(* The next file: from its stream, or else copied from its original.       *)
ExtractFile ==
    /\ pc = "extract" /\ next \in DOMAIN archive.files
    /\ \/ /\ Decodes
          /\ Writes(archive.payload[stream].content)
          /\ stream' = stream + 1
       \/ /\ ~Decodes
          /\ \E i \in Originals :
                /\ \A j \in Originals : i <= j
                /\ Writes(disk["preparing"][archive.files[i].name])
          /\ UNCHANGED stream
       \/ /\ pc' = "scrap"
          /\ UNCHANGED <<disk, next, stream>>
    /\ UNCHANGED <<saved, memoryVars, archive, had>>

(* The payload must be used up; then validate_prepared_import judges the   *)
(* tree, and the path it will have must fit.                               *)
Complete == stream = Len(archive.payload) + 1
Acceptable == Validates(disk["preparing"], ExeDir(archive.files))

JudgePrepared ==
    /\ pc = "extract" /\ next \notin DOMAIN archive.files
    /\ \/ Complete /\ Acceptable /\ pc' = "backup"
       \/ pc' = "scrap"
    /\ next' = 1 /\ stream' = 1
    /\ UNCHANGED <<disk, saved, memoryVars, archive, had>>

Scrap == pc = "scrap" /\ RemoveAll("preparing", "setup", "setup")

-----------------------------------------------------------------------------
(* commit_import.                                                          *)

DropBackup == pc = "backup" /\ RemoveAll("previous", "aside", "setup")

StepAside ==
    /\ pc = "aside"
    /\ \/ had /\ disk' = Moved(Game, "previous") /\ pc' = "accept"
       \/ ~had /\ pc' = "accept" /\ UNCHANGED disk
       \/ had /\ pc' = "setup" /\ UNCHANGED disk
    /\ UNCHANGED <<saved, memoryVars, extractVars>>

(* The prepared tree becomes the game; if it cannot, the game of before is *)
(* put back, if it can.                                                    *)
Accept ==
    /\ pc = "accept"
    /\ \/ /\ disk' = Moved("preparing", Game)
          /\ root' = [place |-> Game, dir |-> ExeDir(archive.files)]
          /\ pc' = IF had THEN "tidy" ELSE "chosen"
       \/ had /\ disk' = Moved("previous", Game) /\ pc' = "setup" /\ UNCHANGED root
       \/ pc' = "setup" /\ UNCHANGED <<disk, root>>
    /\ UNCHANGED <<saved, config, launch, extractVars>>

Tidy == pc = "tidy" /\ RemoveAll("previous", "chosen", "chosen")

-----------------------------------------------------------------------------
(* The end of prepare_game_data: the chosen tree is looked at once more,   *)
(* entered, and remembered, or the player is asked again.                  *)

RememberNothingNew == config
Remembered == root

Adopt ==
    /\ pc = "chosen"
    /\ \/ Valid(root) /\ config' = Remembered /\ pc' = "save"
       \/ pc' = "setup" /\ UNCHANGED config
    /\ UNCHANGED <<disk, saved, root, launch, extractVars>>

(* config_save empties the file, then writes it.  A save of other settings *)
(* while the game plays goes the same way, and may fail unheeded.  Without *)
(* a settings file a save does nothing and succeeds.                       *)
ChangeSetting ==
    /\ pc \in {"play", "unsaved"}
    /\ pc' = "resave"
    /\ UNCHANGED <<disk, saved, memoryVars, extractVars>>

Truncate ==
    /\ launch.settings
    /\ \/ /\ saved' = Absent
          /\ \/ pc = "save" /\ pc' = "write"
             \/ pc = "resave" /\ pc' = "rewrite"
       \/ /\ UNCHANGED saved
          /\ \/ pc = "save" /\ pc' = "setup"
             \/ pc = "resave" /\ pc' = "unsaved"
    /\ UNCHANGED <<disk, memoryVars, extractVars>>

SaveNothing ==
    /\ ~launch.settings /\ pc \in {"save", "resave"}
    /\ pc' = "play"
    /\ UNCHANGED <<disk, saved, memoryVars, extractVars>>

Write ==
    /\ \/ /\ saved' = config
          /\ pc \in {"write", "rewrite"} /\ pc' = "play"
       \/ /\ UNCHANGED saved
          /\ \/ pc = "write" /\ pc' = "setup"
             \/ pc = "rewrite" /\ pc' = "unsaved"
    /\ UNCHANGED <<disk, memoryVars, extractVars>>

-----------------------------------------------------------------------------
Init ==
    /\ pc = "down"
    /\ disk = [p \in Places \union DOMAIN Folders |->
                  IF p \in Places THEN Absent ELSE Folders[p]]
    /\ saved = Absent /\ config = Absent /\ root = Absent
    /\ archive = Absent /\ next = 1 /\ stream = 1 /\ had = FALSE
    /\ launch = NoLaunch

Next ==
    \/ \E settings \in BOOLEAN :
          \/ LaunchRemembered(settings) \/ LaunchAsking(settings)
          \/ \E r \in Roots : LaunchNamed(r, settings) \/ LaunchFound(r, settings)
    \/ End
    \/ \E f \in DOMAIN Folders :
          \/ FolderGoes(f)
          \/ \E dir \in {n[1] : n \in DOMAIN Folders[f]} : ChooseFolder(f, dir)
    \/ \E a \in Archives : ChooseArchive(a)
    \/ Clean \/ RestoreBackup
    \/ OpenArchive \/ ExtractFile \/ JudgePrepared \/ Scrap
    \/ DropBackup \/ StepAside \/ Accept \/ Tidy
    \/ Adopt \/ ChangeSetting \/ Truncate \/ Write \/ SaveNothing

Spec == Init /\ [][Next]_vars

-----------------------------------------------------------------------------
(* The imported game: at its place, or at the backup's after an import     *)
(* that was cut off or could not put it back.                              *)
Kept == IF disk[Game] # Absent THEN disk[Game] ELSE disk["previous"]

(* The imported game changes all at once, into a tree that was accepted:   *)
(* no failure and no crash, in whatever step of an import or of the one    *)
(* after it, loses it or leaves a piece of it (commit_import,              *)
(* restore_interrupted_import).                                            *)
GameIsReplacedAtOnce ==
    [][Kept' # Kept =>
          /\ Kept' = disk["preparing"]
          /\ Validates(Kept', ExeDir(archive.files))]_vars

(* What is installed is, file for file, what was packed: repeated files    *)
(* that the installer stores once come out as themselves, and nothing      *)
(* unfinished is ever installed (extract_files, validate_prepared_import). *)
InstalledAsPacked ==
    Kept # Absent => \E a \in Archives : Kept = Packed(a.files)

(* The game that plays is an accepted tree.  One that the player chose, or *)
(* that was remembered, is the one the settings file names, so that the    *)
(* next start will find it, unless a save was cut or failed.  While one    *)
(* plays that was named on the command line or found nearby, or while      *)
(* there is no settings file, the file goes on naming what it named        *)
(* before, also when other settings are saved (prepare_game_data,          *)
(* game_data_discover, config_save).                                       *)
Borrowed == launch.by \in {"named", "found"}
PlayIsRemembered ==
    pc = "play" =>
        /\ Valid(root)
        /\ saved = IF Borrowed \/ ~launch.settings THEN launch.before ELSE root

(* The type of the program's own variables.                                *)
TypeOK ==
    /\ pc \in {"down", "setup", "clean", "restore", "open", "extract", "scrap",
               "backup", "aside", "accept", "tidy", "chosen", "save", "write",
               "play", "resave", "rewrite", "unsaved"}
    /\ had \in BOOLEAN /\ next \in Nat /\ stream \in Nat
    /\ archive \in Archives \union {Absent}
    /\ launch.by \in {"asked", "settings", "named", "found"} /\ launch.settings \in BOOLEAN

=============================================================================
