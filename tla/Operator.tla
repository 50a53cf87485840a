------------------------------ MODULE Operator ------------------------------
(* The operator's commands on the installations of two machines: ib.py      *)
(* start, export-usb and import-usb, backup_compose, restore_backup,        *)
(* deploy_env.  A command is a sequence of steps; each may fail, which      *)
(* runs the command's clean-up, or be the last one before a power cut,      *)
(* which does not.  One command runs at a time.                             *)
(*                                                                          *)
(* Contents are version numbers: of the sources, of what the site has       *)
(* stored, of the keys.  A part of a folder that was damaged is Damaged.    *)
EXTENDS Integers, FiniteSets

CONSTANTS
    None,
    Old, New,                   \* the machine that has the project, and one that gets it
    StartOptions,               \* of ib.py start: a set of [ai, offline, build]
    MaxSources, MaxWork, MaxKeysMade    \* bounds of the runs

Machines == {Old, New}
Envs == [keys : Int, ai : BOOLEAN]
Ai == {"ollama", "autoquiz"}
Damaged == -1

\* The sources the images were built from, the revision they are labelled
\* with and, a ghost, whether these were the same.
NoImage == [content |-> 0, label |-> 0, described |-> TRUE]
DamagedImage == [content |-> Damaged, label |-> Damaged, described |-> TRUE]

ASSUME OperatorConstants ==
    /\ StartOptions \subseteq [ai : BOOLEAN, offline : BOOLEAN, build : BOOLEAN]
    /\ None \notin Envs

VARIABLES
    project,    \* of a machine: None or [files, manifest]: source-manifest.json
    env,        \* .env.deploy: None or [keys, ai]
    image,      \* of the application: [content, label, described]
    model,      \* the models in their volumes: "none", "part", "whole"
    volumes,    \* whether Docker has volumes of the project
    db, media,  \* [version, keys] and version of what is stored; 0: empty
    writing,    \* a request that has stored its file and not its row
    up,         \* services running: subset of {"db", "web", "ollama", "autoquiz"}
    usb, backup,    \* folders: None or [parts, manifest]
    job,        \* the command that runs: None or [cmd, m, step, ...]
    sources, work, keysMade,    \* numbers given out
    served,     \* the keys the site's container was made with
    rekeyed, copied     \* ghosts: of a machine, of the backup: other keys were imported over it

stored == <<db, media, writing>>
machine == <<project, env, image, model, volumes, up>>
given == <<sources, work, keysMade>>
keying == <<served, rekeyed, copied>>
vars == <<machine, stored, usb, backup, job, given, keying>>

Empty == [version |-> 0, keys |-> 0]

Init ==
    /\ \E first \in {None, [files |-> 1, manifest |-> 1]} :
          project = [m \in Machines |-> IF m = Old THEN [files |-> 1, manifest |-> 1] ELSE first]
    /\ env = [m \in Machines |-> None] /\ image = [m \in Machines |-> NoImage]
    /\ model = [m \in Machines |-> "none"] /\ volumes = [m \in Machines |-> FALSE]
    /\ db = [m \in Machines |-> Empty] /\ media = [m \in Machines |-> 0] /\ writing = [m \in Machines |-> FALSE]
    /\ up = [m \in Machines |-> {}]
    /\ usb = None /\ backup = None /\ job = None
    /\ sources = 1 /\ work = 0 /\ keysMade = 0
    /\ served = [m \in Machines |-> 0] /\ rekeyed = [m \in Machines |-> FALSE] /\ copied = FALSE

(***************************************************************************)
(* Steps.                                                                  *)
(***************************************************************************)
\* Whether the machine already holds what a command must not replace.
InUse(cmd, m) ==
    CASE cmd = "import_usb" -> env[m] # None \/ volumes[m]
      [] cmd = "restore" -> db[m].version # 0 \/ media[m] # 0
      [] OTHER -> FALSE

Begin(cmd, m, args) ==
    /\ job = None /\ project[m] # None
    /\ job' = [cmd |-> cmd, m |-> m, step |-> 1, inUse |-> InUse(cmd, m), writers |-> {},
               ai |-> args.ai, offline |-> args.offline, build |-> args.build]
At(cmd, n) == job # None /\ job.cmd = cmd /\ job.step = n
Go(n) == job' = [job EXCEPT !.step = n]
Done == job' = None

\* backup_compose's finally starts again what it stopped.
Fail ==
    /\ job # None /\ Done
    /\ up' = [up EXCEPT ![job.m] = @ \cup job.writers]
    /\ UNCHANGED <<project, env, image, model, volumes, stored, usb, backup, given, keying>>

\* A power cut: no clean-up; a request under way is lost, Docker starts again
\* what was not stopped.
PowerCut ==
    /\ job # None /\ Done /\ writing' = [writing EXCEPT ![job.m] = FALSE]
    /\ UNCHANGED <<machine, db, media, usb, backup, given, keying>>

(***************************************************************************)
(* start                                                                   *)
(***************************************************************************)
Start(m) ==
    /\ \E options \in StartOptions : Begin("start", m, options)
    /\ UNCHANGED <<machine, stored, usb, backup, given, keying>>

\* configure, deploy_env: what there is of an installation keeps its keys.
KeysOf_New(m) == keysMade + 1 \* mutant
KeysOf(m) == IF env[m] = None THEN keysMade + 1 ELSE env[m].keys
Configure(m, ai) ==
    LET k == KeysOf(m) IN
    /\ k <= MaxKeysMade /\ keysMade' = IF k > keysMade THEN k ELSE keysMade
    /\ env' = [env EXCEPT ![m] = [keys |-> k, ai |-> ai]]

Configured ==
    /\ At("start", 1) /\ Go(2) /\ Configure(job.m, job.ai)
    /\ UNCHANGED <<project, image, model, volumes, up, stored, usb, backup, sources, work, keying>>

\* The build takes the files there are, the label is the digest of
\* source-manifest.json.
BuiltFrom(files, manifest) == [content |-> files, label |-> manifest, described |-> files = manifest]
Stale(m) == image[m].label # project[m].manifest
Built ==
    /\ At("start", 2) /\ Go(3)
    /\ IF job.offline THEN ~Stale(job.m) /\ UNCHANGED image
       ELSE image' = [image EXCEPT ![job.m] = IF job.build \/ Stale(job.m)
                                              THEN BuiltFrom(project[job.m].files, project[job.m].manifest) ELSE @]
    /\ UNCHANGED <<project, env, model, volumes, up, stored, usb, backup, given, keying>>

Services ==
    /\ At("start", 3) /\ Go(4)
    /\ volumes' = [volumes EXCEPT ![job.m] = TRUE]
    /\ up' = [up EXCEPT ![job.m] = IF job.ai THEN @ \cup {"db", "ollama"} ELSE (@ \cup {"db"}) \ Ai]
    /\ UNCHANGED <<project, env, image, model, stored, usb, backup, given, keying>>

\* models_ready asks Ollama, and looks for the names of the files: a model
\* unpacked in part may pass.  What is missing is fetched, unless offline.
models_ready(m) == "ollama" \in up[m] /\ model[m] # "none"

Modelled ==
    /\ At("start", 4) /\ Go(5)
    /\ \/ (job.ai => models_ready(job.m)) /\ UNCHANGED model
       \/ /\ job.ai /\ ~job.offline /\ model[job.m] # "whole"
          /\ model' = [model EXCEPT ![job.m] = "whole"]
    /\ UNCHANGED <<project, env, image, volumes, up, stored, usb, backup, given, keying>>

Everything(m) == {"db", "web"} \cup (IF env[m].ai THEN Ai ELSE {})

\* The site's container is made anew if its keys or its image are others: a
\* request under way is cut off.
SiteUp(m) ==
    /\ served' = [served EXCEPT ![m] = env[m].keys]
    /\ \E cut \in BOOLEAN :
          /\ served[m] # env[m].keys => cut
          /\ writing' = [writing EXCEPT ![m] = @ /\ ~cut]
    /\ UNCHANGED <<rekeyed, copied>>
Up ==
    /\ At("start", 5) /\ Done /\ SiteUp(job.m)
    /\ up' = [up EXCEPT ![job.m] = Everything(job.m)]
    /\ UNCHANGED <<project, env, image, model, volumes, db, media, usb, backup, given>>

\* A request that does not end in time is cut off.
Stopped(m, services) ==
    /\ up' = [up EXCEPT ![m] = @ \ services]
    /\ writing' = [writing EXCEPT ![m] = @ /\ "web" \notin services]

Stop(m) ==
    /\ job = None /\ up[m] # {} /\ Stopped(m, up[m])
    /\ UNCHANGED <<project, env, image, model, volumes, db, media, usb, backup, job, given, keying>>

\* dc.py up: the database alone, before a restore, or everything after it.
ComposeUp(m) ==
    /\ job = None /\ env[m] # None /\ image[m] # NoImage
    /\ \/ "db" \notin up[m] /\ up' = [up EXCEPT ![m] = @ \cup {"db"}] /\ UNCHANGED <<writing, keying>>
       \/ /\ ~(Everything(m) \subseteq up[m]) \/ served[m] # env[m].keys
          /\ up' = [up EXCEPT ![m] = @ \cup Everything(m)] /\ SiteUp(m)
    /\ volumes' = [volumes EXCEPT ![m] = TRUE]
    /\ UNCHANGED <<project, env, image, model, db, media, usb, backup, job, given>>

(***************************************************************************)
(* export_usb and import_usb                                               *)
(***************************************************************************)
Export(m) ==
    /\ env[m] # None /\ usb = None /\ Begin("export_usb", m, [ai |-> env[m].ai, offline |-> TRUE, build |-> FALSE])
    /\ usb' = [parts |-> [project |-> 0, images |-> NoImage, models |-> 0], manifest |-> None]
    /\ UNCHANGED <<machine, stored, backup, given, keying>>

\* The images must have the label of the sources, every file must be the one
\* of the manifest.
Exportable_Unlabelled(m) == project[m].files = project[m].manifest \* mutant
Exportable(m) == image[m].label = project[m].manifest /\ project[m].files = project[m].manifest
Exported ==
    LET m == job.m IN
    \/ /\ At("export_usb", 1) /\ Go(2) /\ Exportable(m) /\ (job.ai => models_ready(m))
       /\ usb' = [usb EXCEPT !.parts.project = project[m].files]
       /\ UNCHANGED <<machine, stored, backup, given, keying>>
    \/ /\ At("export_usb", 2) /\ Go(3) /\ usb' = [usb EXCEPT !.parts.images = image[m]]
       /\ UNCHANGED <<machine, stored, backup, given, keying>>
    \/ /\ At("export_usb", 3) /\ Go(4)
       /\ usb' = [usb EXCEPT !.parts.models = IF ~job.ai THEN 0 ELSE IF model[m] = "whole" THEN 2 ELSE 1]
       /\ UNCHANGED <<machine, stored, backup, given, keying>>
    \/ /\ At("export_usb", 4) /\ Done /\ usb' = [usb EXCEPT !.manifest = [parts |-> usb.parts, ai |-> job.ai]]
       /\ UNCHANGED <<machine, stored, backup, given, keying>>

\* The folder is copied to the other machine; the project is run from it.
CopyProject(m) ==
    /\ job = None /\ project[m] = None /\ usb # None /\ usb.parts.project > 0 /\ usb.manifest # None
    /\ project' = [project EXCEPT ![m] = [files |-> usb.parts.project, manifest |-> usb.parts.project]]
    /\ UNCHANGED <<env, image, model, volumes, up, stored, usb, backup, job, given, keying>>

Import(m) ==
    /\ usb # None /\ Begin("import_usb", m, [ai |-> FALSE, offline |-> TRUE, build |-> FALSE])
    /\ UNCHANGED <<machine, stored, usb, backup, given, keying>>

Sound(folder, parts) == folder.parts = parts
Fresh_Configured(m) == ~volumes[m] \* mutant
Fresh(m) == env[m] = None /\ ~volumes[m]
Imported ==
    LET m == job.m IN
    \/ /\ At("import_usb", 1) /\ usb.manifest # None /\ Sound(usb, usb.manifest.parts) /\ Fresh(m)
       /\ job' = [job EXCEPT !.step = 2, !.ai = usb.manifest.ai]
       /\ image' = [image EXCEPT ![m] = usb.parts.images]
       /\ UNCHANGED <<project, env, model, volumes, up, stored, usb, backup, given, keying>>
    \/ /\ At("import_usb", 2) /\ Go(3) /\ Configure(m, job.ai)
       /\ UNCHANGED <<project, image, model, volumes, up, stored, usb, backup, sources, work, keying>>
    \/ /\ At("import_usb", 3) /\ Go(4)
       /\ IF job.ai THEN volumes' = [volumes EXCEPT ![m] = TRUE] /\ model' = [model EXCEPT ![m] = "part"]
          ELSE UNCHANGED <<volumes, model>>
       /\ UNCHANGED <<project, env, image, up, stored, usb, backup, given, keying>>
    \/ /\ At("import_usb", 4) /\ job' = [job EXCEPT !.cmd = "start", !.step = 1]
       /\ model' = [model EXCEPT ![m] = IF job.ai /\ usb.parts.models = 2 THEN "whole" ELSE @]
       /\ UNCHANGED <<project, env, image, volumes, up, stored, usb, backup, given, keying>>

(***************************************************************************)
(* backup_compose and restore_backup                                       *)
(***************************************************************************)
Backup(m) ==
    /\ backup = None /\ env[m] # None /\ "db" \in up[m]
    /\ Begin("backup", m, [ai |-> FALSE, offline |-> FALSE, build |-> FALSE])
    /\ backup' = [parts |-> [database |-> Empty, media |-> 0, keys |-> 0], manifest |-> None]
    /\ UNCHANGED <<machine, stored, usb, given, keying>>

Writers_Web(m) == up[m] \cap {"autoquiz"} \* mutant
Writers(m) == up[m] \cap {"web", "autoquiz"}
BackedUp ==
    LET m == job.m IN
    \/ /\ At("backup", 1) /\ job' = [job EXCEPT !.step = 2, !.writers = Writers(m)]
       /\ Stopped(m, Writers(m))
       /\ UNCHANGED <<project, env, image, model, volumes, db, media, usb, backup, given, keying>>
    \/ /\ At("backup", 2) /\ Go(3) /\ backup' = [backup EXCEPT !.parts.database = db[m]]
       /\ copied' = rekeyed[m] /\ UNCHANGED <<machine, stored, usb, given, served, rekeyed>>
    \/ /\ At("backup", 3) /\ Go(4)
       /\ backup' = [backup EXCEPT !.parts.media = media[m], !.parts.keys = env[m].keys]
       /\ UNCHANGED <<machine, stored, usb, given, keying>>
    \/ /\ At("backup", 4) /\ Done /\ backup' = [backup EXCEPT !.manifest = backup.parts]
       /\ up' = [up EXCEPT ![m] = @ \cup job.writers]
       /\ UNCHANGED <<project, env, image, model, volumes, stored, usb, given, keying>>

\* deploy_env --import-keys, of a backup's .env.deploy: into any installation.
\* Containers that run keep theirs until they are made anew.
Rekeys(m, k) == env[m] # None /\ env[m].keys # k /\ (db[m].version # 0 \/ "web" \in up[m])
ImportKeys(m) ==
    LET k == backup.parts.keys IN
    /\ job = None /\ project[m] # None /\ backup # None /\ k # 0
    /\ env' = [env EXCEPT ![m] = [keys |-> k, ai |-> IF env[m] = None THEN FALSE ELSE env[m].ai]]
    /\ rekeyed' = [rekeyed EXCEPT ![m] = @ \/ Rekeys(m, k)]
    /\ UNCHANGED <<project, image, model, volumes, up, stored, usb, backup, job, given, served, copied>>

Restore(m) ==
    /\ backup # None /\ env[m] # None /\ Begin("restore", m, [ai |-> FALSE, offline |-> FALSE, build |-> FALSE])
    /\ UNCHANGED <<machine, stored, usb, backup, given, keying>>

Restorable(m) ==
    /\ backup.manifest # None /\ Sound(backup, backup.manifest)
    /\ backup.parts.keys = env[m].keys
    /\ db[m].version = 0 /\ media[m] = 0
\* media_archive unpack: into an empty volume only; until it is through, a
\* part of the files is there.
unpack(m) ==
    \/ At("restore", 2) /\ Go(3) /\ media[m] = 0 /\ media' = [media EXCEPT ![m] = Damaged]
    \/ At("restore", 3) /\ Done /\ media' = [media EXCEPT ![m] = backup.parts.media]
Restored ==
    LET m == job.m IN
    \/ /\ At("restore", 1) /\ Go(2) /\ "db" \in up[m] /\ Writers(m) = {} /\ Restorable(m)
       /\ db' = [db EXCEPT ![m] = backup.parts.database] /\ UNCHANGED <<media, writing>>
       /\ rekeyed' = [rekeyed EXCEPT ![m] = copied]
       /\ UNCHANGED <<machine, usb, backup, given, served, copied>>
    \/ unpack(m) /\ UNCHANGED <<machine, db, writing, usb, backup, given, keying>>

(***************************************************************************)
(* Around the commands.                                                    *)
(***************************************************************************)
\* A request stores a file, then its row.
Write(m) ==
    /\ "web" \in up[m] /\ ~writing[m] /\ work < MaxWork /\ work' = work + 1
    /\ media' = [media EXCEPT ![m] = work'] /\ writing' = [writing EXCEPT ![m] = TRUE]
    /\ UNCHANGED <<machine, db, usb, backup, job, sources, keysMade, keying>>
Written(m) ==
    /\ "web" \in up[m] /\ writing[m] /\ writing' = [writing EXCEPT ![m] = FALSE]
    /\ db' = [db EXCEPT ![m] = [version |-> media[m], keys |-> served[m]]]
    /\ UNCHANGED <<machine, media, usb, backup, job, given, keying>>

\* Sources are changed, or brought back to what they were, and source_manifest
\* is run; not while a command runs.
Change ==
    /\ job = None
    /\ \E f \in 1 .. MaxSources :
          /\ f <= sources + 1 /\ f # project[Old].files
          /\ sources' = IF f > sources THEN f ELSE sources
          /\ project' = [project EXCEPT ![Old].files = f]
    /\ UNCHANGED <<env, image, model, volumes, up, stored, usb, backup, job, work, keysMade, keying>>
SourceManifest ==
    /\ job = None /\ project[Old].manifest # project[Old].files
    /\ project' = [project EXCEPT ![Old].manifest = project[Old].files]
    /\ UNCHANGED <<env, image, model, volumes, up, stored, usb, backup, job, given, keying>>

\* A folder is damaged on its way, or an unusable one is thrown away.
Damage ==
    /\ job = None
    /\ \/ /\ usb # None
          /\ usb' \in {[usb EXCEPT !.parts.images = DamagedImage], [usb EXCEPT !.parts.models = Damaged]}
          /\ UNCHANGED backup
       \/ /\ backup # None /\ backup' = [backup EXCEPT !.parts.media = Damaged] /\ UNCHANGED usb
    /\ UNCHANGED <<machine, stored, job, given, keying>>
Discard ==
    /\ job = None
    /\ \/ usb # None /\ usb' = None /\ UNCHANGED backup
       \/ backup # None /\ backup' = None /\ UNCHANGED usb
    /\ UNCHANGED <<machine, stored, job, given, keying>>

Next ==
    \/ \E m \in Machines :
          \/ Start(m) \/ Stop(m) \/ ComposeUp(m) \/ Export(m) \/ CopyProject(m) \/ Import(m) \/ Backup(m)
          \/ ImportKeys(m) \/ Restore(m) \/ Write(m) \/ Written(m)
    \/ Configured \/ Built \/ Services \/ Modelled \/ Up \/ Exported \/ Imported \/ BackedUp \/ Restored
    \/ Fail \/ PowerCut \/ Change \/ SourceManifest \/ Damage \/ Discard

Spec == Init /\ [][Next]_vars

(***************************************************************************)
(* Properties.                                                             *)
(***************************************************************************)
\* A folder that gets its manifest is whole.  The images of a USB set are
\* those of its sources, whatever was edited, undone, rebuilt or interrupted
\* before, except images that were built while the files were not those of
\* the manifest: their label is not what they hold (export_usb).  A backup is
\* one moment of the installation, its database, media and keys, and no
\* request was half way (backup_compose).
CompletedIsWhole ==
    [][LET m == job.m
           set == usb'.manifest.parts
       IN  /\ At("export_usb", 4) /\ usb' # usb =>
                 (set.images.described => set.images.content = set.project)
           /\ At("backup", 4) /\ backup' # backup =>
                 /\ ~writing[m]
                 /\ backup'.manifest = [database |-> db[m], media |-> media[m], keys |-> env[m].keys]]_vars

\* An import or a restore that begins on a machine that is in use - also one
\* an earlier import stopped half way on - replaces nothing there
\* (import_usb, restore_backup).
InUseIsKept ==
    [][job # None /\ job.inUse =>
         /\ UNCHANGED <<env, image, model, volumes>>
         /\ work' = work /\ writing' = writing => UNCHANGED <<db, media>>]_vars

\* The site never runs on what it cannot decrypt: the keys of its container
\* are those its data was stored with, through failures, restarts, backups and
\* restores, and through imports of keys but those that bring other keys to an
\* installation that has data or whose site runs: that one, its backups and
\* what is restored from them (configure, deploy_env, restore_backup).
Decrypts(m) == "web" \in up[m] /\ db[m].version # 0 => db[m].keys = served[m]
Readable == \A m \in Machines : rekeyed[m] \/ Decrypts(m)
=============================================================================
