--------------------------- MODULE OperatorProofs ---------------------------
(* Theorems about Operator, for any bounds and any set of start options.     *)
EXTENDS Operator, TLAPS

(***************************************************************************)
(* The inductive invariant.                                                *)
(***************************************************************************)
AllServices == {"db", "web", "ollama", "autoquiz"}
Projects == [files : Int, manifest : Int]
Images == [content : Int, label : Int, described : BOOLEAN]
UsbParts == [project : Int, images : Images, models : Int]
UsbSets == [parts : UsbParts, manifest : [parts : UsbParts, ai : BOOLEAN] \cup {None}]
Databases == [version : Int, keys : Int]
BackupParts == [database : Databases, media : Int, keys : Int]
Backups == [parts : BackupParts, manifest : BackupParts \cup {None}]
Commands == {"start", "export_usb", "import_usb", "backup", "restore"}
Jobs == [cmd : Commands, m : Machines, step : 1 .. 5, inUse : BOOLEAN,
         writers : SUBSET AllServices, ai : BOOLEAN, offline : BOOLEAN, build : BOOLEAN]

Types ==
    /\ project \in [Machines -> Projects \cup {None}] /\ project[Old] \in Projects
    /\ env \in [Machines -> Envs \cup {None}]
    /\ image \in [Machines -> Images] /\ model \in [Machines -> {"none", "part", "whole"}]
    /\ volumes \in [Machines -> BOOLEAN]
    /\ db \in [Machines -> Databases] /\ media \in [Machines -> Int]
    /\ writing \in [Machines -> BOOLEAN] /\ up \in [Machines -> SUBSET AllServices]
    /\ usb \in UsbSets \cup {None} /\ backup \in Backups \cup {None}
    /\ job \in Jobs \cup {None}
    /\ sources \in Nat /\ work \in Nat /\ keysMade \in Nat
    /\ served \in [Machines -> Int] /\ rekeyed \in [Machines -> BOOLEAN] /\ copied \in BOOLEAN

\* What is stored was stored with the keys there are, and what runs the site
\* has them, unless other keys were imported over them; a request under way
\* has stored its file.
Keyed ==
    \A m \in Machines :
        /\ db[m].version # 0 => env[m] # None /\ (~rekeyed[m] => db[m].keys = env[m].keys)
        /\ "web" \in up[m] => env[m] # None /\ (~rekeyed[m] => served[m] = env[m].keys)
        /\ writing[m] => "web" \in up[m] /\ media[m] # 0

\* A backup that is complete has the keys of its database, unless it is one of
\* an installation whose keys were replaced.
BackupKeyed ==
    backup # None /\ backup.manifest # None /\ backup.parts.database.version # 0 /\ ~copied =>
        backup.parts.database.keys = backup.parts.keys

\* The images hold what they are labelled with, if they were built from it.
ImagesHold(i) == i.described => i.content = i.label
Labelled ==
    /\ \A m \in Machines : ImagesHold(image[m])
    /\ usb # None => ImagesHold(usb.parts.images)

\* What the steps of a command that were taken have left behind.
Commanded ==
    job # None =>
        LET m == job.m IN
        /\ project[m] \in Projects
        /\ job.cmd \in {"backup", "restore"} \/ (job.cmd = "start" /\ job.step >= 2)
              \/ (job.cmd = "import_usb" /\ job.step >= 3) => env[m] # None
        /\ job.writers # {} => job.cmd = "backup"
        /\ "web" \in job.writers /\ ~rekeyed[m] => served[m] = env[m].keys
        /\ job.inUse =>
              /\ job.step = 1
              /\ \/ job.cmd = "import_usb" /\ (env[m] # None \/ volumes[m])
                 \/ job.cmd = "restore" /\ (db[m].version # 0 \/ media[m] # 0)
        /\ job.cmd = "restore" /\ job.step >= 2 => "web" \notin up[m]
        /\ job.cmd = "export_usb" =>
              /\ usb \in UsbSets /\ ImagesHold(usb.parts.images)
              /\ job.step = 2 => usb.parts.project = image[m].label
              /\ job.step >= 3 => usb.parts.images.label = usb.parts.project
        /\ job.cmd = "import_usb" => usb \in UsbSets /\ ImagesHold(usb.parts.images)
        /\ job.cmd = "restore" => backup \in Backups /\ backup # None
        /\ job.cmd = "backup" =>
              /\ backup \in Backups /\ backup.manifest = None
              /\ job.step >= 2 => "web" \notin up[m]
              /\ job.step >= 3 => backup.parts.database = db[m] /\ copied = rekeyed[m]
              /\ job.step >= 4 => backup.parts.media = media[m] /\ backup.parts.keys = env[m].keys

OperatorInv == Types /\ Keyed /\ BackupKeyed /\ Labelled /\ Commanded

LEMMA Starts == Init => OperatorInv
<1> SUFFICES ASSUME Init PROVE OperatorInv
    OBVIOUS
<1>1. NoImage \in Images /\ ImagesHold(NoImage) /\ Empty \in Databases
    BY DEF NoImage, Images, ImagesHold, Empty, Databases
<1>2. project \in [Machines -> Projects \cup {None}] /\ project[Old] \in Projects
    BY DEF Init, Projects, Machines
<1>3. image \in [Machines -> Images] /\ db \in [Machines -> Databases]
    BY <1>1 DEF Init
<1>4. /\ env \in [Machines -> Envs \cup {None}] /\ model \in [Machines -> {"none", "part", "whole"}]
      /\ volumes \in [Machines -> BOOLEAN] /\ media \in [Machines -> Int]
      /\ writing \in [Machines -> BOOLEAN] /\ up \in [Machines -> SUBSET AllServices]
    BY DEF Init
<1>5. /\ sources \in Nat /\ work \in Nat /\ keysMade \in Nat
      /\ served \in [Machines -> Int] /\ rekeyed \in [Machines -> BOOLEAN]
    BY DEF Init
<1>6. copied \in BOOLEAN
    BY Zenon DEF Init
<1>7. Types
    BY <1>2, <1>3, <1>4, <1>5, <1>6 DEF Init, Types
<1>8. Keyed /\ BackupKeyed /\ Labelled /\ Commanded
    BY <1>1 DEF Init, Keyed, BackupKeyed, Labelled, Commanded, Empty
<1> QED BY <1>7, <1>8 DEF OperatorInv

\* A command begins: nothing is changed, and it knows whether the machine is
\* in use.
LEMMA JobBegun ==
    ASSUME NEW cmd \in Commands, NEW m \in Machines,
           NEW args \in [ai : BOOLEAN, offline : BOOLEAN, build : BOOLEAN],
           Begin(cmd, m, args), Types
    PROVE  /\ job = None /\ job' \in Jobs /\ project[m] \in Projects
           /\ job'.cmd = cmd /\ job'.m = m /\ job'.step = 1 /\ job'.writers = {}
           /\ job'.inUse => \/ cmd = "import_usb" /\ (env[m] # None \/ volumes[m])
                            \/ cmd = "restore" /\ (db[m].version # 0 \/ media[m] # 0)
<1>1. InUse(cmd, m) \in BOOLEAN
    BY DEF InUse, Types, Commands
<1>2. InUse(cmd, m) => \/ cmd = "import_usb" /\ (env[m] # None \/ volumes[m])
                       \/ cmd = "restore" /\ (db[m].version # 0 \/ media[m] # 0)
    BY DEF InUse, Commands
<1> QED BY <1>1, <1>2 DEF Begin, Jobs, Types

LEMMA KeepsBegin ==
    ASSUME OperatorInv, NEW m \in Machines, Start(m) \/ Export(m) \/ Import(m) \/ Backup(m) \/ Restore(m)
    PROVE  OperatorInv'
<1>1. Types /\ Keyed /\ BackupKeyed /\ Labelled
    BY DEF OperatorInv
<1>2. CASE Start(m)
    <2>1. PICK options \in StartOptions : Begin("start", m, options)
        BY <1>2 DEF Start
    <2>2. UNCHANGED <<machine, stored, usb, backup, given, keying>>
        BY <1>2 DEF Start
    <2>3. /\ project[m] \in Projects /\ job'.m = m
          /\ job' \in Jobs /\ job'.cmd = "start" /\ job'.step = 1 /\ job'.writers = {}
          /\ ~job'.inUse
        BY <1>1, <2>1, OperatorConstants, JobBegun DEF Commands
    <2>4. Types'
        BY <1>1, <2>2, <2>3 DEF Types, machine, stored, given, keying
    <2>5. Keyed' /\ BackupKeyed' /\ Labelled'
        BY <1>1, <2>2 DEF Keyed, BackupKeyed, Labelled, keying, machine, stored
    <2>6. Commanded'
        BY <2>2, <2>3 DEF Commanded, machine
    <2> QED BY <2>4, <2>5, <2>6 DEF OperatorInv
<1>3. CASE Export(m)
    <2> DEFINE args == [ai |-> env[m].ai, offline |-> TRUE, build |-> FALSE]
    <2>1. /\ env[m] # None /\ Begin("export_usb", m, args)
          /\ usb' = [parts |-> [project |-> 0, images |-> NoImage, models |-> 0], manifest |-> None]
          /\ UNCHANGED <<machine, stored, backup, given, keying>>
        BY <1>3 DEF Export
    <2>2. args \in [ai : BOOLEAN, offline : BOOLEAN, build : BOOLEAN]
        BY <1>1, <2>1 DEF Types, Envs
    <2>3. usb' \in UsbSets /\ ImagesHold(usb'.parts.images)
        <3>1. NoImage \in Images /\ ImagesHold(NoImage)
            BY DEF NoImage, Images, ImagesHold
        <3> QED BY <2>1, <3>1 DEF UsbSets, UsbParts
    <2> HIDE DEF args
    <2>4. /\ project[m] \in Projects /\ job'.m = m
          /\ job' \in Jobs /\ job'.cmd = "export_usb" /\ job'.step = 1 /\ job'.writers = {}
          /\ ~job'.inUse
        BY <1>1, <2>1, <2>2, JobBegun DEF Commands
    <2>5. Types'
        BY <1>1, <2>1, <2>3, <2>4 DEF Types, machine, stored, given, keying
    <2>6. Keyed' /\ BackupKeyed' /\ Labelled'
        BY <1>1, <2>1, <2>3 DEF Keyed, BackupKeyed, Labelled, keying, machine, stored
    <2>7. Commanded'
        BY <2>1, <2>3, <2>4 DEF Commanded, machine
    <2> QED BY <2>5, <2>6, <2>7 DEF OperatorInv
<1>4. CASE Import(m)
    <2> DEFINE args == [ai |-> FALSE, offline |-> TRUE, build |-> FALSE]
    <2>1. /\ usb # None /\ Begin("import_usb", m, args)
          /\ UNCHANGED <<machine, stored, usb, backup, given, keying>>
        BY <1>4 DEF Import
    <2>2. args \in [ai : BOOLEAN, offline : BOOLEAN, build : BOOLEAN]
        OBVIOUS
    <2> HIDE DEF args
    <2>3. /\ project[m] \in Projects
          /\ job' \in Jobs /\ job'.cmd = "import_usb" /\ job'.step = 1 /\ job'.writers = {}
          /\ job'.m = m /\ (job'.inUse => env[m] # None \/ volumes[m])
        BY <1>1, <2>1, <2>2, JobBegun DEF Commands
    <2>4. Types' /\ usb' \in UsbSets /\ ImagesHold(usb'.parts.images)
        BY <1>1, <2>1, <2>3 DEF Types, Labelled, machine, stored, given, keying
    <2>5. Keyed' /\ BackupKeyed' /\ Labelled'
        BY <1>1, <2>1 DEF Keyed, BackupKeyed, Labelled, keying, machine, stored
    <2>6. Commanded'
        BY <2>1, <2>3, <2>4 DEF Commanded, machine
    <2> QED BY <2>4, <2>5, <2>6 DEF OperatorInv
<1>5. CASE Backup(m)
    <2> DEFINE args == [ai |-> FALSE, offline |-> FALSE, build |-> FALSE]
    <2>1. /\ env[m] # None /\ Begin("backup", m, args)
          /\ backup' = [parts |-> [database |-> Empty, media |-> 0, keys |-> 0], manifest |-> None]
          /\ UNCHANGED <<machine, stored, usb, given, keying>>
        BY <1>5 DEF Backup
    <2>2. args \in [ai : BOOLEAN, offline : BOOLEAN, build : BOOLEAN]
        OBVIOUS
    <2> HIDE DEF args
    <2>3. backup' \in Backups /\ backup'.manifest = None
        BY <2>1 DEF Backups, BackupParts, Databases, Empty
    <2>4. /\ project[m] \in Projects
          /\ job' \in Jobs /\ job'.cmd = "backup" /\ job'.step = 1 /\ job'.writers = {}
          /\ job'.m = m /\ ~job'.inUse
        BY <1>1, <2>1, <2>2, JobBegun DEF Commands
    <2>5. Types'
        BY <1>1, <2>1, <2>3, <2>4 DEF Types, machine, stored, given, keying
    <2>6. Keyed' /\ BackupKeyed' /\ Labelled'
        BY <1>1, <2>1, <2>3 DEF Keyed, BackupKeyed, Labelled, keying, machine, stored
    <2>7. Commanded'
        BY <2>1, <2>3, <2>4 DEF Commanded, machine
    <2> QED BY <2>5, <2>6, <2>7 DEF OperatorInv
<1>6. CASE Restore(m)
    <2> DEFINE args == [ai |-> FALSE, offline |-> FALSE, build |-> FALSE]
    <2>1. /\ backup # None /\ env[m] # None /\ Begin("restore", m, args)
          /\ UNCHANGED <<machine, stored, usb, backup, given, keying>>
        BY <1>6 DEF Restore
    <2>2. args \in [ai : BOOLEAN, offline : BOOLEAN, build : BOOLEAN]
        OBVIOUS
    <2> HIDE DEF args
    <2>3. /\ project[m] \in Projects
          /\ job' \in Jobs /\ job'.cmd = "restore" /\ job'.step = 1 /\ job'.writers = {}
          /\ job'.m = m /\ (job'.inUse => db[m].version # 0 \/ media[m] # 0)
        BY <1>1, <2>1, <2>2, JobBegun DEF Commands
    <2>4. Types' /\ backup' \in Backups /\ backup' # None
        BY <1>1, <2>1, <2>3 DEF Types, machine, stored, given, keying
    <2>5. Keyed' /\ BackupKeyed' /\ Labelled'
        BY <1>1, <2>1 DEF Keyed, BackupKeyed, Labelled, keying, machine, stored
    <2>6. Commanded'
        BY <2>1, <2>3, <2>4 DEF Commanded, machine, stored
    <2> QED BY <2>4, <2>5, <2>6 DEF OperatorInv
<1> QED BY <1>2, <1>3, <1>4, <1>5, <1>6

\* A step of a command that stays in its place.
LEMMA JobGoes ==
    ASSUME Types, NEW cmd, NEW n \in 1 .. 4, At(cmd, n), Go(n + 1)
    PROVE  /\ job \in Jobs /\ job.cmd = cmd /\ job.step = n /\ job.m \in Machines
           /\ job' \in Jobs /\ job'.step = n + 1 /\ job'.cmd = cmd
           /\ job'.m = job.m /\ job'.inUse = job.inUse /\ job'.writers = job.writers
           /\ job'.ai = job.ai
BY DEF Types, At, Go, Jobs

\* deploy_env keeps the keys of an installation.
LEMMA ConfiguredKeys ==
    ASSUME Types, NEW m \in Machines, NEW ai \in BOOLEAN, Configure(m, ai)
    PROVE  /\ env' \in [Machines -> Envs \cup {None}] /\ keysMade' \in Nat
           /\ env'[m] # None /\ (env[m] # None => env'[m].keys = env[m].keys)
           /\ \A k \in Machines \ {m} : env'[k] = env[k]
<1> DEFINE k == KeysOf(m)
<1>1. k \in Int /\ (env[m] # None => k = env[m].keys)
    BY DEF KeysOf, Types, Envs
<1>2. /\ env' = [env EXCEPT ![m] = [keys |-> k, ai |-> ai]]
      /\ keysMade' = IF k > keysMade THEN k ELSE keysMade
    BY DEF Configure
<1> HIDE DEF k
<1>3. [keys |-> k, ai |-> ai] \in Envs
    BY <1>1 DEF Envs
<1>4. keysMade' \in Nat
    BY <1>1, <1>2 DEF Types
<1> QED BY <1>1, <1>2, <1>3, <1>4, OperatorConstants DEF Types

LEMMA KeepsConfigured ==
    ASSUME OperatorInv, Configured
    PROVE  OperatorInv'
<1>1. Types /\ Keyed /\ BackupKeyed /\ Labelled /\ Commanded
    BY DEF OperatorInv
<1>2. /\ At("start", 1) /\ Go(1 + 1) /\ Configure(job.m, job.ai)
      /\ UNCHANGED <<project, image, model, volumes, up, stored, usb, backup, sources, work, keying>>
    BY DEF Configured
<1>3. /\ job \in Jobs /\ job.cmd = "start" /\ job.step = 1 /\ job.m \in Machines
      /\ job' \in Jobs /\ job'.step = 2 /\ job'.cmd = "start"
      /\ job'.m = job.m /\ job'.inUse = job.inUse /\ job'.writers = job.writers
    BY <1>1, <1>2, JobGoes
<1>4. job.ai \in BOOLEAN
    BY <1>3 DEF Jobs
<1>5. /\ env' \in [Machines -> Envs \cup {None}] /\ keysMade' \in Nat
      /\ env'[job.m] # None /\ (env[job.m] # None => env'[job.m].keys = env[job.m].keys)
      /\ \A k \in Machines \ {job.m} : env'[k] = env[k]
    BY <1>1, <1>2, <1>3, <1>4, ConfiguredKeys
<1>6. Types'
    BY <1>1, <1>2, <1>3, <1>5 DEF Types, stored, keying
<1>7. Keyed'
    BY <1>1, <1>2, <1>5 DEF Keyed, stored, keying
<1>8. BackupKeyed' /\ Labelled'
    BY <1>1, <1>2 DEF BackupKeyed, Labelled, keying
<1>9. Commanded'
    BY <1>1, <1>2, <1>3, <1>5 DEF Commanded, At, keying
<1> QED BY <1>6, <1>7, <1>8, <1>9 DEF OperatorInv

LEMMA KeepsBuilt ==
    ASSUME OperatorInv, Built
    PROVE  OperatorInv'
<1>1. Types /\ Keyed /\ BackupKeyed /\ Labelled /\ Commanded
    BY DEF OperatorInv
<1>2. /\ At("start", 2) /\ Go(2 + 1)
      /\ UNCHANGED <<project, env, model, volumes, up, stored, usb, backup, given, keying>>
    BY DEF Built
<1>3. /\ job \in Jobs /\ job.cmd = "start" /\ job.step = 2 /\ job.m \in Machines
      /\ job' \in Jobs /\ job'.step = 3 /\ job'.cmd = "start"
      /\ job'.m = job.m /\ job'.inUse = job.inUse /\ job'.writers = job.writers
    BY <1>1, <1>2, JobGoes
<1>4. job # None /\ project[job.m] \in Projects
    BY <1>1, <1>2 DEF Commanded, At
<1> DEFINE built == BuiltFrom(project[job.m].files, project[job.m].manifest)
<1>5. built \in Images /\ ImagesHold(built)
    BY <1>4 DEF BuiltFrom, Images, ImagesHold, Projects
<1>6. image' = image \/ image' = [image EXCEPT ![job.m] = built]
    <2>1. image' = image \/ image' = [image EXCEPT ![job.m] = image[job.m]]
             \/ image' = [image EXCEPT ![job.m] = built]
        BY DEF Built
    <2> QED BY <1>1, <2>1 DEF Types
<1> HIDE DEF built
<1>7. image' \in [Machines -> Images] /\ \A m \in Machines : ImagesHold(image'[m])
    BY <1>1, <1>3, <1>5, <1>6 DEF Types, Labelled
<1>8. Types'
    BY <1>1, <1>2, <1>3, <1>7 DEF Types, stored, given, keying
<1>9. Keyed' /\ BackupKeyed' /\ Labelled'
    BY <1>1, <1>2, <1>7 DEF Keyed, BackupKeyed, Labelled, keying, stored
<1>10. Commanded'
    BY <1>1, <1>2, <1>3, <1>4 DEF Commanded, keying
<1> QED BY <1>8, <1>9, <1>10 DEF OperatorInv

LEMMA KeepsServices ==
    ASSUME OperatorInv, Services
    PROVE  OperatorInv'
<1>1. Types /\ Keyed /\ BackupKeyed /\ Labelled /\ Commanded
    BY DEF OperatorInv
<1>2. /\ At("start", 3) /\ Go(3 + 1)
      /\ volumes' = [volumes EXCEPT ![job.m] = TRUE]
      /\ up' = [up EXCEPT ![job.m] = IF job.ai THEN up[job.m] \cup {"db", "ollama"}
                                     ELSE (up[job.m] \cup {"db"}) \ Ai]
      /\ UNCHANGED <<project, env, image, model, stored, usb, backup, given, keying>>
    BY DEF Services
<1>3. /\ job \in Jobs /\ job.cmd = "start" /\ job.step = 3 /\ job.m \in Machines
      /\ job' \in Jobs /\ job'.step = 4 /\ job'.cmd = "start"
      /\ job'.m = job.m /\ job'.inUse = job.inUse /\ job'.writers = job.writers
    BY <1>1, <1>2, JobGoes
<1>4. /\ up' \in [Machines -> SUBSET AllServices] /\ volumes' \in [Machines -> BOOLEAN]
      /\ \A k \in Machines : "web" \in up'[k] <=> "web" \in up[k]
    BY <1>1, <1>2, <1>3 DEF Types, AllServices, Ai
<1>5. Types'
    BY <1>1, <1>2, <1>3, <1>4 DEF Types, stored, given, keying
<1>6. Keyed' /\ BackupKeyed' /\ Labelled'
    BY <1>1, <1>2, <1>4 DEF Keyed, BackupKeyed, Labelled, keying, stored
<1>7. Commanded'
    BY <1>1, <1>2, <1>3 DEF Commanded, At
<1> QED BY <1>5, <1>6, <1>7 DEF OperatorInv

LEMMA KeepsModelled ==
    ASSUME OperatorInv, Modelled
    PROVE  OperatorInv'
<1>1. Types /\ Keyed /\ BackupKeyed /\ Labelled /\ Commanded
    BY DEF OperatorInv
<1>2. /\ At("start", 4) /\ Go(4 + 1)
      /\ model' = model \/ model' = [model EXCEPT ![job.m] = "whole"]
      /\ UNCHANGED <<project, env, image, volumes, up, stored, usb, backup, given, keying>>
    BY DEF Modelled
<1>3. /\ job \in Jobs /\ job.cmd = "start" /\ job.step = 4 /\ job.m \in Machines
      /\ job' \in Jobs /\ job'.step = 5 /\ job'.cmd = "start"
      /\ job'.m = job.m /\ job'.inUse = job.inUse /\ job'.writers = job.writers
    BY <1>1, <1>2, JobGoes
<1>4. Types'
    BY <1>1, <1>2, <1>3 DEF Types, stored, given, keying
<1>5. Keyed' /\ BackupKeyed' /\ Labelled'
    BY <1>1, <1>2 DEF Keyed, BackupKeyed, Labelled, keying, stored
<1>6. Commanded'
    BY <1>1, <1>2, <1>3 DEF Commanded, At
<1> QED BY <1>4, <1>5, <1>6 DEF OperatorInv

LEMMA EverythingIs ==
    \A m \in Machines : Everything(m) \subseteq AllServices
BY DEF Everything, AllServices, Ai

\* The site is started with the keys of .env.deploy, a request that was cut off
\* writes nothing more.
LEMMA SiteIsUp ==
    ASSUME Types, NEW m \in Machines, env[m] # None, SiteUp(m)
    PROVE  /\ served' \in [Machines -> Int] /\ served'[m] = env[m].keys
           /\ writing' \in [Machines -> BOOLEAN]
           /\ \A k \in Machines : writing'[k] => writing[k]
           /\ \A k \in Machines \ {m} : served'[k] = served[k]
           /\ UNCHANGED <<rekeyed, copied>>
<1>1. served' = [served EXCEPT ![m] = env[m].keys] /\ UNCHANGED <<rekeyed, copied>>
    BY DEF SiteUp
<1>2. env[m].keys \in Int
    BY DEF Types, Envs
<1>3. PICK cut \in BOOLEAN : writing' = [writing EXCEPT ![m] = writing[m] /\ ~cut]
    BY DEF SiteUp
<1> DEFINE still == writing[m] /\ ~cut
<1>4. still \in BOOLEAN /\ (still => writing[m])
    OBVIOUS
<1>5. writing' = [writing EXCEPT ![m] = still]
    BY <1>3
<1> HIDE DEF still
<1>6. writing' \in [Machines -> BOOLEAN] /\ \A k \in Machines : writing'[k] => writing[k]
    BY <1>4, <1>5 DEF Types
<1> QED BY <1>1, <1>2, <1>6 DEF Types

LEMMA KeepsUp ==
    ASSUME OperatorInv, Up
    PROVE  OperatorInv'
<1>1. Types /\ Keyed /\ BackupKeyed /\ Labelled /\ Commanded
    BY DEF OperatorInv
<1>2. /\ At("start", 5) /\ job' = None /\ SiteUp(job.m)
      /\ up' = [up EXCEPT ![job.m] = Everything(job.m)]
      /\ UNCHANGED <<project, env, image, model, volumes, db, media, usb, backup, given>>
    BY DEF Up, Done
<1>3. job # None /\ job.cmd = "start" /\ job.step = 5 /\ job \in Jobs /\ job.m \in Machines
    BY <1>1, <1>2 DEF At, Types, Jobs
<1>4. env[job.m] # None
    BY <1>1, <1>3 DEF Commanded
<1>5. /\ up' \in [Machines -> SUBSET AllServices] /\ up'[job.m] = Everything(job.m)
      /\ \A k \in Machines \ {job.m} : up'[k] = up[k]
    BY <1>1, <1>2, <1>3, EverythingIs DEF Types
<1>6. "web" \in Everything(job.m)
    BY DEF Everything
<1>7. /\ served' \in [Machines -> Int] /\ served'[job.m] = env[job.m].keys
      /\ writing' \in [Machines -> BOOLEAN]
      /\ \A k \in Machines : writing'[k] => writing[k]
      /\ \A k \in Machines \ {job.m} : served'[k] = served[k]
      /\ UNCHANGED <<rekeyed, copied>>
    BY <1>1, <1>2, <1>3, <1>4, SiteIsUp
<1>8. Types'
    BY <1>1, <1>2, <1>5, <1>7 DEF Types, given
<1>9. Keyed'
    BY <1>1, <1>2, <1>4, <1>5, <1>6, <1>7 DEF Keyed
<1>10. BackupKeyed' /\ Labelled' /\ Commanded'
    BY <1>1, <1>2, <1>7 DEF BackupKeyed, Labelled, Commanded
<1> QED BY <1>8, <1>9, <1>10 DEF OperatorInv

(***************************************************************************)
(* The USB set.                                                            *)
(***************************************************************************)
LEMMA KeepsExported ==
    ASSUME OperatorInv, Exported
    PROVE  OperatorInv'
<1> DEFINE m == job.m
<1>1. Types /\ Keyed /\ BackupKeyed /\ Labelled /\ Commanded
    BY DEF OperatorInv
<1>2. UNCHANGED <<machine, stored, backup, given, keying>>
    BY DEF Exported
<1>3. job # None /\ job \in Jobs /\ job.cmd = "export_usb"
    BY <1>1 DEF Exported, At, Types
<1>4. /\ usb \in UsbSets /\ m \in Machines /\ ~job.inUse /\ job.writers = {}
      /\ project[m] \in Projects /\ ImagesHold(usb.parts.images)
    BY <1>1, <1>3 DEF Commanded, Jobs
<1>5. Keyed' /\ BackupKeyed'
    BY <1>1, <1>2 DEF Keyed, BackupKeyed, keying, machine, stored
<1>6. ASSUME usb' \in UsbSets, ImagesHold(usb'.parts.images), job' \in Jobs \cup {None}
      PROVE  Types' /\ Labelled'
    BY <1>1, <1>2, <1>6 DEF Types, Labelled, machine, stored, given, keying
<1>7. CASE /\ At("export_usb", 1) /\ Go(2) /\ Exportable(m)
           /\ usb' = [usb EXCEPT !.parts.project = project[m].files]
    <2>1. /\ job' \in Jobs /\ job'.step = 2 /\ job'.cmd = "export_usb"
          /\ job'.m = m /\ job'.inUse = job.inUse /\ job'.writers = job.writers
        BY <1>1, <1>7, JobGoes
    <2>2. /\ usb' \in UsbSets /\ usb'.parts.project = image[m].label
          /\ ImagesHold(usb'.parts.images)
        BY <1>4, <1>7 DEF UsbSets, UsbParts, Projects, Exportable
    <2>3. Commanded'
        BY <1>2, <1>4, <2>1, <2>2 DEF Commanded, machine
    <2> QED BY <1>5, <1>6, <2>1, <2>2, <2>3 DEF OperatorInv
<1>8. CASE /\ At("export_usb", 2) /\ Go(3) /\ usb' = [usb EXCEPT !.parts.images = image[m]]
    <2>1. /\ job' \in Jobs /\ job'.step = 3 /\ job'.cmd = "export_usb" /\ job.step = 2
          /\ job'.m = m /\ job'.inUse = job.inUse /\ job'.writers = job.writers
        BY <1>1, <1>8, JobGoes
    <2>2. image[m] \in Images /\ ImagesHold(image[m]) /\ usb.parts.project = image[m].label
        BY <1>1, <1>3, <1>4, <2>1 DEF Types, Labelled, Commanded
    <2>3. /\ usb' \in UsbSets /\ usb'.parts.images = image[m]
          /\ usb'.parts.project = usb.parts.project
        BY <1>4, <1>8, <2>2 DEF UsbSets, UsbParts
    <2>4. Commanded'
        BY <1>2, <1>4, <2>1, <2>2, <2>3 DEF Commanded, machine
    <2> QED BY <1>5, <1>6, <2>1, <2>2, <2>3, <2>4 DEF OperatorInv
<1>9. CASE /\ At("export_usb", 3) /\ Go(4)
           /\ usb' = [usb EXCEPT !.parts.models = IF ~job.ai THEN 0 ELSE IF model[m] = "whole" THEN 2 ELSE 1]
    <2>1. /\ job' \in Jobs /\ job'.step = 4 /\ job'.cmd = "export_usb" /\ job.step = 3
          /\ job'.m = m /\ job'.inUse = job.inUse /\ job'.writers = job.writers
        BY <1>1, <1>9, JobGoes
    <2>2. usb.parts.images.label = usb.parts.project
        BY <1>1, <1>3, <2>1 DEF Commanded
    <2>3. /\ usb' \in UsbSets /\ usb'.parts.images = usb.parts.images
          /\ usb'.parts.project = usb.parts.project
        BY <1>4, <1>9 DEF UsbSets, UsbParts
    <2>4. Commanded'
        BY <1>2, <1>4, <2>1, <2>2, <2>3 DEF Commanded, machine
    <2> QED BY <1>4, <1>5, <1>6, <2>1, <2>3, <2>4 DEF OperatorInv
<1>10. CASE /\ At("export_usb", 4) /\ Done
            /\ usb' = [usb EXCEPT !.manifest = [parts |-> usb.parts, ai |-> job.ai]]
    <2>1. job' = None
        BY <1>10 DEF Done
    <2>2. usb' \in UsbSets /\ usb'.parts = usb.parts
        BY <1>3, <1>4, <1>10 DEF UsbSets, Jobs
    <2> QED BY <1>4, <1>5, <1>6, <2>1, <2>2 DEF OperatorInv, Commanded
<1> QED BY <1>7, <1>8, <1>9, <1>10 DEF Exported

LEMMA JobChanged ==
    ASSUME NEW j \in Jobs
    PROVE  /\ \A ai \in BOOLEAN : [j EXCEPT !.step = 2, !.ai = ai] \in Jobs
           /\ [j EXCEPT !.cmd = "start", !.step = 1] \in Jobs
<1>1. \A k \in Jobs : [k EXCEPT !.step = 1] \in Jobs /\ [k EXCEPT !.step = 2] \in Jobs
    BY DEF Jobs
<1>2. \A k \in Jobs, ai \in BOOLEAN : [k EXCEPT !.ai = ai] \in Jobs
    BY DEF Jobs
<1>3. \A k \in Jobs : [k EXCEPT !.cmd = "start"] \in Jobs
    BY DEF Jobs, Commands
<1>4. \A ai : [j EXCEPT !.step = 2, !.ai = ai] = [[j EXCEPT !.step = 2] EXCEPT !.ai = ai]
    OBVIOUS
<1>5. [j EXCEPT !.cmd = "start", !.step = 1] = [[j EXCEPT !.cmd = "start"] EXCEPT !.step = 1]
    OBVIOUS
<1>6. \A ai \in BOOLEAN : [j EXCEPT !.step = 2, !.ai = ai] \in Jobs
    <2> DEFINE k == [j EXCEPT !.step = 2]
    <2>1. k \in Jobs
        BY <1>1
    <2> HIDE DEF k
    <2>2. \A ai \in BOOLEAN : [k EXCEPT !.ai = ai] \in Jobs
        BY <1>2, <2>1
    <2> QED BY <1>4, <2>2 DEF k
<1>7. [j EXCEPT !.cmd = "start", !.step = 1] \in Jobs
    <2> DEFINE k == [j EXCEPT !.cmd = "start"]
    <2>1. k \in Jobs
        BY <1>3
    <2> HIDE DEF k
    <2>2. [k EXCEPT !.step = 1] \in Jobs
        BY <1>1, <2>1
    <2> QED BY <1>5, <2>2 DEF k
<1> QED BY <1>6, <1>7

LEMMA KeepsImported ==
    ASSUME OperatorInv, Imported
    PROVE  OperatorInv'
<1> DEFINE m == job.m
<1>1. Types /\ Keyed /\ BackupKeyed /\ Labelled /\ Commanded
    BY DEF OperatorInv
<1>2. UNCHANGED <<project, up, stored, usb, backup, sources, work, keying>>
    BY DEF Imported, given, keying
<1>3. job # None /\ job \in Jobs /\ job.cmd = "import_usb"
    BY <1>1 DEF Imported, At, Types
<1>4. /\ usb \in UsbSets /\ ImagesHold(usb.parts.images) /\ m \in Machines /\ job.writers = {} /\ project[m] \in Projects
      /\ job.inUse => job.step = 1 /\ (env[m] # None \/ volumes[m])
    BY <1>1, <1>3 DEF Commanded, Jobs
<1>5. BackupKeyed' /\ (image' = image => Labelled')
    BY <1>1, <1>2 DEF BackupKeyed, Labelled, keying
<1>6. CASE At("import_usb", 1) /\ usb.manifest # None /\ Sound(usb, usb.manifest.parts) /\ Fresh(m)
           /\ job' = [job EXCEPT !.step = 2, !.ai = usb.manifest.ai]
           /\ image' = [image EXCEPT ![m] = usb.parts.images]
           /\ UNCHANGED <<env, model, volumes, given, keying>>
    <2>1. /\ usb.manifest.ai \in BOOLEAN /\ usb.parts.images \in Images
          /\ ImagesHold(usb.parts.images)
        BY <1>4, <1>6 DEF UsbSets, UsbParts
    <2>2. ~job.inUse
        BY <1>4, <1>6 DEF Fresh
    <2>3. /\ job' \in Jobs /\ job'.step = 2 /\ job'.cmd = "import_usb" /\ job'.m = m
          /\ job'.inUse = job.inUse /\ job'.writers = {}
        <3>1. job' \in Jobs
            BY <1>3, <1>6, <2>1, JobChanged
        <3>2. /\ job'.step = 2 /\ job'.cmd = job.cmd /\ job'.m = job.m
              /\ job'.inUse = job.inUse /\ job'.writers = job.writers
            BY <1>3, <1>6 DEF Jobs
        <3> QED BY <1>3, <1>4, <3>1, <3>2
    <2>4. Types'
        BY <1>1, <1>2, <1>4, <1>6, <2>1, <2>3 DEF Types, stored, given, keying
    <2>5. Keyed'
        BY <1>1, <1>2, <1>6 DEF Keyed, stored, keying
    <2>6. Commanded'
        BY <1>2, <1>4, <1>6, <2>2, <2>3 DEF Commanded
    <2>7. Labelled'
        BY <1>1, <1>2, <1>4, <1>6, <2>1 DEF Labelled, Types
    <2> QED BY <1>5, <2>4, <2>5, <2>6, <2>7 DEF OperatorInv
<1>7. CASE At("import_usb", 2) /\ Go(3) /\ Configure(m, job.ai)
           /\ UNCHANGED <<image, model, volumes>>
    <2>1. /\ job' \in Jobs /\ job'.step = 3 /\ job'.cmd = "import_usb" /\ job.step = 2
          /\ job'.m = m /\ job'.inUse = job.inUse /\ job'.writers = job.writers /\ job.ai \in BOOLEAN
        BY <1>1, <1>3, <1>7, JobGoes DEF Jobs
    <2> HIDE DEF m
    <2>2. /\ env' \in [Machines -> Envs \cup {None}] /\ keysMade' \in Nat
          /\ env'[m] # None /\ (env[m] # None => env'[m].keys = env[m].keys)
          /\ \A k \in Machines \ {m} : env'[k] = env[k]
        BY <1>1, <1>4, <1>7, <2>1, ConfiguredKeys
    <2>3. Types'
        BY <1>1, <1>2, <1>7, <2>1, <2>2 DEF Types, stored, keying
    <2>4. Keyed'
        BY <1>1, <1>2, <2>2 DEF Keyed, stored, keying
    <2>5. Commanded'
        BY <1>2, <1>4, <2>1, <2>2 DEF Commanded
    <2> QED BY <1>5, <1>7, <2>3, <2>4, <2>5 DEF OperatorInv
<1>8. CASE At("import_usb", 3) /\ Go(4)
           /\ (job.ai => volumes' = [volumes EXCEPT ![m] = TRUE] /\ model' = [model EXCEPT ![m] = "part"])
           /\ (~job.ai => UNCHANGED <<volumes, model>>)
           /\ UNCHANGED <<env, image, given, keying>>
    <2>1. /\ job' \in Jobs /\ job'.step = 4 /\ job'.cmd = "import_usb" /\ job.step = 3
          /\ job'.m = m /\ job'.inUse = job.inUse /\ job'.writers = job.writers
        BY <1>1, <1>8, JobGoes
    <2>2. UNCHANGED <<env, image, given, keying>>
        BY <1>8
    <2>3. /\ volumes' \in [Machines -> BOOLEAN] /\ model' \in [Machines -> {"none", "part", "whole"}]
        <3>1. CASE job.ai
            BY <1>1, <1>8, <3>1 DEF Types
        <3>2. CASE ~job.ai
            BY <1>1, <1>8, <3>2 DEF Types
        <3> QED BY <3>1, <3>2
    <2>4. Types'
        BY <1>1, <1>2, <2>1, <2>2, <2>3 DEF Types, stored, given, keying
    <2>5. Keyed'
        BY <1>1, <1>2, <2>2 DEF Keyed, stored, keying
    <2>6. env[m] # None
        BY <1>1, <1>3, <2>1 DEF Commanded
    <2>7. Commanded'
        BY <1>2, <1>4, <2>1, <2>6, <2>2 DEF Commanded
    <2> QED BY <1>5, <2>2, <2>4, <2>5, <2>7 DEF OperatorInv
<1>9. CASE At("import_usb", 4) /\ job' = [job EXCEPT !.cmd = "start", !.step = 1]
           /\ model' = [model EXCEPT ![m] = IF job.ai /\ usb.parts.models = 2 THEN "whole" ELSE model[m]]
           /\ UNCHANGED <<env, image, volumes, given, keying>>
    <2>1. job.step = 4
        BY <1>9 DEF At
    <2>2. /\ job' \in Jobs /\ job'.step = 1 /\ job'.cmd = "start" /\ job'.m = m
          /\ job'.inUse = job.inUse /\ job'.writers = {}
        <3>1. job' \in Jobs
            BY <1>3, <1>9, JobChanged
        <3>2. /\ job'.step = 1 /\ job'.cmd = "start" /\ job'.m = job.m
              /\ job'.inUse = job.inUse /\ job'.writers = job.writers
            BY <1>3, <1>9 DEF Jobs
        <3> QED BY <1>4, <3>1, <3>2
    <2>3. Types'
        BY <1>1, <1>2, <1>9, <2>2 DEF Types, stored, given, keying
    <2>4. Keyed'
        BY <1>1, <1>2, <1>9 DEF Keyed, stored, keying
    <2>5. Commanded'
        BY <1>2, <1>4, <2>1, <2>2 DEF Commanded
    <2> QED BY <1>5, <1>9, <2>3, <2>4, <2>5 DEF OperatorInv
<1> QED BY <1>6, <1>7, <1>8, <1>9 DEF Imported, given, keying

(***************************************************************************)
(* The backup.                                                             *)
(***************************************************************************)
\* Services of a machine are stopped: what is not running writes nothing.
LEMMA StoppedServices ==
    ASSUME Types, Keyed, NEW m \in Machines, NEW services \in SUBSET up[m], Stopped(m, services)
    PROVE  /\ up' \in [Machines -> SUBSET AllServices] /\ writing' \in [Machines -> BOOLEAN]
           /\ up'[m] = up[m] \ services /\ \A k \in Machines : up'[k] \subseteq up[k]
           /\ \A k \in Machines : writing'[k] => writing[k] /\ "web" \in up'[k]
<1>1. /\ up' = [up EXCEPT ![m] = up[m] \ services]
      /\ writing' = [writing EXCEPT ![m] = writing[m] /\ "web" \notin services]
    BY DEF Stopped
<1>2. up' \in [Machines -> SUBSET AllServices] /\ up'[m] = up[m] \ services
      /\ \A k \in Machines \ {m} : up'[k] = up[k]
    BY <1>1 DEF Types
<1> DEFINE still == writing[m] /\ "web" \notin services
<1>3. still \in BOOLEAN
    OBVIOUS
<1>4. writing' = [writing EXCEPT ![m] = still]
    BY <1>1
<1> HIDE DEF still
<1>5. writing' \in [Machines -> BOOLEAN] /\ writing'[m] = still
      /\ \A k \in Machines \ {m} : writing'[k] = writing[k]
    BY <1>3, <1>4 DEF Types
<1>6. \A k \in Machines : writing'[k] => writing[k] /\ "web" \in up'[k]
    BY <1>2, <1>5 DEF Keyed, still
<1> QED BY <1>2, <1>5, <1>6

LEMMA KeepsBackedUp ==
    ASSUME OperatorInv, BackedUp
    PROVE  OperatorInv'
<1> DEFINE m == job.m
<1>1. Types /\ Keyed /\ BackupKeyed /\ Labelled /\ Commanded
    BY DEF OperatorInv
<1>2. UNCHANGED <<project, env, image, model, volumes, db, media, usb, given, served, rekeyed>>
    BY DEF BackedUp, machine, stored, keying
<1>3. job # None /\ job \in Jobs /\ job.cmd = "backup"
    BY <1>1 DEF BackedUp, At, Types
<1>4. /\ backup \in Backups /\ backup.manifest = None /\ m \in Machines /\ ~job.inUse
      /\ env[m] # None /\ project[m] \in Projects
      /\ job.step >= 2 => "web" \notin up[m]
      /\ job.step >= 3 => backup.parts.database = db[m] /\ copied = rekeyed[m]
      /\ job.step >= 4 => backup.parts.media = media[m] /\ backup.parts.keys = env[m].keys
      /\ "web" \in job.writers /\ ~rekeyed[m] => served[m] = env[m].keys
    BY <1>1, <1>3 DEF Commanded, Jobs
<1>5. Labelled'
    BY <1>1, <1>2 DEF Labelled
<1>6. copied \in BOOLEAN /\ rekeyed[m] \in BOOLEAN
    BY <1>1, <1>4 DEF Types
<1>7. CASE /\ At("backup", 1) /\ job' = [job EXCEPT !.step = 2, !.writers = Writers(m)]
           /\ Stopped(m, Writers(m)) /\ UNCHANGED <<backup, copied>>
    <2>1. /\ Writers(m) \in SUBSET up[m] /\ Writers(m) \in SUBSET AllServices
          /\ "web" \in up[m] => "web" \in Writers(m)
        BY DEF Writers, AllServices
    <2> DEFINE W == Writers(m)
    <2>2. job' \in Jobs /\ job'.step = 2 /\ job'.cmd = "backup" /\ job'.m = m /\ job'.inUse = job.inUse
          /\ job'.writers = W
        <3> DEFINE k == [job EXCEPT !.step = 2]
        <3>1. k \in Jobs /\ k.step = 2 /\ k.cmd = job.cmd /\ k.m = job.m /\ k.inUse = job.inUse
            BY <1>3 DEF Jobs
        <3>2. job' = [k EXCEPT !.writers = W]
            BY <1>7
        <3> HIDE DEF k, W
        <3>3. W \in SUBSET AllServices
            BY <2>1 DEF W
        <3> QED BY <1>3, <3>1, <3>2, <3>3 DEF Jobs
    <2>9. W \subseteq up[m]
        BY <2>1
    <2>3. /\ up' \in [Machines -> SUBSET AllServices] /\ writing' \in [Machines -> BOOLEAN]
          /\ up'[m] = up[m] \ W /\ \A k \in Machines : up'[k] \subseteq up[k]
          /\ \A k \in Machines : writing'[k] => writing[k] /\ "web" \in up'[k]
        BY <1>1, <1>4, <1>7, <2>1, StoppedServices
    <2>4. "web" \notin up'[m]
        BY <2>1, <2>3
    <2> HIDE DEF W
    <2>5. Types'
        BY <1>1, <1>2, <1>7, <2>2, <2>3 DEF Types, given
    <2>6. Keyed'
        BY <1>1, <1>2, <2>3 DEF Keyed
    <2>7. BackupKeyed'
        BY <1>1, <1>2, <1>7 DEF BackupKeyed
    <2>8. Commanded'
        BY <1>1, <1>2, <1>4, <1>7, <2>2, <2>4, <2>9 DEF Commanded, Keyed
    <2> QED BY <1>5, <2>5, <2>6, <2>7, <2>8 DEF OperatorInv
<1>8. CASE At("backup", 2) /\ Go(3) /\ backup' = [backup EXCEPT !.parts.database = db[m]]
           /\ UNCHANGED <<up, writing>> /\ copied' = rekeyed[m]
    <2>1. /\ job' \in Jobs /\ job'.step = 3 /\ job'.cmd = "backup" /\ job.step = 2
          /\ job'.m = m /\ job'.inUse = job.inUse /\ job'.writers = job.writers
        BY <1>1, <1>8, JobGoes
    <2>2. db[m] \in Databases
        BY <1>1, <1>4 DEF Types
    <2>3. backup' \in Backups /\ backup'.manifest = None /\ backup'.parts.database = db[m]
        BY <1>4, <1>8, <2>2 DEF Backups, BackupParts
    <2>4. Types'
        BY <1>1, <1>2, <1>8, <1>6, <2>1, <2>3 DEF Types, given
    <2>5. Keyed' /\ BackupKeyed'
        BY <1>1, <1>2, <1>8, <2>3 DEF Keyed, BackupKeyed
    <2>6. Commanded'
        BY <1>2, <1>4, <1>8, <2>1, <2>3 DEF Commanded
    <2> QED BY <1>5, <2>4, <2>5, <2>6 DEF OperatorInv
<1>9. CASE At("backup", 3) /\ Go(4)
           /\ backup' = [backup EXCEPT !.parts.media = media[m], !.parts.keys = env[m].keys]
           /\ UNCHANGED <<up, writing, copied>>
    <2>1. /\ job' \in Jobs /\ job'.step = 4 /\ job'.cmd = "backup" /\ job.step = 3
          /\ job'.m = m /\ job'.inUse = job.inUse /\ job'.writers = job.writers
        BY <1>1, <1>9, JobGoes
    <2>2. media[m] \in Int /\ env[m].keys \in Int
        BY <1>1, <1>4 DEF Types, Envs
    <2> DEFINE k == [backup EXCEPT !.parts.media = media[m]]
    <2>3. k \in Backups /\ k.manifest = None /\ k.parts.media = media[m]
          /\ k.parts.database = backup.parts.database
        BY <1>4, <2>2 DEF Backups, BackupParts
    <2>4. backup' = [k EXCEPT !.parts.keys = env[m].keys]
        BY <1>9
    <2> HIDE DEF k
    <2>5. /\ backup' \in Backups /\ backup'.manifest = None /\ backup'.parts.database = db[m]
          /\ backup'.parts.media = media[m] /\ backup'.parts.keys = env[m].keys
        BY <1>4, <2>1, <2>2, <2>3, <2>4 DEF Backups, BackupParts
    <2>6. Types'
        BY <1>1, <1>2, <1>9, <2>1, <2>5 DEF Types, given
    <2>7. Keyed' /\ BackupKeyed'
        BY <1>1, <1>2, <1>9, <2>5 DEF Keyed, BackupKeyed
    <2>8. Commanded'
        BY <1>2, <1>4, <1>9, <2>1, <2>5 DEF Commanded
    <2> QED BY <1>5, <2>6, <2>7, <2>8 DEF OperatorInv
<1>10. CASE At("backup", 4) /\ job' = None /\ backup' = [backup EXCEPT !.manifest = backup.parts]
           /\ up' = [up EXCEPT ![m] = up[m] \cup job.writers] /\ UNCHANGED <<writing, copied>>
    <2>1. job.step = 4 /\ job.writers \subseteq AllServices
        BY <1>3, <1>10 DEF At, Jobs
    <2>2. backup' \in Backups /\ backup'.parts = backup.parts
        BY <1>4, <1>10 DEF Backups
    <2>3. backup.parts.database = db[m] /\ backup.parts.keys = env[m].keys /\ copied = rekeyed[m]
        BY <1>4, <2>1
    <2>4. /\ up' \in [Machines -> SUBSET AllServices] /\ up[m] \subseteq up'[m]
          /\ up'[m] = up[m] \cup job.writers
          /\ \A k \in Machines \ {m} : up'[k] = up[k]
        BY <1>1, <1>4, <1>10, <2>1 DEF Types
    <2>5. Types'
        BY <1>1, <1>2, <1>10, <2>2, <2>4 DEF Types, given
    <2>6. Keyed'
        BY <1>1, <1>2, <1>4, <1>10, <2>4 DEF Keyed
    <2>7. BackupKeyed'
        BY <1>1, <1>2, <1>4, <1>10, <2>2, <2>3 DEF BackupKeyed, Keyed
    <2>8. Commanded'
        BY <1>10 DEF Commanded
    <2> QED BY <1>5, <2>5, <2>6, <2>7, <2>8 DEF OperatorInv
<1> QED BY <1>7, <1>8, <1>9, <1>10 DEF BackedUp, machine, stored, keying, Done

LEMMA KeepsRestored ==
    ASSUME OperatorInv, Restored
    PROVE  OperatorInv'
<1> DEFINE m == job.m
<1>1. Types /\ Keyed /\ BackupKeyed /\ Labelled /\ Commanded
    BY DEF OperatorInv
<1>2. UNCHANGED <<project, env, image, model, volumes, up, writing, usb, backup, given, served, copied>>
    BY DEF Restored, machine, keying
<1>3. job # None /\ job \in Jobs /\ job.cmd = "restore"
    BY <1>1 DEF Restored, unpack, At, Types
<1>4. /\ backup \in Backups /\ backup # None /\ m \in Machines /\ job.writers = {} /\ env[m] # None
      /\ project[m] \in Projects
      /\ job.inUse => job.step = 1 /\ (db[m].version # 0 \/ media[m] # 0)
      /\ job.step >= 2 => "web" \notin up[m]
    BY <1>1, <1>3 DEF Commanded, Jobs
<1>5. BackupKeyed' /\ Labelled'
    BY <1>1, <1>2 DEF BackupKeyed, Labelled
<1>6. CASE /\ At("restore", 1) /\ Go(2) /\ Writers(m) = {} /\ Restorable(m)
           /\ db' = [db EXCEPT ![m] = backup.parts.database] /\ media' = media
           /\ rekeyed' = [rekeyed EXCEPT ![m] = copied]
    <2>1. /\ job' \in Jobs /\ job'.step = 2 /\ job'.cmd = "restore" /\ job.step = 1
          /\ job'.m = m /\ job'.inUse = job.inUse /\ job'.writers = job.writers
        BY <1>1, <1>6, JobGoes
    <2>2. "web" \notin up[m] /\ ~job.inUse
        BY <1>4, <1>6 DEF Writers, Restorable
    <2>3. backup.parts.database \in Databases
        BY <1>4 DEF Backups, BackupParts
    <2>4. backup.parts.database.version # 0 /\ ~copied => backup.parts.database.keys = env[m].keys
        BY <1>1, <1>4, <1>6 DEF BackupKeyed, Restorable
    <2>5. db' \in [Machines -> Databases] /\ db'[m] = backup.parts.database
          /\ \A k \in Machines \ {m} : db'[k] = db[k]
        BY <1>1, <1>4, <1>6, <2>3 DEF Types
    <2>9. /\ rekeyed' \in [Machines -> BOOLEAN] /\ rekeyed'[m] = copied
          /\ \A k \in Machines \ {m} : rekeyed'[k] = rekeyed[k]
        BY <1>1, <1>4, <1>6 DEF Types
    <2>6. Types'
        BY <1>1, <1>2, <1>6, <2>1, <2>5, <2>9 DEF Types, given
    <2>7. Keyed'
        BY <1>1, <1>2, <1>4, <1>6, <2>2, <2>4, <2>5, <2>9 DEF Keyed
    <2>8. Commanded'
        BY <1>2, <1>4, <2>1, <2>2 DEF Commanded
    <2> QED BY <1>5, <2>6, <2>7, <2>8 DEF OperatorInv
<1>7. CASE unpack(m) /\ UNCHANGED <<db, rekeyed>>
    <2>1. job.step \in {2, 3} /\ "web" \notin up[m] /\ ~job.inUse
        BY <1>4, <1>7 DEF unpack, At
    <2>2. PICK v \in Int : media' = [media EXCEPT ![m] = v]
        BY <1>4, <1>7 DEF unpack, Damaged, Backups, BackupParts
    <2>3. \/ /\ job' \in Jobs /\ job'.step = 3 /\ job'.cmd = "restore"
             /\ job'.m = m /\ job'.inUse = job.inUse /\ job'.writers = job.writers
          \/ job' = None
        <3>1. CASE At("restore", 2) /\ Go(3)
            BY <1>1, <3>1, JobGoes
        <3>2. CASE job' = None
            BY <3>2
        <3> QED BY <1>7, <3>1, <3>2 DEF unpack, Done
    <2>4. media' \in [Machines -> Int] /\ \A k \in Machines \ {m} : media'[k] = media[k]
        BY <1>1, <1>4, <2>2 DEF Types
    <2>5. Types'
        BY <1>1, <1>2, <1>7, <2>3, <2>4 DEF Types, given
    <2>6. Keyed'
        BY <1>1, <1>2, <1>7, <2>1, <2>4 DEF Keyed
    <2>7. Commanded'
        BY <1>2, <1>4, <2>1, <2>3 DEF Commanded
    <2> QED BY <1>5, <2>5, <2>6, <2>7 DEF OperatorInv
<1> QED BY <1>6, <1>7 DEF Restored, keying

(***************************************************************************)
(* The end of a command that did not come to its end.                      *)
(***************************************************************************)
LEMMA KeepsFail ==
    ASSUME OperatorInv, Fail \/ PowerCut
    PROVE  OperatorInv'
<1>1. Types /\ Keyed /\ BackupKeyed /\ Labelled /\ Commanded
    BY DEF OperatorInv
<1>2. job # None /\ job' = None /\ job \in Jobs /\ job.m \in Machines
    BY <1>1 DEF Fail, PowerCut, Done, Types, Jobs
<1>3. UNCHANGED <<project, env, image, model, volumes, db, media, usb, backup, given, keying>>
    BY DEF Fail, PowerCut, machine, stored
<1>4. BackupKeyed' /\ Labelled' /\ Commanded'
    BY <1>1, <1>2, <1>3 DEF BackupKeyed, Labelled, Commanded, keying
<1>5. CASE Fail
    <2>1. /\ job.writers \subseteq AllServices /\ (job.writers # {} => env[job.m] # None)
          /\ "web" \in job.writers /\ ~rekeyed[job.m] => served[job.m] = env[job.m].keys
        BY <1>1, <1>2 DEF Jobs, Commanded
    <2>2. up' = [up EXCEPT ![job.m] = up[job.m] \cup job.writers] /\ writing' = writing
        BY <1>5 DEF Fail, stored
    <2>3. /\ up' \in [Machines -> SUBSET AllServices] /\ up'[job.m] = up[job.m] \cup job.writers
          /\ \A k \in Machines \ {job.m} : up'[k] = up[k]
        BY <1>1, <1>2, <2>1, <2>2 DEF Types
    <2>4. Types'
        BY <1>1, <1>2, <1>3, <2>2, <2>3 DEF Types, given, keying
    <2>5. Keyed'
        BY <1>1, <1>3, <2>1, <2>2, <2>3 DEF Keyed, keying
    <2> QED BY <1>4, <2>4, <2>5 DEF OperatorInv
<1>6. CASE PowerCut
    <2>1. writing' = [writing EXCEPT ![job.m] = FALSE] /\ up' = up
        BY <1>6 DEF PowerCut, machine
    <2>2. Types'
        BY <1>1, <1>2, <1>3, <2>1 DEF Types, given, keying
    <2>3. Keyed'
        BY <1>1, <1>2, <1>3, <2>1 DEF Keyed, Types, keying
    <2> QED BY <1>4, <2>2, <2>3 DEF OperatorInv
<1> QED BY <1>5, <1>6

(***************************************************************************)
(* Between the commands.                                                   *)
(***************************************************************************)
LEMMA KeepsStop ==
    ASSUME OperatorInv, NEW m \in Machines, Stop(m)
    PROVE  OperatorInv'
<1>1. Types /\ Keyed /\ BackupKeyed /\ Labelled /\ Commanded
    BY DEF OperatorInv
<1>2. /\ job = None /\ Stopped(m, up[m])
      /\ UNCHANGED <<project, env, image, model, volumes, db, media, usb, backup, job, given, keying>>
    BY DEF Stop
<1>3. /\ up' \in [Machines -> SUBSET AllServices] /\ writing' \in [Machines -> BOOLEAN]
      /\ \A k \in Machines : up'[k] \subseteq up[k]
      /\ \A k \in Machines : writing'[k] => writing[k] /\ "web" \in up'[k]
    BY <1>1, <1>2, StoppedServices
<1>4. Types'
    BY <1>1, <1>2, <1>3 DEF Types, given, keying
<1>5. Keyed'
    BY <1>1, <1>2, <1>3 DEF Keyed, keying
<1>6. BackupKeyed' /\ Labelled' /\ Commanded'
    BY <1>1, <1>2 DEF BackupKeyed, Labelled, Commanded, keying
<1> QED BY <1>4, <1>5, <1>6 DEF OperatorInv

LEMMA KeepsComposeUp ==
    ASSUME OperatorInv, NEW m \in Machines, ComposeUp(m)
    PROVE  OperatorInv'
<1>1. Types /\ Keyed /\ BackupKeyed /\ Labelled /\ Commanded
    BY DEF OperatorInv
<1>2. /\ job = None /\ env[m] # None /\ volumes' = [volumes EXCEPT ![m] = TRUE]
      /\ UNCHANGED <<project, env, image, model, db, media, usb, backup, job, given>>
    BY DEF ComposeUp
<1>3. CASE up' = [up EXCEPT ![m] = up[m] \cup {"db"}] /\ UNCHANGED <<writing, keying>>
    <2>1. /\ up' \in [Machines -> SUBSET AllServices]
          /\ \A k \in Machines : "web" \in up'[k] <=> "web" \in up[k]
        BY <1>1, <1>3 DEF Types, AllServices
    <2>2. Types'
        BY <1>1, <1>2, <1>3, <2>1 DEF Types, given, keying
    <2>3. Keyed' /\ BackupKeyed' /\ Labelled' /\ Commanded'
        BY <1>1, <1>2, <1>3, <2>1 DEF Keyed, BackupKeyed, Labelled, Commanded, keying
    <2> QED BY <2>2, <2>3 DEF OperatorInv
<1>4. CASE up' = [up EXCEPT ![m] = up[m] \cup Everything(m)] /\ SiteUp(m)
    <2>1. /\ up' \in [Machines -> SUBSET AllServices] /\ "web" \in up'[m]
          /\ \A k \in Machines \ {m} : up'[k] = up[k]
        BY <1>1, <1>4, EverythingIs DEF Types, Everything
    <2>2. /\ served' \in [Machines -> Int] /\ served'[m] = env[m].keys
          /\ writing' \in [Machines -> BOOLEAN]
          /\ \A k \in Machines : writing'[k] => writing[k]
          /\ \A k \in Machines \ {m} : served'[k] = served[k]
          /\ UNCHANGED <<rekeyed, copied>>
        BY <1>1, <1>2, <1>4, SiteIsUp
    <2>3. Types'
        BY <1>1, <1>2, <2>1, <2>2 DEF Types, given
    <2>4. Keyed'
        BY <1>1, <1>2, <2>1, <2>2 DEF Keyed
    <2>5. BackupKeyed' /\ Labelled' /\ Commanded'
        BY <1>1, <1>2, <2>2 DEF BackupKeyed, Labelled, Commanded
    <2> QED BY <2>3, <2>4, <2>5 DEF OperatorInv
<1> QED BY <1>3, <1>4 DEF ComposeUp

LEMMA KeepsCopyProject ==
    ASSUME OperatorInv, NEW m \in Machines, CopyProject(m)
    PROVE  OperatorInv'
<1>1. Types /\ Keyed /\ BackupKeyed /\ Labelled
    BY DEF OperatorInv
<1>2. /\ job = None /\ usb # None
      /\ project' = [project EXCEPT ![m] = [files |-> usb.parts.project, manifest |-> usb.parts.project]]
      /\ UNCHANGED <<env, image, model, volumes, up, stored, usb, backup, job, given, keying>>
    BY DEF CopyProject
<1>3. [files |-> usb.parts.project, manifest |-> usb.parts.project] \in Projects
    BY <1>1, <1>2 DEF Types, UsbSets, UsbParts, Projects
<1>4. Types'
    BY <1>1, <1>2, <1>3 DEF Types, stored, given, keying
<1>5. Keyed' /\ BackupKeyed' /\ Labelled' /\ Commanded'
    BY <1>1, <1>2 DEF Keyed, BackupKeyed, Labelled, Commanded, stored, keying
<1> QED BY <1>4, <1>5 DEF OperatorInv

\* Other keys over an installation that has data or runs are counted.
LEMMA KeepsImportKeys ==
    ASSUME OperatorInv, NEW m \in Machines, ImportKeys(m)
    PROVE  OperatorInv'
<1>1. Types /\ Keyed /\ BackupKeyed /\ Labelled
    BY DEF OperatorInv
<1> DEFINE k == backup.parts.keys
           new == [keys |-> k, ai |-> IF env[m] = None THEN FALSE ELSE env[m].ai]
<1>2. /\ job = None /\ backup # None
      /\ env' = [env EXCEPT ![m] = new]
      /\ rekeyed' = [rekeyed EXCEPT ![m] = rekeyed[m] \/ Rekeys(m, k)]
      /\ UNCHANGED <<project, image, model, volumes, up, stored, usb, backup, job, given, served, copied>>
    BY DEF ImportKeys
<1>3. new \in Envs /\ new.keys = k
    BY <1>1, <1>2 DEF Types, Envs, Backups, BackupParts
<1> DEFINE other == rekeyed[m] \/ Rekeys(m, k)
<1>4. other \in BOOLEAN
    BY <1>1 DEF Types, Rekeys
<1>5. ~other => ~rekeyed[m] /\ (env[m] # None /\ (db[m].version # 0 \/ "web" \in up[m]) => env[m].keys = k)
    BY DEF Rekeys
<1>6. rekeyed' = [rekeyed EXCEPT ![m] = other]
    BY <1>2
<1> HIDE DEF other, new
<1>7. /\ env' \in [Machines -> Envs \cup {None}] /\ env'[m] = new /\ new # None
      /\ rekeyed' \in [Machines -> BOOLEAN] /\ rekeyed'[m] = other
      /\ \A n \in Machines \ {m} : env'[n] = env[n] /\ rekeyed'[n] = rekeyed[n]
    BY <1>1, <1>2, <1>3, <1>4, <1>6, OperatorConstants DEF Types
<1> HIDE DEF k
<1>8. Types'
    BY <1>1, <1>2, <1>7 DEF Types, stored, given
<1>9. Keyed'
    BY <1>1, <1>2, <1>3, <1>5, <1>7 DEF Keyed, stored
<1>10. BackupKeyed' /\ Labelled' /\ Commanded'
    BY <1>1, <1>2 DEF BackupKeyed, Labelled, Commanded
<1> QED BY <1>8, <1>9, <1>10 DEF OperatorInv

\* A request writes on a machine whose site runs: not on one that is being
\* backed up or restored.
LEMMA KeepsWrite ==
    ASSUME OperatorInv, NEW m \in Machines, Write(m) \/ Written(m)
    PROVE  OperatorInv'
<1>1. Types /\ Keyed /\ BackupKeyed /\ Labelled /\ Commanded
    BY DEF OperatorInv
<1>2. UNCHANGED <<machine, usb, backup, job, sources, keysMade, keying>> /\ "web" \in up[m]
    BY DEF Write, Written, given
<1>3. BackupKeyed' /\ Labelled' /\ env[m] # None /\ (~rekeyed[m] => served[m] = env[m].keys)
    BY <1>1, <1>2 DEF BackupKeyed, Labelled, Keyed, machine, keying
<1>4. CASE Write(m)
    <2>1. /\ work' = work + 1 /\ media' = [media EXCEPT ![m] = work + 1]
          /\ writing' = [writing EXCEPT ![m] = TRUE] /\ db' = db
        BY <1>4 DEF Write
    <2>2. /\ media' \in [Machines -> Int] /\ media'[m] # 0
          /\ \A k \in Machines \ {m} : media'[k] = media[k]
        BY <1>1, <2>1 DEF Types
    <2>3. Types'
        BY <1>1, <1>2, <2>1, <2>2 DEF Types, machine, keying
    <2>4. Keyed'
        BY <1>1, <1>2, <2>1, <2>2 DEF Keyed, Types, machine, keying
    <2>5. Commanded'
        BY <1>1, <1>2, <2>1, <2>2 DEF Commanded, Types, Jobs, machine, keying
    <2> QED BY <1>3, <2>3, <2>4, <2>5 DEF OperatorInv
<1>5. CASE Written(m)
    <2> DEFINE row == [version |-> media[m], keys |-> served[m]]
    <2>1. /\ writing[m] /\ writing' = [writing EXCEPT ![m] = FALSE]
          /\ db' = [db EXCEPT ![m] = row] /\ UNCHANGED <<media, work>>
        BY <1>5 DEF Written, given
    <2>2. row \in Databases /\ media[m] # 0
        BY <1>1, <1>3, <2>1 DEF Types, Databases, Keyed
    <2>3. row.version = media[m] /\ row.keys = served[m]
        OBVIOUS
    <2> HIDE DEF row
    <2>4. /\ db' \in [Machines -> Databases] /\ db'[m] = row
          /\ \A k \in Machines \ {m} : db'[k] = db[k]
        BY <1>1, <2>1, <2>2 DEF Types
    <2>5. Types'
        BY <1>1, <1>2, <2>1, <2>4 DEF Types, machine, keying
    <2>6. Keyed'
        BY <1>1, <1>2, <1>3, <2>1, <2>2, <2>3, <2>4 DEF Keyed, Types, machine, keying
    <2>7. Commanded'
        BY <1>1, <1>2, <2>1, <2>2, <2>3, <2>4 DEF Commanded, Types, Jobs, machine, keying
    <2> QED BY <1>3, <2>5, <2>6, <2>7 DEF OperatorInv
<1> QED BY <1>4, <1>5

LEMMA KeepsSources ==
    ASSUME OperatorInv, Change \/ SourceManifest
    PROVE  OperatorInv'
<1>1. Types /\ Keyed /\ BackupKeyed /\ Labelled /\ Commanded
    BY DEF OperatorInv
<1>2. /\ job = None
      /\ UNCHANGED <<env, image, model, volumes, up, stored, usb, backup, job, work, keysMade, keying>>
    BY DEF Change, SourceManifest, given
<1>3. PICK p \in Projects : project' = [project EXCEPT ![Old] = p]
    <2>1. CASE Change
        <3>1. PICK f \in 1 .. MaxSources : project' = [project EXCEPT ![Old] = [project[Old] EXCEPT !.files = f]]
            BY <2>1 DEF Change
        <3>2. [project[Old] EXCEPT !.files = f] \in Projects
            BY <1>1 DEF Types, Projects
        <3> QED BY <3>1, <3>2
    <2>2. CASE SourceManifest
        <3>1. project' = [project EXCEPT ![Old] = [project[Old] EXCEPT !.manifest = project[Old].files]]
            BY <2>2 DEF SourceManifest
        <3>2. [project[Old] EXCEPT !.manifest = project[Old].files] \in Projects
            BY <1>1 DEF Types, Projects
        <3> QED BY <3>1, <3>2
    <2> QED BY <2>1, <2>2
<1>4. sources' \in Nat
    BY <1>1 DEF Change, SourceManifest, Types, given
<1>5. Types'
    BY <1>1, <1>2, <1>3, <1>4 DEF Types, Machines, stored, keying
<1>6. Keyed' /\ BackupKeyed' /\ Labelled' /\ Commanded'
    BY <1>1, <1>2 DEF Keyed, BackupKeyed, Labelled, Commanded, stored, keying
<1> QED BY <1>5, <1>6 DEF OperatorInv

LEMMA KeepsFolders ==
    ASSUME OperatorInv, Damage \/ Discard
    PROVE  OperatorInv'
<1>1. Types /\ Keyed /\ BackupKeyed /\ Labelled /\ Commanded
    BY DEF OperatorInv
<1>2. job = None /\ UNCHANGED <<machine, stored, job, given, keying>>
    BY DEF Damage, Discard
<1>3. usb' \in UsbSets \cup {None} /\ backup' \in Backups \cup {None} /\ BackupKeyed' /\ Labelled'
    <2>1. CASE Discard
        BY <1>1, <1>2, <2>1 DEF Discard, Types, BackupKeyed, Labelled, machine, keying
    <2>2. CASE usb # None /\ backup' = backup
               /\ usb' \in {[usb EXCEPT !.parts.images = DamagedImage], [usb EXCEPT !.parts.models = Damaged]}
        <3>1. usb \in UsbSets /\ ImagesHold(usb.parts.images)
            BY <1>1, <2>2 DEF Types, Labelled
        <3>2. CASE usb' = [usb EXCEPT !.parts.images = DamagedImage]
            <4>1. DamagedImage \in Images /\ ImagesHold(DamagedImage)
                BY DEF DamagedImage, Images, Damaged, ImagesHold
            <4>2. usb' \in UsbSets /\ usb'.parts.images = DamagedImage
                BY <3>1, <3>2, <4>1 DEF UsbSets, UsbParts
            <4> QED BY <1>1, <1>2, <2>2, <4>1, <4>2 DEF Types, BackupKeyed, Labelled, machine, keying
        <3>3. CASE usb' = [usb EXCEPT !.parts.models = Damaged]
            <4>1. usb' \in UsbSets /\ usb'.parts.images = usb.parts.images
                BY <3>1, <3>3 DEF UsbSets, UsbParts, Damaged
            <4> QED BY <1>1, <1>2, <2>2, <3>1, <4>1 DEF Types, BackupKeyed, Labelled, machine, keying
        <3> QED BY <2>2, <3>2, <3>3
    <2>3. CASE backup # None /\ backup' = [backup EXCEPT !.parts.media = Damaged] /\ usb' = usb
        <3>1. backup \in Backups
            BY <1>1, <2>3 DEF Types
        <3>2. /\ backup' \in Backups /\ backup'.manifest = backup.manifest
              /\ backup'.parts.database = backup.parts.database /\ backup'.parts.keys = backup.parts.keys
            BY <2>3, <3>1 DEF Backups, BackupParts, Damaged
        <3> QED BY <1>1, <1>2, <2>3, <3>2 DEF Types, BackupKeyed, Labelled, machine, keying
    <2> QED BY <2>1, <2>2, <2>3 DEF Damage
<1>4. Types'
    BY <1>1, <1>2, <1>3 DEF Types, machine, stored, given, keying
<1>5. Keyed' /\ Commanded'
    BY <1>1, <1>2 DEF Keyed, Commanded, machine, stored, keying
<1> QED BY <1>3, <1>4, <1>5 DEF OperatorInv

(***************************************************************************)
(* The theorems.                                                           *)
(***************************************************************************)
LEMMA OperatorKeeps == OperatorInv /\ [Next]_vars => OperatorInv'
<1> SUFFICES ASSUME OperatorInv, [Next]_vars PROVE OperatorInv'
    OBVIOUS
<1>1. CASE UNCHANGED vars
    BY <1>1 DEF OperatorInv, Types, Keyed, BackupKeyed, Labelled, Commanded, vars, machine, stored, given, keying
<1>2. CASE Configured \/ Built \/ Services \/ Modelled \/ Up
    BY <1>2, KeepsConfigured, KeepsBuilt, KeepsServices, KeepsModelled, KeepsUp
<1>3. CASE Exported \/ Imported \/ BackedUp \/ Restored
    BY <1>3, KeepsExported, KeepsImported, KeepsBackedUp, KeepsRestored
<1>4. CASE Fail \/ PowerCut \/ Change \/ SourceManifest \/ Damage \/ Discard
    BY <1>4, KeepsFail, KeepsSources, KeepsFolders
<1>5. ASSUME NEW m \in Machines,
             \/ Start(m) \/ Stop(m) \/ ComposeUp(m) \/ Export(m) \/ CopyProject(m) \/ Import(m) \/ Backup(m)
             \/ ImportKeys(m) \/ Restore(m) \/ Write(m) \/ Written(m)
      PROVE  OperatorInv'
    BY <1>5, KeepsBegin, KeepsStop, KeepsComposeUp, KeepsCopyProject, KeepsImportKeys, KeepsWrite
<1> QED BY <1>1, <1>2, <1>3, <1>4, <1>5 DEF Next

LEMMA OperatorIsInv == Spec => []OperatorInv
<1> QED BY Starts, OperatorKeeps, PTL DEF Spec

\* Readable: the site never runs on data that was stored with other keys than
\* those of its container, through failures and power cuts in any command, except
\* on an installation over whose data or running site other keys were imported,
\* and where a backup of that one is restored (configure, deploy_env,
\* restore_backup).
THEOREM Operator_Readable == Spec => []Readable
<1>1. OperatorInv => Readable
    BY DEF OperatorInv, Keyed, Readable, Decrypts
<1> QED BY <1>1, OperatorIsInv, PTL

\* InUseIsKept: an import or a restore begun on a machine that is in use
\* replaces neither its keys, images, models and volumes nor its data
\* (import_usb, restore_backup).
THEOREM Operator_InUseIsKept == Spec => InUseIsKept
<1> DEFINE Kept == job # None /\ job.inUse =>
                      /\ UNCHANGED <<env, image, model, volumes>>
                      /\ work' = work /\ writing' = writing => UNCHANGED <<db, media>>
<1>1. OperatorInv /\ [Next]_vars => [Kept]_vars
    <2> SUFFICES ASSUME OperatorInv, Next, job # None, job.inUse
                 PROVE  /\ UNCHANGED <<env, image, model, volumes>>
                        /\ work' = work /\ writing' = writing => UNCHANGED <<db, media>>
        OBVIOUS
    <2>1. /\ Types /\ job \in Jobs /\ job.m \in Machines /\ job.step = 1
          /\ \/ job.cmd = "import_usb" /\ (env[job.m] # None \/ volumes[job.m])
             \/ job.cmd = "restore" /\ (db[job.m].version # 0 \/ media[job.m] # 0)
        BY DEF OperatorInv, Types, Commanded, Jobs
    <2>2. ~(Configured \/ Built \/ Services \/ Modelled \/ Up \/ Exported \/ BackedUp)
        BY <2>1 DEF Configured, Built, Services, Modelled, Up, Exported, BackedUp, At
    <2>3. ~Imported
        BY <2>1 DEF Imported, At, Fresh
    <2>4. ~Restored
        BY <2>1 DEF Restored, unpack, At, Restorable
    <2>5. ~(Change \/ SourceManifest \/ Damage \/ Discard)
        BY DEF Change, SourceManifest, Damage, Discard
    <2>6. CASE Fail \/ PowerCut
        BY <2>6 DEF Fail, PowerCut, machine, stored
    <2>7. ASSUME NEW m \in Machines,
                 \/ Start(m) \/ Stop(m) \/ ComposeUp(m) \/ Export(m) \/ CopyProject(m) \/ Import(m) \/ Backup(m)
                 \/ ImportKeys(m) \/ Restore(m)
          PROVE  FALSE
        BY <2>7 DEF Start, Stop, ComposeUp, Export, CopyProject, Import, Backup, ImportKeys, Restore, Begin
    <2>8. ASSUME NEW m \in Machines, Write(m) \/ Written(m)
          PROVE  /\ UNCHANGED <<env, image, model, volumes>> /\ writing' # writing
        BY <2>1, <2>8 DEF Write, Written, machine, Types
    <2> QED BY <2>2, <2>3, <2>4, <2>5, <2>6, <2>7, <2>8 DEF Next
<1>2. InUseIsKept <=> [][Kept]_vars
    BY PTL DEF InUseIsKept
<1> QED BY <1>1, <1>2, OperatorIsInv, PTL DEF Spec

\* CompletedIsWhole: a USB set that gets its manifest has images that were built
\* from its sources, unless they were built from files their label does not
\* name; a backup that gets its manifest is one moment of the installation
\* (export_usb, backup_compose).
THEOREM Operator_CompletedIsWhole == Spec => CompletedIsWhole
<1> DEFINE Whole == LET m == job.m
                        set == usb'.manifest.parts
                    IN  /\ At("export_usb", 4) /\ usb' # usb =>
                              (set.images.described => set.images.content = set.project)
                        /\ At("backup", 4) /\ backup' # backup =>
                              /\ ~writing[m]
                              /\ backup'.manifest = [database |-> db[m], media |-> media[m], keys |-> env[m].keys]
<1>1. OperatorInv /\ [Next]_vars => [Whole]_vars
    <2> SUFFICES ASSUME OperatorInv, Next, job # None PROVE Whole
        BY DEF At
    <2>1. /\ Types /\ Keyed /\ job \in Jobs /\ job.m \in Machines
        BY DEF OperatorInv, Types, Jobs
    <2>2. ASSUME NEW m \in Machines,
                 \/ Start(m) \/ Stop(m) \/ ComposeUp(m) \/ Export(m) \/ CopyProject(m) \/ Import(m) \/ Backup(m)
                 \/ ImportKeys(m) \/ Restore(m)
          PROVE  FALSE
        BY <2>2 DEF Start, Stop, ComposeUp, Export, CopyProject, Import, Backup, ImportKeys, Restore, Begin
    <2>3. CASE At("export_usb", 4) /\ usb' # usb
        <3>1. /\ usb \in UsbSets /\ usb.parts.images.label = usb.parts.project
              /\ ImagesHold(usb.parts.images)
            BY <2>3 DEF OperatorInv, Commanded, At
        <3>2. usb' = [usb EXCEPT !.manifest = [parts |-> usb.parts, ai |-> job.ai]]
            <4>1. CASE Exported
                BY <2>3, <4>1 DEF Exported, At
            <4>2. CASE Configured \/ Built \/ Services \/ Modelled \/ Up \/ Imported \/ BackedUp \/ Restored
                BY <2>3, <4>2 DEF Configured, Built, Services, Modelled, Up, Imported,
                          BackedUp, Restored, unpack, At
            <4>3. CASE Fail \/ PowerCut
                BY <2>3, <4>3 DEF Fail, PowerCut
            <4>4. CASE Change \/ SourceManifest \/ Damage \/ Discard
                BY <2>3, <4>4 DEF Change, SourceManifest, Damage, Discard
            <4>5. ASSUME NEW m \in Machines, Write(m) \/ Written(m) PROVE usb' = usb
                BY <4>5 DEF Write, Written
            <4> QED BY <2>1, <2>3, <2>2, <4>1, <4>2, <4>3, <4>4, <4>5 DEF Next
        <3>3. usb'.manifest.parts = usb.parts
            BY <3>1, <3>2 DEF UsbSets
        <3> QED BY <2>3, <3>1, <3>3 DEF At, ImagesHold
    <2>4. CASE At("backup", 4) /\ backup' # backup
        <3>1. /\ backup \in Backups /\ backup.parts.database = db[job.m]
              /\ backup.parts.media = media[job.m] /\ backup.parts.keys = env[job.m].keys
              /\ "web" \notin up[job.m]
            BY <2>4 DEF OperatorInv, Commanded, At
        <3>2. backup' = [backup EXCEPT !.manifest = backup.parts]
            <4>1. CASE BackedUp
                BY <2>4, <4>1 DEF BackedUp, At
            <4>2. CASE Configured \/ Built \/ Services \/ Modelled \/ Up \/ Imported \/ Exported \/ Restored
                BY <2>4, <4>2 DEF Configured, Built, Services, Modelled, Up, Imported,
                          Exported, Restored, unpack, At
            <4>3. CASE Fail \/ PowerCut
                BY <2>4, <4>3 DEF Fail, PowerCut
            <4>4. CASE Change \/ SourceManifest \/ Damage \/ Discard
                BY <2>4, <4>4 DEF Change, SourceManifest, Damage, Discard
            <4>5. ASSUME NEW m \in Machines, Write(m) \/ Written(m) PROVE backup' = backup
                BY <4>5 DEF Write, Written
            <4> QED BY <2>1, <2>4, <2>2, <4>1, <4>2, <4>3, <4>4, <4>5 DEF Next
        <3>3. ~writing[job.m]
            BY <2>1, <3>1 DEF Keyed
        <3>4. backup.parts = [database |-> db[job.m], media |-> media[job.m], keys |-> env[job.m].keys]
            BY <3>1 DEF Backups, BackupParts
        <3>5. backup'.manifest = backup.parts
            BY <3>1, <3>2 DEF Backups
        <3> QED BY <2>4, <3>3, <3>4, <3>5 DEF At
    <2> QED BY <2>3, <2>4
<1>2. CompletedIsWhole <=> [][Whole]_vars
    BY PTL DEF CompletedIsWhole
<1> QED BY <1>1, <1>2, OperatorIsInv, PTL DEF Spec
=============================================================================
