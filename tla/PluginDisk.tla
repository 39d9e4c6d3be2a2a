----------------------------- MODULE PluginDisk -----------------------------
(***************************************************************************)
(* Plugins on disk and in the process: host/plugin/install.py copies, syncs   *)
(* and deletes them, one command at a time, and may be cut short at any file; *)
(* host/plugin/loader.py finds them for a project and imports their code into *)
(* the one module table a process has.  A file is one of a plugin's parts; a  *)
(* part knows the source it is from.                                         *)
(***************************************************************************)
EXTENDS Naturals, Sequences, FiniteSets, SequencesExt, Functions, Picks

CONSTANTS
    Sources,    \* what can be installed: name, edition, code, declares
    Projects,   \* the roots a project searches, most specific first
    Reserved,   \* the names of the built-ins
    Slug,       \* slugify(): the module name of a plugin's name
    Directories,\* the names of directories, in their order
    Placed,     \* what users may have put on disk by hand
    MaxCommands \* bound

\* The kinds of code: a module with a plugin in it, one with none ("empty"), one
\* whose plugin class raises when it is made ("raising"), and one that cannot be
\* imported.
Coded == {"good", "empty", "raising", "broken"}

ASSUME PluginDiskAssumption ==
    /\ \A s \in Sources : s.code \in {"none"} \union Coded /\ s.declares \in BOOLEAN
    /\ \A s \in Sources : s.name \in DOMAIN Slug /\ s.name \in Range(Directories)
    /\ Directories \in Seq(Range(Directories))
    /\ \A p \in DOMAIN Projects : Projects[p] \in Seq(Range(Projects[p]))
    /\ MaxCommands \in Nat

Roots == UNION {Range(Projects[p]) : p \in DOMAIN Projects}
Parts(source) ==
    {<<part, source>> : part \in {"manifest"} \union (IF source.code = "none" THEN {} ELSE {"code"})
                                   \union (IF source.declares THEN {"pyproject"} ELSE {})}

\* A plugin in a directory: what of which source is there, and its environment.
Trees == [parts : SUBSET UNION {Parts(s) : s \in Sources}, env : {"none", "made", "filled"}]
Places == Roots \X Range(Directories)

\* What users put there are whole plugins.
ASSUME PlacedAssumption ==
    \A placed \in Placed :
        /\ DOMAIN placed \subseteq Places
        /\ \A place \in DOMAIN placed :
               placed[place] \in Trees /\ \E s \in Sources : placed[place].parts = Parts(s)

VARIABLES
    disk,       \* <<root, directory>> to its parts and its environment
    command,    \* the command under way
    commands,   \* how many there were
    cut,        \* history: the places a command left half copied or half deleted
    modules,    \* sys.modules: slug to the place whose code it is
    loaded      \* _plugins: project to what it loaded, in order

diskVars == <<disk, command, commands, cut, modules, loaded>>

Has(tree, part) == \E p \in tree.parts : p[1] = part
SourceOf(tree, part) == (CHOOSE p \in tree.parts : p[1] = part)[2]

NoCommand == [op |-> "none"]
DiskInit ==
    /\ disk \in Placed
    /\ command = NoCommand /\ commands = 0 /\ cut = {}
    /\ modules = <<>>
    /\ loaded = <<>>

-----------------------------------------------------------------------------
(* Discovery.                                                               *)

\* What a search looks at: root after root, the directories of each in order.
Searched(roots) ==
    LET wide == Len(Directories)
    IN  [i \in 1 .. Len(roots) * wide |->
            <<roots[((i - 1) \div wide) + 1], Directories[((i - 1) % wide) + 1]>>]
NameAt(place) == SourceOf(disk[place], "manifest").name

\* The directories with a readable manifest: a name that was seen before, or is
\* reserved, is passed over.
Discover(roots, reserved) ==
    LET at == Searched(roots)
        found == {i \in DOMAIN at : at[i] \in DOMAIN disk /\ Has(disk[at[i]], "manifest")}
    IN  ItemsAt(at, {i \in found :
                        /\ NameAt(at[i]) \notin reserved
                        /\ \A j \in found : NameAt(at[j]) = NameAt(at[i]) => i <= j})

\* What "sync" and "remove" address by a name.
Addressed(project, name) ==
    {place \in Range(Discover(Projects[project], {})) : NameAt(place) = name}

-----------------------------------------------------------------------------
(* The commands.                                                            *)

Starts(new) ==
    /\ command = NoCommand /\ commands < MaxCommands
    /\ commands' = commands + 1
    /\ command' = new
Doing(op) == command.op = op
Put(place, tree) == disk' = [p \in DOMAIN disk \union {place} |-> IF p = place THEN tree ELSE disk[p]]
Quiet == UNCHANGED <<modules, loaded>>

\* Mutant of Install: a directory that is there is copied into.
InstallOver(source, root) ==
    LET place == <<root, source.name>>
        tree == IF place \in DOMAIN disk THEN disk[place] ELSE [parts |-> {}, env |-> "none"]
    IN  /\ Starts([op |-> "copy", place |-> place, left |-> Parts(source)])
        /\ Put(place, tree)
        /\ UNCHANGED cut /\ Quiet
\* The directory is named by the manifest, and must not be there.
Install(source, root) ==
    LET place == <<root, source.name>>
    IN  /\ place \notin DOMAIN disk
        /\ Starts([op |-> "copy", place |-> place, left |-> Parts(source)])
        /\ Put(place, [parts |-> {}, env |-> "none"])
        /\ UNCHANGED cut /\ Quiet

\* One file after the other, in the order the source lists them; what declares
\* dependencies gets its environment in the same breath.
Copies(part) ==
    /\ Doing("copy") /\ part \in command.left
    /\ LET place == command.place
           tree == [disk[place] EXCEPT !.parts = @ \union {part}]
           left == command.left \ {part}
       IN  /\ Put(place, tree)
           /\ command' = IF left # {} THEN [command EXCEPT !.left = left]
                         ELSE IF Has(tree, "pyproject") THEN [op |-> "sync", place |-> place]
                         ELSE NoCommand
    /\ UNCHANGED <<commands, cut>> /\ Quiet

Sync(project, name) ==
    \E place \in Addressed(project, name) :
        /\ Has(disk[place], "pyproject")
        /\ Starts([op |-> "sync", place |-> place])
        /\ UNCHANGED <<disk, cut>> /\ Quiet
\* uv makes the environment, then fills it or fails.
MakesEnv ==
    /\ Doing("sync") /\ disk[command.place].env = "none"
    /\ disk' = [disk EXCEPT ![command.place].env = "made"]
    /\ UNCHANGED <<command, commands, cut>> /\ Quiet
SyncEnds ==
    /\ Doing("sync")
    /\ \/ disk[command.place].env # "none" /\ disk' = [disk EXCEPT ![command.place].env = "filled"]
       \/ UNCHANGED disk
    /\ command' = NoCommand
    /\ UNCHANGED <<commands, cut>> /\ Quiet

RemovePlugin(project, name) ==
    \E place \in Addressed(project, name) :
        /\ Starts([op |-> "remove", place |-> place])
        /\ UNCHANGED <<disk, cut>> /\ Quiet
Deletes ==
    /\ Doing("remove")
    /\ LET place == command.place IN
       \/ /\ \E part \in disk[place].parts : disk' = [disk EXCEPT ![place].parts = @ \ {part}]
          /\ UNCHANGED command
       \/ /\ disk[place].env # "none" /\ disk' = [disk EXCEPT ![place].env = "none"]
          /\ UNCHANGED command
       \/ /\ disk[place] = [parts |-> {}, env |-> "none"]
          /\ disk' = Restrict(disk, DOMAIN disk \ {place})
          /\ command' = NoCommand
    /\ cut' = cut \intersect DOMAIN disk'
    /\ UNCHANGED commands /\ Quiet

\* Interrupted, killed, or the disk is full.
CutShort ==
    /\ command # NoCommand
    /\ command' = NoCommand
    /\ cut' = IF Doing("sync") THEN cut ELSE cut \union {command.place}
    /\ UNCHANGED <<disk, commands>> /\ Quiet

-----------------------------------------------------------------------------
(* The process.                                                             *)

CodeAt(place) ==
    IF Has(disk[place], "code") THEN SourceOf(disk[place], "code").code ELSE "none"
SlugAt(place) == Slug[NameAt(place)]

\* Mutant of Imported: what could not be imported stays in the table.
ImportedHalf(table, place) ==
    [slug \in DOMAIN table \union {SlugAt(place)} |->
        IF slug = SlugAt(place) THEN place ELSE table[slug]]
\* import_module_file(): a broken import forgets the name.
Imported(table, place) ==
    IF CodeAt(place) = "broken" THEN Restrict(table, DOMAIN table \ {SlugAt(place)})
    ELSE [slug \in DOMAIN table \union {SlugAt(place)} |->
             IF slug = SlugAt(place) THEN place ELSE table[slug]]

ItemsWith(specs, codes) == ItemsAt(specs, {n \in DOMAIN specs : CodeAt(specs[n]) \in codes})

\* The plugins of a project are loaded once in a process.  A module in which
\* resolve_plugin() finds no plugin stays in the table and is not loaded.
Loads(project) ==
    /\ project \notin DOMAIN loaded
    /\ LET specs == Discover(Projects[project], Reserved)
       IN  /\ \A n \in DOMAIN specs : CodeAt(specs[n]) # "raising"
           /\ modules' = FoldLeft(Imported, modules, ItemsWith(specs, Coded))
           /\ loaded' = [p \in DOMAIN loaded \union {project} |->
                            IF p = project THEN ItemsWith(specs, {"good"}) ELSE loaded[p]]
    /\ UNCHANGED <<disk, command, commands, cut>>
\* What a plugin's constructor raises is caught nowhere: nothing is loaded, and
\* what was imported up to there stays.
LoadFails(project) ==
    /\ project \notin DOMAIN loaded
    /\ LET specs == Discover(Projects[project], Reserved)
       IN  \E last \in DOMAIN specs :
               /\ CodeAt(specs[last]) = "raising"
               /\ \A n \in DOMAIN specs : CodeAt(specs[n]) = "raising" => last <= n
               /\ modules' = FoldLeft(Imported, modules, ItemsWith(SubSeq(specs, 1, last), Coded))
    /\ UNCHANGED <<disk, command, commands, cut, loaded>>
\* A process ends and another starts.
Restarts ==
    /\ loaded # <<>> \/ modules # <<>>
    /\ modules' = <<>> /\ loaded' = <<>>
    /\ UNCHANGED <<disk, command, commands, cut>>

DiskNext ==
    \/ \E source \in Sources, root \in Roots : Install(source, root)
    \/ command # NoCommand /\ Doing("copy") /\ \E part \in command.left : Copies(part)
    \/ \E project \in DOMAIN Projects, name \in DOMAIN Slug :
           Sync(project, name) \/ RemovePlugin(project, name)
    \/ MakesEnv \/ SyncEnds \/ Deletes \/ CutShort
    \/ \E project \in DOMAIN Projects : Loads(project) \/ LoadFails(project)
    \/ Restarts

DiskSpec == DiskInit /\ [][DiskNext]_diskVars

-----------------------------------------------------------------------------
DiskTypeOK ==
    /\ DOMAIN disk \subseteq Places
    /\ \A place \in DOMAIN disk : disk[place].env \in {"none", "made", "filled"}
    /\ \A project \in DOMAIN loaded : Range(loaded[project]) \subseteq Places
    /\ command # NoCommand => command.place \in DOMAIN disk

\* Whatever was cut short before, a directory never mixes what two sources
\* shipped, and one that no command left half done is whole.
DirectoriesWhole ==
    /\ DiskTypeOK
    /\ \A place \in DOMAIN disk :
           /\ Cardinality({part[2] : part \in disk[place].parts}) <= 1
           /\ place \in cut \/ (command # NoCommand /\ command.place = place)
              \/ \E source \in Sources : disk[place].parts = Parts(source)

\* The plugin at a place is the most specific of its name for a project, and no
\* built-in's name is taken.
Serves(project, place) ==
    /\ place \in DOMAIN disk /\ Has(disk[place], "manifest")
    /\ NameAt(place) \notin Reserved
    /\ \E n \in DOMAIN Projects[project] :
           /\ Projects[project][n] = place[1]
           /\ \A other \in DOMAIN disk :
                  Has(disk[other], "manifest") /\ NameAt(other) = NameAt(place) =>
                      \A m \in 1..n - 1 : other[1] # Projects[project][m]

\* No other plugin of a project has the module name of the one at a place.
OwnModule(project, place) ==
    \A other \in DOMAIN disk :
        Serves(project, other) /\ SlugAt(other) = SlugAt(place) => other = place

\* A load (loader.py) gives a project one plugin of each name, the most specific
\* there is, but for the built-ins' names; it adds to the module table what it
\* loaded and modules with no plugin in them, nothing else; one that has its module
\* name to itself is there when it could be imported, and nothing is when it could
\* not.  One taken down by a constructor adds modules that could be imported.
LoadsTrue ==
    [][/\ \A project \in DOMAIN loaded' \ DOMAIN loaded :
             LET got == Range(loaded'[project]) IN
             /\ Cardinality({NameAt(place) : place \in got}) = Len(loaded'[project])
             /\ \A place \in got : Serves(project, place) /\ CodeAt(place) = "good"
             /\ \A place \in DOMAIN disk : Serves(project, place) /\ CodeAt(place) = "good" =>
                    \E other \in DOMAIN disk : /\ Serves(project, other)
                                               /\ NameAt(other) = NameAt(place)
                                               /\ other \in got \/ CodeAt(other) # "good"
             /\ \A slug \in DOMAIN modules' :
                    \/ modules'[slug] \in got
                    \/ Serves(project, modules'[slug]) /\ CodeAt(modules'[slug]) = "empty"
                    \/ slug \in DOMAIN modules /\ modules'[slug] = modules[slug]
             /\ \A place \in DOMAIN disk : Serves(project, place) /\ OwnModule(project, place) =>
                    /\ CodeAt(place) \in {"good", "empty"} => /\ SlugAt(place) \in DOMAIN modules'
                                                              /\ modules'[SlugAt(place)] = place
                    /\ CodeAt(place) = "broken" => SlugAt(place) \notin DOMAIN modules'
       /\ loaded' = loaded =>
              \A slug \in DOMAIN modules' :
                  \/ slug \in DOMAIN modules /\ modules'[slug] = modules[slug]
                  \/ /\ CodeAt(modules'[slug]) \in {"good", "empty", "raising"}
                     /\ \E project \in DOMAIN Projects : Serves(project, modules'[slug])]_diskVars

\* "One broken plugin must not take the host down" (host.py): a load that imports
\* anything comes to its end.
HostStands == [][modules' \notin {modules, <<>>} => loaded' # loaded]_diskVars

=============================================================================
