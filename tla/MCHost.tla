-------------------------------- MODULE MCHost --------------------------------
(***************************************************************************)
(* Small instances of three parts of the host that share no state: plugins    *)
(* on disk and in the process, the file a conversation's tools work on, and   *)
(* the rules.  A behaviour of all is a shuffle of one of each, and none of    *)
(* the properties is about two, so one part moves and the others rest.        *)
(***************************************************************************)
EXTENDS MCPluginDisk, MCFileTools, MCRules

VARIABLE part       \* the one that moves

hostVars == <<part, diskVars, filesVars, rulesVars>>

PluginsRest == /\ disk = <<>> /\ command = NoCommand /\ commands = 0 /\ cut = {}
               /\ modules = <<>> /\ loaded = <<>>
FilesRest == plan = <<>> /\ batch = 0 /\ file = NoFile /\ calls = <<>> /\ clash = {}
RulesRest == question = [about |-> "nothing"] /\ answer = <<>>

HostInit ==
    \/ part = "plugins" /\ DiskInit /\ FilesRest /\ RulesRest
    \/ part = "files" /\ FilesInit /\ PluginsRest /\ RulesRest
    \/ part = "rules" /\ RulesInit /\ PluginsRest /\ FilesRest

HostNext ==
    \/ part = "plugins" /\ DiskNext /\ UNCHANGED <<part, filesVars, rulesVars>>
    \/ part = "files" /\ FilesNext /\ UNCHANGED <<part, diskVars, rulesVars>>
    \/ part = "rules" /\ RulesNext /\ UNCHANGED <<part, diskVars, filesVars>>

HostSpec == HostInit /\ [][HostNext]_hostVars
=============================================================================
