------------------------------ MODULE McpConfig ------------------------------
(***************************************************************************)
(* host/plugin/builtin/mcp/config.py: what the entries of mcp.json files mean *)
(* and how the files merge into one table.  A text is what its characters     *)
(* decide: "none" is absent, "wrong" of another type (or blank), "var" holds  *)
(* ${VAR}, "root" a plugin's token, "bang" starts with an exclamation mark;   *)
(* of headers, "value" is one whose value holds ${VAR}.                      *)
(* The strict rules are the standard's, for a plugin directory's file; the    *)
(* others are mocode's own files.                                            *)
(***************************************************************************)
EXTENDS Naturals, Sequences, SequencesExt

CONSTANTS
    Fold        \* fold_server_name(): "-" and "_" are one

-----------------------------------------------------------------------------
(* One entry.  "None" is an entry that was reported and skipped.             *)

None == [transport |-> "none"]
Transports == {"stdio", "streamable-http", "sse"}
TypeOf(entry, strict) ==
    IF entry.type # "none" \/ strict THEN entry.type
    ELSE IF entry.url # "none" THEN "http"
    ELSE IF entry.command # "none" THEN "stdio"
    ELSE "none"
TransportOf(entry, strict) ==
    IF TypeOf(entry, strict) = "http" THEN "streamable-http" ELSE TypeOf(entry, strict)

\* `var` is what ${VAR} holds: "empty" when it is not set.
Expanded(text, var) == IF text = "var" THEN var ELSE IF text = "root" THEN "empty" ELSE text
Token(text) == text \in {"var", "root"}

\* https, or http to this machine; absolute, with neither user nor fragment.
Reachable(url) == url \in {"https", "loopback"}

\* Mutant of HttpOwn: the URL is looked at before it is expanded.
HttpOwnEarly(entry, var) ==
    /\ entry.url \notin {"none", "wrong"}
    /\ entry.headers \notin {"wrong", "clash", "name"}
    /\ Reachable(entry.url) \/ Token(entry.url)
\* What a header's value asks for is expanded, be it a plugin's token.
HttpOwn(entry, var) ==
    /\ entry.url \notin {"none", "wrong"}
    /\ entry.headers \notin {"wrong", "clash", "name"}
    /\ Reachable(Expanded(entry.url, var))
\* Neither the URL nor a header is expanded: what asks for it is refused.
HttpStrict(entry) ==
    /\ entry.url \notin {"none", "wrong", "bang"} /\ ~Token(entry.url)
    /\ entry.headers \notin {"wrong", "clash", "name", "value", "root", "bang"}
    /\ Reachable(entry.url)

StdioShape(entry) ==
    /\ entry.command \notin {"none", "wrong"}
    /\ entry.args # "wrong" /\ entry.env # "wrong" /\ entry.cwd # "wrong"
StdioOwn(entry) ==
    /\ StdioShape(entry)
    /\ "root" \notin {entry.command, entry.args, entry.env}
    /\ entry.cwd \notin {"in root", "in data", "out of root", "out of data"}
StdioStrict(entry) ==
    /\ StdioShape(entry)
    /\ entry.env # "reserved"
    /\ entry.cwd \in {"none", "dot", "in root", "in data"}

\* Where the server's process starts.
CwdOwn(cwd, var) ==
    CASE cwd = "none" -> "inherited"
      [] cwd = "var" -> IF var = "absolute" THEN "absolute" ELSE "beside the file"
      [] cwd = "absolute" -> "absolute"
      [] OTHER -> "beside the file"
CwdStrict(cwd) == IF cwd = "in data" THEN "data" ELSE "root"

\* mocode's own fields; a value of the wrong shape is reported and ignored.
Enabled(entry, strict) == strict \/ entry.enabled # "false"
Timeout(entry, strict) == IF ~strict /\ entry.timeout = "positive" THEN "set" ELSE "default"
Extension(value, strict) == IF strict \/ value = "wrong" THEN "none" ELSE value

Server(entry, strict, var) ==
    LET transport == TransportOf(entry, strict)
        stdio == transport = "stdio"
        fine == IF stdio THEN IF strict THEN StdioStrict(entry) ELSE StdioOwn(entry)
                ELSE IF strict THEN HttpStrict(entry) ELSE HttpOwn(entry, var)
    IN  IF ~entry.object \/ transport \notin Transports \/ ~fine THEN None
        ELSE [transport |-> transport,
              target |-> IF stdio THEN entry.command
                         ELSE IF strict THEN entry.url ELSE Expanded(entry.url, var),
              args |-> IF ~stdio THEN "none" ELSE IF strict THEN entry.args ELSE Expanded(entry.args, var),
              cwd |-> IF ~stdio THEN "none"
                      ELSE IF strict THEN CwdStrict(entry.cwd) ELSE CwdOwn(entry.cwd, var),
              enabled |-> Enabled(entry, strict), timeout |-> Timeout(entry, strict),
              exposure |-> Extension(entry.exposure, strict),
              tools |-> Extension(entry.tools, strict),
              description |-> Extension(entry.description, strict)]

-----------------------------------------------------------------------------
(* The files.                                                               *)

Strict(file) == file.kind = "plugin"
\* A file that cannot be read, or is not of its shape, is skipped; so is a
\* plugin's whose schema is another, or that has no place for its data.
Readable(file) ==
    /\ file.json
    /\ Strict(file) => file.standard /\ file.data

\* The valid entries; of two that fold alike in one file the later stays.
Parsed(file, var) ==
    FoldLeft(LAMBDA table, given :
                LET server == Server(given.entry, Strict(file), var)
                    folded == Fold[given.name]
                IN  IF server = None THEN table
                    ELSE [name \in DOMAIN table \union {folded} |->
                             IF name = folded THEN server ELSE table[name]],
             <<>>, IF Readable(file) THEN file.servers ELSE <<>>)

\* load_servers(): what a stronger source has is not replaced.
Merged(files, var) ==
    FoldLeft(LAMBDA table, file :
                LET new == Parsed(file, var)
                IN  [name \in DOMAIN table \union DOMAIN new |->
                        IF name \in DOMAIN table THEN table[name] ELSE new[name]],
             <<>>, files)

-----------------------------------------------------------------------------
(* naming.py: who sees a tool of a server.  A table entry is a name or a      *)
(* pattern, which this tool's name has or matches.                           *)

Exposures == {"direct", "codemode", "deferred", "hidden"}
Canon(exposure) == IF exposure = "codemode-deferred" THEN "codemode" ELSE exposure
Known(exposure) == Canon(exposure) \in Exposures

DefaultExposure(configured, codemode) ==
    IF configured # "auto" /\ Known(configured) THEN configured
    ELSE IF codemode THEN "codemode" ELSE "direct"

\* The exact name, else the first pattern that matches; "none" is no entry.
Candidate(table) ==
    LET exact == SelectSeq(table, LAMBDA e : e.key = "the name")
        matching == SelectSeq(table, LAMBDA e : e.key = "a match")
    IN  IF exact # <<>> THEN exact[1].value
        ELSE IF matching # <<>> THEN matching[1].value ELSE "none"

\* Unknown values are reported and fall through.
ToolExposure(table, server, default) ==
    IF Known(Candidate(table)) THEN Canon(Candidate(table))
    ELSE IF Known(server) THEN Canon(server) ELSE Canon(default)

Availability(exposure) == IF exposure \in {"direct", "hidden"} THEN "both" ELSE "program"
Disabled(exposure) == exposure = "hidden"

=============================================================================
