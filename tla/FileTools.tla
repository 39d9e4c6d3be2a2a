------------------------------ MODULE FileTools ------------------------------
(***************************************************************************)
(* host/plugin/builtin/filesystem.py: the read, write and edit calls of a     *)
(* conversation on one file.  The tools are synchronous, so each call runs in *)
(* a thread of its own, beside those of its batch; a call that times out or   *)
(* is cancelled answers at once, and its thread goes on.  A text is a         *)
(* sequence of tokens, "lf" and "crlf" among them.                           *)
(***************************************************************************)
EXTENDS Naturals, Sequences, FiniteSets, FiniteSetsExt, SequencesExt, Functions

CONSTANTS
    Tokens,     \* what texts are made of
    Plans,      \* the batches there may be: sequences of sequences of calls
    Given       \* what the file may be at first

Ops == [tool : {"read"}]
       \union [tool : {"write"}, text : Seq(Tokens), append : BOOLEAN]
       \union [tool : {"edit"}, old : Tokens, new : Tokens, all : BOOLEAN]
NoFile == [enc |-> "none", text |-> <<>>]
Files == {NoFile} \union [enc : {"utf-8", "other"}, text : Seq(Tokens)]

ASSUME FileToolsAssumption ==
    /\ {"lf", "crlf"} \subseteq Tokens
    /\ Plans \subseteq Seq(Seq(Ops) \ {<<>>}) \ {<<>>}
    /\ Given \subseteq Files

VARIABLES
    plan,       \* the batches
    batch,      \* the one under way
    file,       \* none, or its encoding and text
    calls,      \* the calls of the batches so far: thread, text read, answer
    clash       \* history: a thread touched the file while another one wrote

filesVars == <<plan, batch, file, calls, clash>>

NewCall(op) ==
    [op |-> op, thread |-> "queued", read |-> NoFile, result |-> "none", answer |-> "none"]

FilesInit ==
    /\ plan \in Plans /\ batch = 1
    /\ file \in Given
    /\ calls = [n \in DOMAIN plan[1] |-> NewCall(plan[1][n])]
    /\ clash = {}

-----------------------------------------------------------------------------
(* What a thread does with the text it has read.                            *)

\* read_text(): line ends are one, and only UTF-8 is read.
Universal(text) == [n \in DOMAIN text |-> IF text[n] = "crlf" THEN "lf" ELSE text[n]]
Count(text, token) == Cardinality({n \in DOMAIN text : text[n] = token})
Replaced(text, old, new, all) ==
    [n \in DOMAIN text |->
        IF text[n] = old /\ (all \/ \A m \in 1..n - 1 : text[m] # old) THEN new ELSE text[n]]
\* Appended text begins on a line of its own.
Behind(existing, text) ==
    IF existing # <<>> /\ Last(existing) # "lf" THEN <<"lf">> \o text ELSE text

\* The verdict of a call on the file as it has read it.
Verdict(op, read) ==
    CASE op.tool = "read" ->
              IF read.enc = "none" THEN "file_not_found"
              ELSE IF "nul" \in Range(read.text) THEN "binary_file"
              ELSE IF read.text = <<>> THEN "out_of_range" ELSE "ok"
      [] op.tool = "write" -> IF op.append /\ read.enc = "other" THEN "error" ELSE "ok"
      [] op.tool = "edit" ->
              IF read.enc = "none" THEN "file_not_found"
              ELSE IF read.enc = "other" THEN "error"
              ELSE IF Count(Universal(read.text), op.old) = 0 THEN "not_found"
              ELSE IF ~op.all /\ Count(Universal(read.text), op.old) > 1 THEN "not_unique"
              ELSE "ok"
Appends(c) == calls[c].op.tool = "write" /\ calls[c].op.append /\ calls[c].read.enc # "none"
\* What the thread writes; an append, behind what it finds by then.
Output(c) ==
    LET op == calls[c].op
        read == calls[c].read
    IN  IF op.tool = "edit" THEN Replaced(Universal(read.text), op.old, op.new, op.all)
        ELSE IF Appends(c) THEN Behind(Universal(read.text), op.text)
        ELSE op.text

-----------------------------------------------------------------------------
Thread(c, phase) == calls[c].thread = phase
InFlight == {c \in DOMAIN calls : calls[c].thread \in {"has read", "opened"}}
Writes(c) == calls[c].op.tool # "read"
\* Whoever touches the file while another thread holds what it has read of it.
Touch(c) ==
    clash' = clash \union
        (IF \E d \in InFlight \ {c} : Writes(c) \/ Writes(d)
         THEN {c} \union {d \in InFlight : Writes(c) \/ Writes(d)} ELSE {})

Begins(c) ==
    /\ Thread(c, "queued")
    /\ calls' = [calls EXCEPT ![c].thread = "has read", ![c].read = file]
    /\ Touch(c)
    /\ UNCHANGED <<plan, batch, file>>

\* The thread is over; its result is the answer unless one was given before.
Over(c, result) ==
    /\ calls' = [calls EXCEPT ![c].thread = "over", ![c].result = result,
                              ![c].answer = IF @ = "none" THEN result ELSE @]
    /\ UNCHANGED <<plan, batch>>

\* An error before the file was touched, or nothing to write.
Ends(c) ==
    /\ Thread(c, "has read")
    /\ ~Writes(c) \/ Verdict(calls[c].op, calls[c].read) # "ok"
    /\ Over(c, Verdict(calls[c].op, calls[c].read))
    /\ UNCHANGED <<file, clash>>

\* Mutant of Opens: the file is not emptied.
OpensInPlace(c) ==
    /\ Thread(c, "has read") /\ Writes(c) /\ ~Appends(c)
    /\ Verdict(calls[c].op, calls[c].read) = "ok"
    /\ calls' = [calls EXCEPT ![c].thread = "opened"]
    /\ file' = [file EXCEPT !.enc = "utf-8"]
    /\ Touch(c)
    /\ UNCHANGED <<plan, batch>>
\* write_text(): opening empties the file; the text follows, from the start,
\* over whatever another thread has put there meanwhile.
Opens(c) ==
    /\ Thread(c, "has read") /\ Writes(c) /\ ~Appends(c)
    /\ Verdict(calls[c].op, calls[c].read) = "ok"
    /\ calls' = [calls EXCEPT ![c].thread = "opened"]
    /\ file' = [enc |-> "utf-8", text |-> <<>>]
    /\ Touch(c)
    /\ UNCHANGED <<plan, batch>>
Overlaid(text) == text \o SubSeq(file.text, Len(text) + 1, Len(file.text))
Flushes(c) ==
    /\ Thread(c, "opened")
    /\ file' = [file EXCEPT !.text = Overlaid(Output(c))]
    /\ Over(c, "ok") /\ Touch(c)
\* The file is opened behind its end.
AppendsText(c) ==
    /\ Thread(c, "has read") /\ Appends(c)
    /\ Verdict(calls[c].op, calls[c].read) = "ok"
    /\ file' = [file EXCEPT !.text = @ \o Output(c)]
    /\ Over(c, "ok") /\ Touch(c)

-----------------------------------------------------------------------------
\* The call's timeout, or its turn is cancelled.  A thread that waits for a
\* worker is not started any more; one that runs is told and does not listen.
Abandoned(c) ==
    /\ calls[c].answer = "none"
    /\ calls' = [calls EXCEPT ![c].answer = "timed out",
                              ![c].thread = IF @ = "queued" THEN "dropped" ELSE @]
    /\ UNCHANGED <<plan, batch, file, clash>>

\* The model sees all answers and makes its next calls.
NextBatch ==
    /\ batch < Len(plan)
    /\ \A c \in DOMAIN calls : calls[c].answer # "none"
    /\ batch' = batch + 1
    /\ calls' = calls \o [n \in DOMAIN plan[batch + 1] |-> NewCall(plan[batch + 1][n])]
    /\ UNCHANGED <<plan, file, clash>>

Step(c) == Begins(c) \/ Ends(c) \/ Opens(c) \/ Flushes(c) \/ AppendsText(c)
FilesNext == NextBatch \/ \E c \in DOMAIN calls : Step(c) \/ Abandoned(c)
FilesSpec == FilesInit /\ [][FilesNext]_filesVars

-----------------------------------------------------------------------------
\* What each answer says of the file before and after.
Meant(op, before, result, after) ==
    LET old == Universal(before.text)
        places == {n \in DOMAIN old : old[n] = op.old}
    IN  /\ op.tool = "read" \/ result # "ok" => after = before
        /\ op.tool = "read" /\ result = "ok" => before.text # <<>>
        /\ op.tool = "write" /\ result = "ok" =>
               IF op.append /\ before.text # <<>>
               THEN /\ IsPrefix(before.text, after.text) /\ IsSuffix(op.text, after.text)
                    /\ Len(after.text) - Len(before.text) - Len(op.text)
                           = IF Last(before.text) \in {"lf", "crlf"} THEN 0 ELSE 1
               ELSE after.text = op.text
        /\ op.tool = "edit" /\ result = "ok" =>
               /\ places # {} /\ (op.all \/ Cardinality(places) = 1)
               /\ DOMAIN after.text = DOMAIN old
               /\ \A n \in DOMAIN old :
                     after.text[n] = IF n \in places THEN op.new ELSE old[n]

\* A call whose thread nobody disturbs does to the file what its answer says,
\* or would have said had it not timed out; and a thread whose call was given
\* up before it began never begins, so that a call that is made again meets
\* only what was under way.
CallsTrue ==
    [][\A c \in DOMAIN calls :
          /\ calls[c].thread # "over" /\ calls'[c].thread = "over" /\ c \notin clash' =>
                Meant(calls[c].op, calls[c].read, calls'[c].result, file')
          /\ calls[c].thread = "queued" /\ calls'[c].thread = "has read" =>
                calls[c].answer = "none"]_filesVars

=============================================================================
