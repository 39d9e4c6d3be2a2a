-------------------------------- MODULE Shell --------------------------------
(***************************************************************************)
(* builtin/shell/: one conversation's bash session.  Tool calls of a turn    *)
(* run at the same time (Callers): they start background jobs, read them,     *)
(* wait for them, kill them, restart the session; commands in the            *)
(* foreground are left out.  Each job has a collector that settles it when    *)
(* its process is gone and a watchdog with its deadline; one notifier         *)
(* announces the jobs that ended, between turns.  A call may be cancelled at  *)
(* each of its awaits.                                                       *)
(*                                                                         *)
(* A process is alive, doomed (sent SIGKILL, returncode still None) or       *)
(* exited (returncode set).  An action is what a task does between awaits.   *)
(***************************************************************************)
EXTENDS OutputRing, SequencesExt

CONSTANTS
    Callers,        \* the tool calls of a batch
    MaxBackground,  \* max_background
    MaxJobs,        \* bound: background jobs started
    MaxTurns,       \* bound: turns
    MaxPrinted,     \* bound: lines a job prints
    Printers,       \* bound: the jobs that print
    Filter          \* the lines the filter of a filtered read matches

ASSUME ShellAssumption ==
    /\ MaxBackground \in Nat \ {0}
    /\ MaxJobs \in Nat
    /\ MaxTurns \in Nat
    /\ MaxPrinted \in Nat

VARIABLES
    turn,       \* the running turn and whether it was cancelled; none: no = 0
    turns,      \* how many turns there were
    doing,      \* where each call is
    jobs,       \* every job started, by its number: the _Job
    queue,      \* _pending_done
    notifier,   \* where _announce_done is
    closed,     \* the plugin's close() ran
    told        \* history: the announcements

vars == <<turn, turns, doing, jobs, queue, notifier, closed, told>>

-----------------------------------------------------------------------------
Idle == [op |-> "idle", job |-> 0]
NoTurn == [no |-> 0, stopped |-> FALSE]
JobIds == DOMAIN jobs
Running(j) == ~jobs[j].done
Listed == {j \in JobIds : jobs[j].listed}

\* A call that may take its next step: its turn runs and was not cancelled.
Free(c) == doing[c].op = "idle" /\ turn.no > 0 /\ ~turn.stopped /\ ~closed
At(c, op) == doing[c].op = op /\ ~turn.stopped
Goes(c, op) == doing' = [doing EXCEPT ![c].op = op]
Returns(c) == doing' = [doing EXCEPT ![c] = Idle]

\* _terminate(): a process that has a returncode is left alone.
Signalled(proc) == IF proc = "alive" THEN "doomed" ELSE proc

KilledNowDoneOrNot(job) ==
    [job EXCEPT !.status = "killed", !.asked = TRUE, !.proc = Signalled(@),
                !.watched = FALSE, !.listed = FALSE]
\* _kill_now() of one job, and shutdown() of them all.
KilledNow(job) ==
    [job EXCEPT !.status = IF ~job.done THEN "killed" ELSE @,
                !.asked = @ \/ ~job.done,
                !.proc = IF ~job.done THEN Signalled(@) ELSE @,
                !.watched = FALSE,
                !.listed = FALSE]
Shutdown ==
    /\ jobs' = [j \in JobIds |-> IF jobs[j].listed THEN KilledNow(jobs[j]) ELSE jobs[j]]
    /\ queue' = <<>>
    /\ notifier' = "none"

Init ==
    /\ turn = NoTurn
    /\ turns = 0
    /\ doing = [c \in Callers |-> Idle]
    /\ jobs = <<>>
    /\ queue = <<>>
    /\ notifier = "none"
    /\ closed = FALSE
    /\ told = <<>>

-----------------------------------------------------------------------------
(* The turn and the conversation.                                           *)

TurnStarts ==
    /\ turn.no = 0 /\ ~closed /\ turns < MaxTurns
    /\ turns' = turns + 1
    /\ turn' = [no |-> turns + 1, stopped |-> FALSE]
    /\ UNCHANGED <<doing, jobs, queue, notifier, closed, told>>

\* A turn is over when the tasks of its batch are.
TurnEnds ==
    /\ turn.no > 0
    /\ \A c \in Callers : doing[c].op = "idle"
    /\ turn' = NoTurn
    /\ UNCHANGED <<turns, doing, jobs, queue, notifier, closed, told>>

CancelTurn ==
    /\ turn.no > 0 /\ ~turn.stopped
    /\ turn' = [turn EXCEPT !.stopped = TRUE]
    /\ UNCHANGED <<turns, doing, jobs, queue, notifier, closed, told>>

\* The plugin's close(), at the end of aclose() or in the middle of a turn
\* that close() has just cancelled.
Close ==
    /\ ~closed
    /\ closed' = TRUE
    /\ turn' = [turn EXCEPT !.stopped = turn.no > 0]
    /\ Shutdown
    /\ UNCHANGED <<turns, doing, told>>

-----------------------------------------------------------------------------
(* Background jobs.                                                         *)

RunningJobs == {j \in Listed : Running(j)}

\* start_background() up to the await of _spawn(); at the limit it is refused.
StartBackground(c) ==
    /\ Free(c)
    /\ Cardinality(RunningJobs) < MaxBackground
    /\ Goes(c, "spawn")
    /\ UNCHANGED <<turn, turns, jobs, queue, notifier, closed, told>>

\* The process is there: the job is registered with its collector and its
\* watchdog.  A job without a deadline is one whose watchdog never fires.
Spawned(c) ==
    /\ At(c, "spawn") /\ Len(jobs) < MaxJobs
    /\ jobs' = Append(jobs, [proc |-> "alive", status |-> "running", done |-> FALSE,
                             watched |-> TRUE, listed |-> TRUE, ring |-> EmptyRing,
                             printed |-> 0, taken |-> 0, asked |-> FALSE, overdue |-> FALSE])
    /\ Returns(c)
    /\ UNCHANGED <<turn, turns, queue, notifier, closed, told>>

SpawnFails(c) ==
    /\ At(c, "spawn")
    /\ Returns(c)
    /\ UNCHANGED <<turn, turns, jobs, queue, notifier, closed, told>>

\* A pump takes a line from the pipe, which outlives the process until the
\* collector gives it up.
Prints(j) ==
    /\ Running(j) /\ j \in Printers /\ jobs[j].printed < MaxPrinted
    /\ jobs' = [jobs EXCEPT ![j].printed = @ + 1,
                            ![j].ring = Appended(@, jobs[j].printed + 1)]
    /\ UNCHANGED <<turn, turns, doing, queue, notifier, closed, told>>

\* The process ends, by itself or by a signal.
Exits(j) ==
    /\ jobs[j].proc \in {"alive", "doomed"}
    /\ jobs' = [jobs EXCEPT ![j].proc = "exited"]
    /\ UNCHANGED <<turn, turns, doing, queue, notifier, closed, told>>

\* _settle() after the pipes' grace: the pumps are gone before done is set.
Settled(job) ==
    [job EXCEPT !.status = IF @ = "running" THEN "completed" ELSE @,
                !.done = TRUE, !.watched = FALSE]

\* _enqueue_done(): a killed job is not announced.
Enqueued(j, status) ==
    IF status = "killed" THEN UNCHANGED <<queue, notifier>>
    ELSE /\ queue' = Append(queue, j)
         /\ notifier' = IF notifier = "none" THEN "waiting" ELSE notifier

Settle(j) ==
    /\ jobs[j].proc = "exited" /\ Running(j)
    /\ jobs' = [jobs EXCEPT ![j] = Settled(@)]
    /\ Enqueued(j, jobs'[j].status)
    /\ UNCHANGED <<turn, turns, doing, closed, told>>

\* _watch(): the deadline has passed.
Overdue(job) ==
    IF job.proc = "exited" THEN [job EXCEPT !.watched = FALSE]
    ELSE [job EXCEPT !.status = "timed_out", !.proc = Signalled(@),
                     !.watched = FALSE, !.overdue = TRUE]
WatchdogFires(j) ==
    /\ jobs[j].watched
    /\ jobs' = [jobs EXCEPT ![j] = Overdue(@)]
    /\ UNCHANGED <<turn, turns, doing, queue, notifier, closed, told>>

\* kill(): the status first, then the signal, then the wait for done.
Kill(c, j) ==
    /\ Free(c) /\ j \in Listed /\ Running(j)
    /\ jobs' = [jobs EXCEPT ![j].status = "killed", ![j].proc = Signalled(@),
                            ![j].asked = TRUE]
    /\ doing' = [doing EXCEPT ![c] = [Idle EXCEPT !.op = "kill", !.job = j]]
    /\ UNCHANGED <<turn, turns, queue, notifier, closed, told>>

\* The job is done, or the five seconds are over.
KillReturns(c) ==
    /\ At(c, "kill")
    /\ Returns(c)
    /\ UNCHANGED <<turn, turns, jobs, queue, notifier, closed, told>>

\* read_output(): everything, or what the filter matches, is consumed.
Consumed(job, all) ==
    LET wanted == IF all THEN 1..job.printed ELSE Filter
    IN  [job EXCEPT !.taken = @ + Len(Taken(job.ring, wanted)),
                    !.ring = IF all THEN Drained(@) ELSE Kept(@, wanted)]
Read(c, j) ==
    /\ Free(c) /\ j \in Listed
    /\ \E all \in BOOLEAN : jobs' = [jobs EXCEPT ![j] = Consumed(@, all)]
    /\ UNCHANGED <<turn, turns, doing, queue, notifier, closed, told>>

Wait(c, j) ==
    /\ Free(c) /\ j \in Listed /\ Running(j)
    /\ doing' = [doing EXCEPT ![c] = [Idle EXCEPT !.op = "wait", !.job = j]]
    /\ UNCHANGED <<turn, turns, jobs, queue, notifier, closed, told>>

\* The job completed, or the wait's own timeout has passed.
WaitReturns(c) ==
    /\ At(c, "wait")
    /\ \E all \in BOOLEAN : jobs' = [jobs EXCEPT ![doing[c].job] = Consumed(@, all)]
    /\ Returns(c)
    /\ UNCHANGED <<turn, turns, queue, notifier, closed, told>>

\* restart(): shutdown() with cwd and env put back.
Restart(c) ==
    /\ Free(c)
    /\ Shutdown
    /\ UNCHANGED <<turn, turns, doing, closed, told>>

-----------------------------------------------------------------------------
(* _announce_done(): wait out the window, hold while a turn runs, speak.    *)

SpeakKeepingQueue ==
    /\ notifier = "waiting" /\ turn.no = 0 /\ queue # <<>> /\ Len(told) < 3
    /\ notifier' = "speaking"
    /\ told' = Append(told, Ascending(ToSet(queue)))
    /\ UNCHANGED <<turn, turns, doing, jobs, queue, closed>>
Speak ==
    /\ notifier = "waiting" /\ turn.no = 0
    /\ queue' = <<>>
    /\ IF queue = <<>>
       THEN notifier' = "none" /\ told' = told
       ELSE /\ notifier' = "speaking"
            /\ told' = Append(told, Ascending(ToSet(queue)))
    /\ UNCHANGED <<turn, turns, doing, jobs, closed>>

SpokenOnce ==
    /\ notifier = "speaking"
    /\ notifier' = "none"
    /\ UNCHANGED <<turn, turns, doing, jobs, queue, closed, told>>
\* emit_message() returned: go on with what ended in the meantime, or stop.
Spoken ==
    /\ notifier = "speaking"
    /\ notifier' = IF queue = <<>> THEN "none" ELSE "waiting"
    /\ UNCHANGED <<turn, turns, doing, jobs, queue, closed, told>>

-----------------------------------------------------------------------------
\* A CancelledError arrives at the await of a call, from its turn or from the
\* dispatcher's timeout: a spawn cleans up after itself, a job goes on.
Interrupt(c) ==
    /\ doing[c].op # "idle"
    /\ Returns(c)
    /\ UNCHANGED <<turn, turns, jobs, queue, notifier, closed, told>>

-----------------------------------------------------------------------------

CallStep(c) ==
    \/ StartBackground(c) \/ Spawned(c) \/ SpawnFails(c)
    \/ KillReturns(c) \/ WaitReturns(c) \/ Restart(c) \/ Interrupt(c)
    \/ \E j \in JobIds : Kill(c, j) \/ Read(c, j) \/ Wait(c, j)
JobStep(j) == Prints(j) \/ Exits(j) \/ Settle(j) \/ WatchdogFires(j)

Next ==
    \/ TurnStarts \/ TurnEnds \/ CancelTurn \/ Close
    \/ Speak \/ Spoken
    \/ \E c \in Callers : CallStep(c)
    \/ \E j \in JobIds : JobStep(j)

\* What is signalled ends, and the event loop runs collectors and the notifier.
\* Nothing is assumed of jobs that nobody signalled, of turns and of calls.
Spec ==
    /\ Init /\ [][Next]_vars
    /\ WF_vars(Speak) /\ WF_vars(Spoken)
    /\ \A j \in 1..MaxJobs :
           /\ WF_vars(j \in JobIds /\ jobs[j].proc = "doomed" /\ Exits(j))
           /\ WF_vars(j \in JobIds /\ Settle(j))

-----------------------------------------------------------------------------
Job == [proc: {"alive", "doomed", "exited"},
        status: {"running", "completed", "killed", "timed_out"},
        done: BOOLEAN, watched: BOOLEAN, listed: BOOLEAN,
        ring: [lines: Seq(1..MaxPrinted), bytes: 0..MaxBytes, discarded: 0..MaxPrinted],
        printed: 0..MaxPrinted, taken: 0..MaxPrinted,
        asked: BOOLEAN, overdue: BOOLEAN]

\* The types, and the bounds of a ring (ring.py:21).
TypeOK ==
    /\ turn \in [no: 0..MaxTurns, stopped: BOOLEAN]
    /\ turns \in 0..MaxTurns
    /\ doing \in [Callers -> [op: {"idle", "spawn", "kill", "wait"}, job: 0..MaxJobs]]
    /\ jobs \in Seq(Job) /\ Len(jobs) <= MaxJobs
    /\ \A j \in JobIds : Len(jobs[j].ring.lines) <= MaxLines
    /\ queue \in Seq(1..MaxJobs)
    /\ notifier \in {"none", "waiting", "speaking"}
    /\ closed \in BOOLEAN

\* Reading is consuming (session.py:104): each line a job printed was read
\* once, is still buffered, in order, or was discarded and counted, and the
\* byte account is that of the lines.
OutputAccounted ==
    \A j \in JobIds :
        LET ring == jobs[j].ring
        IN  /\ jobs[j].printed = jobs[j].taken + Len(ring.lines) + ring.discarded
            /\ \A a, b \in DOMAIN ring.lines : a < b => ring.lines[a] < ring.lines[b]
            /\ ring.bytes = Bytes(ring.lines)

\* A job's last words: once it is done its status stands and no line arrives
\* any more, so that a read after the wait returned was the last one needed
\* (session.py:382).
DoneIsFinal ==
    [][\A j \in JobIds : jobs[j].done =>
           jobs'[j].done /\ jobs'[j].status = jobs[j].status
           /\ jobs'[j].printed = jobs[j].printed]_vars

\* A job is reported killed only if somebody asked for it, timed out only if
\* its deadline signalled it, completed only if neither had (session.py:58).
StatusTrue ==
    \A j \in JobIds : jobs[j].done =>
        CASE jobs[j].status = "killed" -> jobs[j].asked
          [] jobs[j].status = "timed_out" -> jobs[j].overdue
          [] OTHER -> jobs[j].status = "completed" /\ ~jobs[j].asked /\ ~jobs[j].overdue

\* Whatever is announced has ended, once, in start order within its
\* announcement (session.py:588), and was not shut down before; no job waits
\* twice to be announced.
AnnouncedOnce ==
    /\ \A i, k \in DOMAIN queue : i # k => queue[i] # queue[k]
    /\ \A a \in DOMAIN told : \A i, k \in DOMAIN told[a] : i < k => told[a][i] < told[a][k]
    /\ \A a, b \in DOMAIN told : a # b => ToSet(told[a]) \cap ToSet(told[b]) = {}
    /\ \A a \in DOMAIN told : \A j \in ToSet(told[a]) \cup ToSet(queue) :
           jobs[j].done /\ jobs[j].status # "killed"

\* When the conversation is closed every job's process has been signalled and
\* none is started afterwards (plugin.py:50).
NothingOutlivesClose ==
    closed => \A j \in JobIds : jobs[j].proc # "alive"

\* What is said of a job's end, when, and at a close, is true.
EndingsTrue == TypeOK /\ StatusTrue /\ AnnouncedOnce /\ NothingOutlivesClose

\* A job that ended without being killed is announced, unless the session was
\* restarted or closed, or a turn never ends (session.py:577).
EndsAreNews ==
    <>[](turn.no # 0) \/
    \A j \in 1..MaxJobs :
        (j \in JobIds /\ jobs[j].done /\ jobs[j].status # "killed" /\ jobs[j].listed)
            ~> (j \notin Listed \/ \E a \in DOMAIN told : j \in ToSet(told[a]))

\* A kill or a deadline ends its job, however the command behaves (session.py:3).
KillsEnd ==
    \A j \in 1..MaxJobs :
        (j \in JobIds /\ jobs[j].status \in {"killed", "timed_out"})
            ~> (j \in JobIds /\ jobs[j].done)

\* Ends come, and are told.
EndsReach == EndsAreNews /\ KillsEnd
=============================================================================
