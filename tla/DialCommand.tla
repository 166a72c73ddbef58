---------------------------- MODULE DialCommand ----------------------------
(* The channel dial of crates/vault-agent/src/main.rs: for each of its peer   *)
(* commands in turn the main thread runs `sh -c <cmd>`, once for the manifest *)
(* and once for the missing chunks, with a pipe on each of the command's      *)
(* standard streams.  run_dial_cmd writes the request, starts two readers and *)
(* polls the shell until it has exited or the timeout is over.                *)
(*                                                                            *)
(* Bytes are counted in units; what they say is left out, but for an answer   *)
(* of the wrong kind.  The command itself is not the project's code: any      *)
(* order of reading and writing, any exit status, not ending at all, and      *)
(* outliving the shell are what a command may do.                             *)
EXTENDS Naturals

CONSTANTS
    NumCommands,    \* how many --peer-cmd the agent has
    Capacity,       \* of a pipe
    MaxMessage,     \* MAX_MESSAGE_BYTES
    Requests,       \* lengths of requests
    Commands        \* what a call's command may do

Stream == {"stdout", "stderr"}

\* runs: as the shell itself ("exec"), as a child that the shell waits for, or
\* one that it does not wait for.  ends: it stops once it has nothing to do.
Command == [reads : {"first", "last", "never"}, says : [Stream -> Nat], code : {0, 1},
            runs : {"exec", "child", "background"}, ends : BOOLEAN]

ASSUME DialCommandAssumption ==
    /\ NumCommands \in Nat \ {0} /\ Capacity \in Nat \ {0} /\ MaxMessage \in Nat
    /\ Requests \subseteq Nat \ {0}
    /\ Commands \subseteq Command

VARIABLES
    turn,       \* whose command the main thread runs, 1 .. NumCommands
    step,       \* which request of the exchange, "manifest" or "chunks"
    phase,      \* "idle", "writing", "polling", "joining" or "done"
    result,     \* of the call that is done: "ok", "error", or "unpolled" for an
                \* error of try_wait
    cmd,        \* the command of this call
    unsent,     \* how much of the request is still to be written
    pipe,       \* how much each pipe holds
    said,       \* how much the command has written to each stream
    got,        \* how much each reader has read
    reader,     \* "none", "reading", "eof" or "refused"
    worker,     \* the command's process: "none", "running", "ended", "broken"
    shell,      \* "none", "running", "exited" or "reaped"
    status      \* the shell's exit status

agent == <<turn, step, phase, result>>
command == <<cmd, said, worker>>
vars == <<agent, command, unsent, pipe, got, reader, shell, status>>

NoCommand == [reads |-> "never", says |-> [s \in Stream |-> 0], code |-> 0,
              runs |-> "exec", ends |-> TRUE]

Init ==
    /\ turn = 1 /\ step = "manifest"
    /\ phase = "idle" /\ result = "error" /\ cmd = NoCommand
    /\ unsent = 0 /\ pipe = [p \in Stream \cup {"stdin"} |-> 0]
    /\ said = [s \in Stream |-> 0] /\ got = [s \in Stream |-> 0]
    /\ reader = [s \in Stream |-> "none"]
    /\ worker = "none" /\ shell = "none" /\ status = 0

\* Both processes hold the command's ends of the pipes.
HeldOpen == worker = "running" \/ shell = "running"
StdinClosed == phase # "writing"
StdinAtEnd == StdinClosed /\ pipe["stdin"] = 0
AllSaid == \A s \in Stream : said[s] = cmd.says[s]

------------------------------------------------------------------------------
(* The main thread                                                            *)

\* sh is spawned, or that fails.
Dial ==
    /\ phase = "idle"
    /\ \/ \E c \in Commands, n \in Requests :
              /\ phase' = "writing" /\ cmd' = c /\ unsent' = n
              /\ worker' = "running" /\ shell' = "running"
              /\ UNCHANGED result
       \/ /\ phase' = "done" /\ result' = "error"
          /\ UNCHANGED <<cmd, unsent, worker, shell>>
    /\ UNCHANGED <<turn, step, pipe, said, got, reader, status>>

\* write_all: no timeout runs, and no reader.
Write ==
    /\ phase = "writing" /\ unsent > 0 /\ pipe["stdin"] < Capacity /\ HeldOpen
    /\ unsent' = unsent - 1 /\ pipe' = [pipe EXCEPT !["stdin"] = @ + 1]
    /\ UNCHANGED <<agent, command, got, reader, shell, status>>

\* (Faulty: the readers are left for later.)
WrittenReadLater ==
    /\ phase = "writing" /\ (unsent = 0 \/ ~HeldOpen)
    /\ unsent' = 0 /\ phase' = "polling"
    /\ UNCHANGED <<turn, step, result, command, pipe, got, reader, shell, status>>

\* The request is written, or EPIPE is ignored; stdin is dropped, and the
\* readers are started.
Written ==
    /\ phase = "writing" /\ (unsent = 0 \/ ~HeldOpen)
    /\ unsent' = 0 /\ phase' = "polling"
    /\ reader' = [s \in Stream |-> "reading"]
    /\ UNCHANGED <<turn, step, result, command, pipe, got, shell, status>>

\* try_wait finds that the shell has exited.
Poll ==
    /\ phase = "polling" /\ shell = "exited"
    /\ shell' = "reaped" /\ phase' = "joining"
    /\ UNCHANGED <<turn, step, result, command, unsent, pipe, got, reader, status>>

\* try_wait fails: its error is returned, and the shell is left to itself.
PollFails ==
    /\ phase = "polling" /\ shell \in {"running", "exited"}
    /\ phase' = "done" /\ result' = "unpolled"
    /\ UNCHANGED <<turn, step, command, unsent, pipe, got, reader, shell, status>>

\* (Faulty: an error is returned and nothing else is done.)
TimeOutOnly ==
    /\ phase = "polling" /\ shell \in {"running", "exited"}
    /\ phase' = "done" /\ result' = "error"
    /\ UNCHANGED <<turn, step, command, unsent, pipe, got, reader, shell, status>>

\* The timeout is over: the shell is killed, if it has not just exited, and
\* reaped.  Nobody joins the readers.
TimeOut ==
    /\ phase = "polling" /\ shell \in {"running", "exited"}
    /\ phase' = "done" /\ result' = "error" /\ shell' = "reaped"
    /\ worker' = IF cmd.runs = "exec" /\ worker = "running" THEN "broken" ELSE worker
    /\ UNCHANGED <<turn, step, cmd, said, unsent, pipe, got, reader, status>>

Joined(s) == reader[s] \in {"eof", "refused"}

\* The text of a reader that met an error is the empty one.
Text(s) == IF reader[s] = "refused" THEN 0 ELSE got[s]

\* (Faulty: what has been read by now is the answer.)
JoinNothing ==
    /\ phase = "joining"
    /\ phase' = "done"
    /\ result' = IF status = 0 /\ Text("stdout") > 0 THEN "ok" ELSE "error"
    /\ UNCHANGED <<turn, step, command, unsent, pipe, got, reader, shell, status>>

\* The readers are joined: stderr's only where its text goes into an error.
Join ==
    /\ phase = "joining" /\ Joined("stdout") /\ (status # 0 => Joined("stderr"))
    /\ phase' = "done"
    /\ result' = IF status = 0 /\ Text("stdout") > 0 THEN "ok" ELSE "error"
    /\ UNCHANGED <<turn, step, command, unsent, pipe, got, reader, shell, status>>

\* gossip_once_cmd: a good answer is merged, and if chunks are missing they
\* are asked for in a second call; an error, or an answer of the wrong kind,
\* ends the exchange.  The main loop goes on to the next command, and after
\* the last one to the rest of the tick and to the next.
Proceed ==
    /\ phase = "done"
    /\ \/ /\ step = "manifest" /\ result = "ok"
          /\ step' = "chunks" /\ UNCHANGED turn
       \/ /\ step' = "manifest" /\ turn' = (turn % NumCommands) + 1
    /\ phase' = "idle" /\ result' = "error" /\ cmd' = NoCommand
    /\ unsent' = 0 /\ pipe' = [p \in DOMAIN pipe |-> 0]
    /\ said' = [s \in Stream |-> 0] /\ got' = [s \in Stream |-> 0]
    /\ reader' = [s \in Stream |-> "none"]
    /\ worker' = "none" /\ shell' = "none" /\ status' = 0

------------------------------------------------------------------------------
(* A reader, in its own thread, until the end or one unit beyond the bound;   *)
(* either way it closes its end.                                              *)

\* (Faulty: the reader has no bound.)
ReadAll(s) ==
    /\ reader[s] = "reading" /\ pipe[s] > 0
    /\ pipe' = [pipe EXCEPT ![s] = @ - 1] /\ got' = [got EXCEPT ![s] = @ + 1]
    /\ UNCHANGED <<agent, command, unsent, reader, shell, status>>

Read(s) ==
    /\ reader[s] = "reading" /\ pipe[s] > 0
    /\ pipe' = [pipe EXCEPT ![s] = @ - 1] /\ got' = [got EXCEPT ![s] = @ + 1]
    /\ reader' = [reader EXCEPT ![s] = IF got[s] + 1 > MaxMessage THEN "refused" ELSE @]
    /\ UNCHANGED <<agent, command, unsent, shell, status>>

ReadEnd(s) ==
    /\ reader[s] = "reading" /\ pipe[s] = 0 /\ ~HeldOpen
    /\ reader' = [reader EXCEPT ![s] = "eof"]
    /\ UNCHANGED <<agent, command, unsent, pipe, got, shell, status>>

(* The command                                                                *)
Drink ==
    /\ worker = "running" /\ pipe["stdin"] > 0
    /\ cmd.reads = "first" \/ (cmd.reads = "last" /\ AllSaid)
    /\ pipe' = [pipe EXCEPT !["stdin"] = @ - 1]
    /\ UNCHANGED <<agent, command, unsent, got, reader, shell, status>>

Speaks(s) ==
    /\ worker = "running" /\ said[s] < cmd.says[s]
    /\ cmd.reads = "first" => StdinAtEnd

Say(s) ==
    /\ Speaks(s) /\ reader[s] # "refused" /\ pipe[s] < Capacity
    /\ said' = [said EXCEPT ![s] = @ + 1] /\ pipe' = [pipe EXCEPT ![s] = @ + 1]
    /\ UNCHANGED <<agent, cmd, worker, unsent, got, reader, shell, status>>

\* Nobody reads this stream any more.
Rebuffed(s) ==
    /\ Speaks(s) /\ reader[s] = "refused"
    /\ worker' = "broken"
    /\ UNCHANGED <<agent, cmd, said, unsent, pipe, got, reader, shell, status>>

End ==
    /\ worker = "running" /\ cmd.ends /\ AllSaid
    /\ cmd.reads # "never" => StdinAtEnd
    /\ worker' = "ended"
    /\ UNCHANGED <<agent, cmd, said, unsent, pipe, got, reader, shell, status>>

\* The shell exits with the command's status, or its own.
Exit ==
    /\ shell = "running" /\ (worker # "running" \/ cmd.runs = "background")
    /\ shell' = "exited"
    /\ status' \in IF worker = "broken" THEN {0, 1} ELSE {cmd.code}
    /\ UNCHANGED <<agent, command, unsent, pipe, got, reader>>

------------------------------------------------------------------------------
MainThread == Dial \/ Write \/ Written \/ Poll \/ Join \/ Proceed
Reader(s) == Read(s) \/ ReadEnd(s)
TheCommand == Drink \/ End \/ \E s \in Stream : Say(s) \/ Rebuffed(s)

Next == MainThread \/ PollFails \/ TimeOut \/ TheCommand \/ Exit \/ \E s \in Stream : Reader(s)

\* Threads and processes are scheduled.  Time passes for a command that does
\* not end; one that does is given as long as it needs.
Spec ==
    /\ Init /\ [][Next]_vars
    /\ WF_vars(MainThread) /\ WF_vars(TimeOut /\ ~cmd.ends)
    /\ WF_vars(TheCommand) /\ WF_vars(Exit) /\ \A s \in Stream : WF_vars(Reader(s))

------------------------------------------------------------------------------
\* Every variable has its type, and no pipe holds more than its capacity.
TypeOK ==
    /\ turn \in 1 .. NumCommands /\ step \in {"manifest", "chunks"}
    /\ phase \in {"idle", "writing", "polling", "joining", "done"}
    /\ result \in {"ok", "error", "unpolled"} /\ cmd \in Commands \cup {NoCommand}
    /\ unsent \in Nat /\ pipe \in [Stream \cup {"stdin"} -> 0 .. Capacity]
    /\ said \in [Stream -> Nat] /\ got \in [Stream -> 0 .. MaxMessage + 1]
    /\ reader \in [Stream -> {"none", "reading", "eof", "refused"}]
    /\ worker \in {"none", "running", "ended", "broken"}
    /\ shell \in {"none", "running", "exited", "reaped"} /\ status \in {0, 1}

\* What run_dial_cmd returns is all that the command wrote to its stdout up to
\* its end, in bounds and not empty, and the shell's status was success: no
\* byte is missed that was still in the pipe, or still unwritten by a process
\* the shell did not wait for, when the shell exited.
AnswersAreWhole ==
    phase = "done" /\ result = "ok" =>
        /\ status = 0 /\ worker # "running"
        /\ got["stdout"] = said["stdout"]
        /\ got["stdout"] \in 1 .. MaxMessage

\* A call that is over leaves no shell behind, running or unreaped, and a
\* process only of a command that the shell did not run as itself; but for one
\* that try_wait has failed, which does leave its shell.
EndedCallsLeaveNoShell ==
    phase \in {"idle", "done"} /\ result # "unpolled" =>
        /\ shell \in {"none", "reaped"}
        /\ worker = "running" => cmd.runs # "exec"

\* The two places where the main thread may wait for ever: the request does
\* not fit in the pipe of a command that is not reading it, and something that
\* holds stdout or stderr outlives the shell and does not end.
StuckWriting ==
    phase = "writing" /\ unsent > 0 /\ pipe["stdin"] = Capacity /\ cmd.reads # "first"
StuckJoining == phase = "joining" /\ worker = "running" /\ ~cmd.ends

\* Otherwise each command has its turn again and again, whatever the others do,
\* and no call needs the timeout for a command that ends, however much it has
\* to say ("must not time out or deadlock", the test of a response larger than
\* one pipe buffer).
EachCommandHasItsTurn ==
    \/ \A i \in 1 .. NumCommands : []<>(turn = i)
    \/ <>[]StuckWriting
    \/ <>[]StuckJoining
==============================================================================
