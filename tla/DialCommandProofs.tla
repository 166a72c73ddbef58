------------------------- MODULE DialCommandProofs -------------------------
(* Safety of the channel dial, and that its calls are over in a bounded number *)
(* of steps, for any number of commands, any commands, any capacity of a pipe  *)
(* and any bound on messages.                                                  *)
EXTENDS DialCommand, TLAPS

Typed ==
    /\ turn \in 1 .. NumCommands /\ step \in {"manifest", "chunks"}
    /\ phase \in {"idle", "writing", "polling", "joining", "done"}
    /\ result \in {"ok", "error", "unpolled"} /\ cmd \in Command
    /\ unsent \in Nat /\ pipe \in [Stream \cup {"stdin"} -> 0 .. Capacity]
    /\ said \in [Stream -> Nat] /\ got \in [Stream -> Nat]
    /\ reader \in [Stream -> {"none", "reading", "eof", "refused"}]
    /\ worker \in {"none", "running", "ended", "broken"}
    /\ shell \in {"none", "running", "exited", "reaped"} /\ status \in {0, 1}

\* Nothing of a call is left when the next begins.
Fresh ==
    phase = "idle" =>
        /\ worker = "none" /\ shell = "none" /\ result = "error"
        /\ \A s \in Stream : said[s] = 0 /\ got[s] = 0 /\ pipe[s] = 0 /\ reader[s] = "none"

\* What a command has written has been read or is in the pipe; a reader that
\* has come to the end of a stream has it all, since nobody can write to it.
Accounted(s) ==
    /\ said[s] = got[s] + pipe[s]
    /\ reader[s] = "none" => got[s] = 0
    /\ reader[s] = "reading" => got[s] <= MaxMessage
    /\ reader[s] = "eof" => got[s] <= MaxMessage /\ pipe[s] = 0 /\ ~HeldOpen
    /\ reader[s] = "refused" => got[s] = MaxMessage + 1

\* How far the shell is at each place of the main thread.
ShellInStep ==
    /\ phase = "writing" => \A s \in Stream : reader[s] = "none"
    /\ phase = "joining" => shell = "reaped"
    /\ phase = "done" /\ result # "unpolled" => shell \in {"none", "reaped"}
    /\ shell = "none" => worker = "none"
    /\ shell \in {"exited", "reaped"} /\ worker = "running" => cmd.runs # "exec"

\* An answer that was taken is that of a stream at its end.
Answered ==
    phase = "done" /\ result = "ok" =>
        status = 0 /\ reader["stdout"] = "eof" /\ got["stdout"] > 0

Inv == Typed /\ Fresh /\ (\A s \in Stream : Accounted(s)) /\ ShellInStep /\ Answered

LEMMA CommandsTyped ==
    /\ Commands \subseteq Command /\ NoCommand \in Command
    /\ NumCommands \in Nat \ {0} /\ Capacity \in Nat \ {0} /\ MaxMessage \in Nat
    /\ Requests \subseteq Nat
BY DialCommandAssumption DEF NoCommand, Command

LEMMA InitInv == Init => Inv
BY CommandsTyped
DEF Init, Inv, Typed, Fresh, Accounted, ShellInStep, Answered, Stream, HeldOpen

------------------------------------------------------------------------------
LEMMA DialInv == Inv /\ Dial => Inv'
BY CommandsTyped
DEF Dial, Inv, Typed, Fresh, Accounted, ShellInStep, Answered, HeldOpen, Stream

LEMMA WriteInv == Inv /\ Write => Inv'
BY CommandsTyped
DEF Write, Inv, Typed, Fresh, Accounted, ShellInStep, Answered, HeldOpen, Stream,
    agent, command

LEMMA WrittenInv == Inv /\ Written => Inv'
BY CommandsTyped
DEF Written, Inv, Typed, Fresh, Accounted, ShellInStep, Answered, HeldOpen, Stream, command

LEMMA PollInv == Inv /\ Poll => Inv'
BY DEF Poll, Inv, Typed, Fresh, Accounted, ShellInStep, Answered, HeldOpen, Stream, command

LEMMA TimeOutInv == Inv /\ TimeOut => Inv'
BY DEF TimeOut, Inv, Typed, Fresh, Accounted, ShellInStep, Answered, HeldOpen, Stream

LEMMA PollFailsInv == Inv /\ PollFails => Inv'
BY DEF PollFails, Inv, Typed, Fresh, Accounted, ShellInStep, Answered, HeldOpen, Stream, command

LEMMA JoinInv == Inv /\ Join => Inv'
BY DEF Join, Joined, Text, Inv, Typed, Fresh, Accounted, ShellInStep, Answered, HeldOpen,
       Stream, command

LEMMA ProceedInv == Inv /\ Proceed => Inv'
BY CommandsTyped
DEF Proceed, Inv, Typed, Fresh, Accounted, ShellInStep, Answered, HeldOpen, Stream

LEMMA ReadInv == ASSUME NEW s \in Stream, Inv, Read(s) PROVE Inv'
BY CommandsTyped
DEF Read, Inv, Typed, Fresh, Accounted, ShellInStep, Answered, HeldOpen, Stream,
    agent, command

LEMMA ReadEndInv == ASSUME NEW s \in Stream, Inv, ReadEnd(s) PROVE Inv'
BY DEF ReadEnd, Inv, Typed, Fresh, Accounted, ShellInStep, Answered, HeldOpen, Stream,
       agent, command

LEMMA DrinkInv == Inv /\ Drink => Inv'
BY CommandsTyped
DEF Drink, Inv, Typed, Fresh, Accounted, ShellInStep, Answered, HeldOpen, Stream,
    agent, command

LEMMA SayInv == ASSUME NEW s \in Stream, Inv, Say(s) PROVE Inv'
BY CommandsTyped
DEF Say, Speaks, Inv, Typed, Fresh, Accounted, ShellInStep, Answered, HeldOpen, Stream, agent

LEMMA RebuffedInv == ASSUME NEW s \in Stream, Inv, Rebuffed(s) PROVE Inv'
BY DEF Rebuffed, Speaks, Inv, Typed, Fresh, Accounted, ShellInStep, Answered, HeldOpen,
       Stream, agent

LEMMA EndInv == Inv /\ End => Inv'
BY DEF End, Inv, Typed, Fresh, Accounted, ShellInStep, Answered, HeldOpen, Stream, agent

LEMMA ExitInv == Inv /\ Exit => Inv'
BY DEF Exit, Inv, Typed, Fresh, Accounted, ShellInStep, Answered, HeldOpen, Stream,
       agent, command, Command
------------------------------------------------------------------------------
LEMMA NextInv == Inv /\ [Next]_vars => Inv'
<1> SUFFICES ASSUME Inv, [Next]_vars
             PROVE  Inv'
    OBVIOUS
<1>1. CASE MainThread
    BY <1>1, DialInv, WriteInv, WrittenInv, PollInv, JoinInv, ProceedInv DEF MainThread
<1>2. CASE TimeOut \/ PollFails
    BY <1>2, TimeOutInv, PollFailsInv
<1>3. CASE TheCommand
    BY <1>3, DrinkInv, SayInv, RebuffedInv, EndInv DEF TheCommand
<1>4. CASE Exit
    BY <1>4, ExitInv
<1>5. CASE \E s \in Stream : Reader(s)
    BY <1>5, ReadInv, ReadEndInv DEF Reader
<1>6. CASE UNCHANGED vars
    BY <1>6
    DEF vars, agent, command, Inv, Typed, Fresh, Accounted, ShellInStep, Answered, HeldOpen
<1> QED
    BY <1>1, <1>2, <1>3, <1>4, <1>5, <1>6 DEF Next

LEMMA InvHolds == Spec => []Inv
BY InitInv, NextInv, PTL DEF Spec

\* Which command runs: one of the agent's, or none.
LEMMA CommandIsKnown == Spec => [](cmd \in Commands \cup {NoCommand})
<1> DEFINE Known == cmd \in Commands \cup {NoCommand}
<1>1. Init => Known
    BY DEF Init
<1>2. Known /\ [Next]_vars => Known'
    BY DEF Next, MainThread, TheCommand, Reader, Dial, Write, Written, Poll, PollFails, TimeOut, Join,
           Proceed, Read, ReadEnd, Drink, Say, Rebuffed, End, Exit, vars, agent, command
<1> QED
    BY <1>1, <1>2, PTL DEF Spec

\* Every variable of the channel dial keeps its type, no pipe holds more than
\* its capacity and no reader takes more than a unit beyond the bound.
THEOREM DialTyped == Spec => []TypeOK
<1>1. Inv /\ cmd \in Commands \cup {NoCommand} => TypeOK
    <2> SUFFICES ASSUME Inv, cmd \in Commands \cup {NoCommand}
                 PROVE  TypeOK
        OBVIOUS
    <2>1. got \in [Stream -> 0 .. MaxMessage + 1]
        <3>1. \A s \in Stream : got[s] \in 0 .. MaxMessage + 1
            <4> SUFFICES ASSUME NEW s \in Stream PROVE got[s] \in 0 .. MaxMessage + 1
                OBVIOUS
            <4>1. /\ got[s] \in Nat /\ MaxMessage \in Nat
                  /\ reader[s] \in {"none", "reading", "eof", "refused"}
                BY CommandsTyped DEF Inv, Typed
            <4> QED
                BY <4>1 DEF Inv, Accounted
        <3> QED
            BY <3>1 DEF Inv, Typed
    <2> QED
        BY <2>1 DEF Inv, Typed, TypeOK
<1> QED
    BY <1>1, InvHolds, CommandIsKnown, PTL

\* For any command, whatever it reads, writes, starts and leaves behind: an
\* answer that is taken is all that was written to stdout, up to its end.
THEOREM AnswersWhole == Spec => []AnswersAreWhole
<1>1. Inv => AnswersAreWhole
    BY CommandsTyped
    DEF Inv, Typed, Accounted, Answered, AnswersAreWhole, HeldOpen, Stream
<1> QED
    BY <1>1, InvHolds, PTL

\* However a call ends, by the command's end, the timeout or an error other than
\* try_wait's, no shell is left running or unreaped.
THEOREM NoShellLeft == Spec => []EndedCallsLeaveNoShell
<1>1. Inv => EndedCallsLeaveNoShell
    BY DEF Inv, Typed, Fresh, ShellInStep, EndedCallsLeaveNoShell
<1> QED
    BY <1>1, InvHolds, PTL
------------------------------------------------------------------------------
\* What EachCommandHasItsTurn rests on, liveness itself being out of the
\* prover's reach: a call is a bounded number of steps, and until it is over
\* somebody can take one, but in the two cases that property names.

\* No command says more than it has to.
SaysItAll == \A s \in Stream : said[s] <= cmd.says[s]

\* What there is of a call while the main thread is in it.
Underway ==
    /\ phase \in {"writing", "polling"} => shell \in {"running", "exited"}
    /\ phase \in {"polling", "joining"} => \A s \in Stream : reader[s] # "none"

PhasesLeft == CASE phase = "writing" -> 3 [] phase = "polling" -> 2
                [] phase = "joining" -> 1 [] OTHER -> 0

ShellLeft == CASE shell = "running" -> 2 [] shell = "exited" -> 1 [] OTHER -> 0

WorkerLeft == IF worker = "running" THEN 1 ELSE 0

\* What is left to say is to be said and then to be read.
StreamLeft(s) ==
    2 * (cmd.says[s] - said[s]) + pipe[s]
        + (CASE reader[s] = "none" -> 2 [] reader[s] = "reading" -> 1 [] OTHER -> 0)

\* A bound on what is left of a call: on the steps of all its threads and
\* processes together.
Work ==
    PhasesLeft + ShellLeft + WorkerLeft + 2 * unsent + pipe["stdin"]
        + StreamLeft("stdout") + StreamLeft("stderr")

\* Each step of a call, whoever takes it, leaves less to do.
StepsUseUpWork ==
    [][phase # "idle" /\ phase' # "idle" => Work' \in 0 .. Work - 1]_vars

MainCan ==
    \/ phase \in {"idle", "done"}
    \/ phase = "writing" /\ (unsent = 0 \/ ~HeldOpen \/ pipe["stdin"] < Capacity)
    \/ phase = "polling" /\ shell = "exited"
    \/ phase = "joining" /\ Joined("stdout") /\ (status # 0 => Joined("stderr"))

ReaderCan(s) == reader[s] = "reading" /\ (pipe[s] > 0 \/ ~HeldOpen)

CommandCan ==
    /\ worker = "running"
    /\ \/ pipe["stdin"] > 0 /\ (cmd.reads = "first" \/ (cmd.reads = "last" /\ AllSaid))
       \/ \E s \in Stream : Speaks(s) /\ (reader[s] = "refused" \/ pipe[s] < Capacity)
       \/ cmd.ends /\ AllSaid /\ (cmd.reads # "never" => StdinAtEnd)

ShellCan == shell = "running" /\ (worker # "running" \/ cmd.runs = "background")

\* The timeout strikes; there is need for it only when the command does not end.
TimeCan == phase = "polling" /\ shell \in {"running", "exited"} /\ ~cmd.ends

\* Somebody can take a step, or it is one of the two waits that may not end.
SomebodyCan ==
    \/ MainCan \/ CommandCan \/ ShellCan \/ TimeCan
    \/ \E s \in Stream : ReaderCan(s)
    \/ StuckWriting \/ StuckJoining

LEMMA SaysItAllInductive == Inv /\ SaysItAll /\ [Next]_vars => SaysItAll'
<1> SUFFICES ASSUME Inv, SaysItAll, [Next]_vars, NEW s \in Stream
             PROVE  said'[s] <= cmd'.says[s]
    BY DEF SaysItAll
<1>1. said[s] <= cmd.says[s]
    BY DEF SaysItAll
<1>2. CASE Dial
    <2>1. \A c \in Command : c.says[s] \in Nat
        BY DEF Command
    <2>2. CASE UNCHANGED <<cmd, said>>
        BY <1>1, <2>2
    <2>3. CASE cmd' \in Commands /\ UNCHANGED said
        BY <1>2, <2>1, <2>3, CommandsTyped DEF Dial, Inv, Fresh
    <2> QED
        BY <1>2, <2>2, <2>3 DEF Dial
<1>3. CASE Proceed
    BY <1>3 DEF Proceed, NoCommand
<1>4. CASE \E t \in Stream : Say(t)
    <2>1. PICK t \in Stream : Say(t)
        BY <1>4
    <2>2. /\ said[t] \in Nat /\ cmd.says[t] \in Nat /\ said[t] < cmd.says[t]
          /\ said' = [said EXCEPT ![t] = @ + 1] /\ cmd' = cmd
        BY <2>1 DEF Say, Speaks, Inv, Typed, Command
    <2>3. said \in [Stream -> Nat]
        BY DEF Inv, Typed
    <2> QED
        BY <1>1, <2>2, <2>3
<1>5. CASE UNCHANGED <<cmd, said>>
    BY <1>1, <1>5
<1> QED
    BY <1>2, <1>3, <1>4, <1>5
    DEF Next, MainThread, TheCommand, Reader, Write, Written, Poll, PollFails, TimeOut, Join, Read,
        ReadEnd, Drink, Rebuffed, End, Exit, vars, agent, command

LEMMA SaysItAllHolds == Spec => []SaysItAll
<1>1. Init => SaysItAll
    BY DEF Init, SaysItAll, NoCommand
<1> QED
    BY <1>1, SaysItAllInductive, InvHolds, PTL DEF Spec

LEMMA UnderwayHolds == Spec => []Underway
<1>1. Init => Underway
    BY DEF Init, Underway
<1>2. Inv /\ Underway /\ [Next]_vars => Underway'
    <2> SUFFICES ASSUME Inv, Underway, [Next]_vars PROVE Underway'
        OBVIOUS
    <2>1. CASE MainThread \/ PollFails \/ TimeOut
        BY <2>1
        DEF MainThread, Dial, Write, Written, Poll, PollFails, TimeOut, Join, Proceed, Underway, agent
    <2>2. CASE TheCommand \/ Exit
        BY <2>2
        DEF TheCommand, Drink, Say, Rebuffed, End, Exit, Underway, agent, command
    <2>3. ASSUME NEW s \in Stream, Reader(s)
          PROVE  Underway'
        <3>1. UNCHANGED <<phase, shell>> /\ reader \in [Stream -> {"none", "reading", "eof", "refused"}]
            BY <2>3 DEF Reader, Read, ReadEnd, agent, Inv, Typed
        <3>2. \A t \in Stream : reader[t] # "none" => reader'[t] # "none"
            BY <2>3, <3>1 DEF Reader, Read, ReadEnd
        <3> QED
            BY <3>1, <3>2 DEF Underway
    <2>4. CASE UNCHANGED vars
        BY <2>4 DEF vars, agent, Underway
    <2> QED
        BY <2>1, <2>2, <2>3, <2>4 DEF Next
<1> QED
    BY <1>1, <1>2, InvHolds, PTL DEF Spec

\* The work left is a number, and so is each part of it.
LEMMA WorkType ==
    ASSUME Typed, SaysItAll
    PROVE  /\ PhasesLeft \in Nat /\ ShellLeft \in Nat /\ WorkerLeft \in Nat
           /\ unsent \in Nat /\ pipe["stdin"] \in Nat
           /\ \A s \in Stream : StreamLeft(s) \in Nat
           /\ Work \in Nat
<1>1. PhasesLeft \in Nat /\ ShellLeft \in Nat /\ WorkerLeft \in Nat
    BY DEF PhasesLeft, ShellLeft, WorkerLeft
<1>2. unsent \in Nat /\ \A p \in Stream \cup {"stdin"} : pipe[p] \in Nat
    BY CommandsTyped DEF Typed
<1>3. ASSUME NEW s \in Stream
      PROVE  StreamLeft(s) \in Nat
    <2>1. said[s] \in Nat /\ cmd.says[s] \in Nat /\ said[s] <= cmd.says[s] /\ pipe[s] \in Nat
        BY <1>2 DEF Typed, Command, SaysItAll
    <2> QED
        BY <2>1 DEF StreamLeft
<1>4. "stdout" \in Stream /\ "stderr" \in Stream
    BY DEF Stream
<1> QED
    BY <1>1, <1>2, <1>3, <1>4 DEF Work

\* Work falls when one part of it does and none rises.
LEMMA WorkFalls ==
    ASSUME Typed, SaysItAll, Typed', SaysItAll',
           PhasesLeft' <= PhasesLeft, ShellLeft' <= ShellLeft, WorkerLeft' <= WorkerLeft,
           2 * unsent' + pipe'["stdin"] <= 2 * unsent + pipe["stdin"],
           \A s \in Stream : StreamLeft(s)' <= StreamLeft(s),
           \/ PhasesLeft' < PhasesLeft \/ ShellLeft' < ShellLeft \/ WorkerLeft' < WorkerLeft
           \/ 2 * unsent' + pipe'["stdin"] < 2 * unsent + pipe["stdin"]
           \/ \E s \in Stream : StreamLeft(s)' < StreamLeft(s)
    PROVE  Work' \in 0 .. Work - 1
<1>1. /\ StreamLeft("stdout")' <= StreamLeft("stdout")
      /\ StreamLeft("stderr")' <= StreamLeft("stderr")
    BY DEF Stream
<1>2. \/ PhasesLeft' < PhasesLeft \/ ShellLeft' < ShellLeft \/ WorkerLeft' < WorkerLeft
      \/ 2 * unsent' + pipe'["stdin"] < 2 * unsent + pipe["stdin"]
      \/ StreamLeft("stdout")' < StreamLeft("stdout")
      \/ StreamLeft("stderr")' < StreamLeft("stderr")
    BY DEF Stream
<1>3. /\ PhasesLeft \in Nat /\ ShellLeft \in Nat /\ WorkerLeft \in Nat
      /\ unsent \in Nat /\ pipe["stdin"] \in Nat
      /\ StreamLeft("stdout") \in Nat /\ StreamLeft("stderr") \in Nat /\ Work \in Nat
    BY WorkType DEF Stream
<1>4. /\ PhasesLeft' \in Nat /\ ShellLeft' \in Nat /\ WorkerLeft' \in Nat
      /\ unsent' \in Nat /\ pipe'["stdin"] \in Nat
      /\ StreamLeft("stdout")' \in Nat /\ StreamLeft("stderr")' \in Nat /\ Work' \in Nat
    <2>1. /\ (PhasesLeft \in Nat)' /\ (ShellLeft \in Nat)' /\ (WorkerLeft \in Nat)'
          /\ (unsent \in Nat)' /\ (pipe["stdin"] \in Nat)'
          /\ (\A s \in Stream : StreamLeft(s) \in Nat)' /\ (Work \in Nat)'
        BY WorkType, PTL
    <2> QED
        BY <2>1 DEF Stream
<1>5. /\ Work = PhasesLeft + ShellLeft + WorkerLeft + 2 * unsent + pipe["stdin"]
                    + StreamLeft("stdout") + StreamLeft("stderr")
      /\ Work' = PhasesLeft' + ShellLeft' + WorkerLeft' + 2 * unsent' + pipe'["stdin"]
                    + StreamLeft("stdout")' + StreamLeft("stderr")'
    BY DEF Work
<1> HIDE DEF Work, PhasesLeft, ShellLeft, WorkerLeft, StreamLeft
<1> QED
    BY <1>1, <1>2, <1>3, <1>4, <1>5

\* A step that leaves the streams' and the request's part alone.
LEMMA OthersFall ==
    ASSUME Typed, SaysItAll, Typed', SaysItAll', UNCHANGED <<cmd, said, pipe, reader, unsent>>,
           PhasesLeft' <= PhasesLeft, ShellLeft' <= ShellLeft, WorkerLeft' <= WorkerLeft,
           PhasesLeft' < PhasesLeft \/ ShellLeft' < ShellLeft \/ WorkerLeft' < WorkerLeft
    PROVE  Work' \in 0 .. Work - 1
<1>1. \A s \in Stream : StreamLeft(s)' = StreamLeft(s) /\ StreamLeft(s) \in Nat
    BY WorkType DEF StreamLeft
<1>2. /\ 2 * unsent' + pipe'["stdin"] = 2 * unsent + pipe["stdin"]
      /\ unsent \in Nat /\ pipe["stdin"] \in Nat
    BY WorkType
<1> QED
    BY <1>1, <1>2, WorkFalls

\* A step that changes one stream, or the request, and leaves the rest alone.
LEMMA StreamsFall ==
    ASSUME Typed, SaysItAll, Typed', SaysItAll', UNCHANGED <<phase, shell, worker>>,
           2 * unsent' + pipe'["stdin"] <= 2 * unsent + pipe["stdin"],
           \A s \in Stream : StreamLeft(s)' <= StreamLeft(s),
           \/ 2 * unsent' + pipe'["stdin"] < 2 * unsent + pipe["stdin"]
           \/ \E s \in Stream : StreamLeft(s)' < StreamLeft(s)
    PROVE  Work' \in 0 .. Work - 1
<1>1. /\ PhasesLeft' = PhasesLeft /\ ShellLeft' = ShellLeft /\ WorkerLeft' = WorkerLeft
      /\ PhasesLeft \in Nat /\ ShellLeft \in Nat /\ WorkerLeft \in Nat
    BY WorkType DEF PhasesLeft, ShellLeft, WorkerLeft
<1> QED
    BY <1>1, WorkFalls

LEMMA CallStepsUseUpWork ==
    ASSUME Inv, SaysItAll, Typed', SaysItAll', Next, phase # "idle", phase' # "idle"
    PROVE  Work' \in 0 .. Work - 1
<1> USE DEF Inv
<1>1. /\ "stdin" \notin Stream
      /\ \A s \in Stream : /\ pipe[s] \in Nat /\ said[s] \in Nat /\ cmd.says[s] \in Nat
                           /\ said[s] <= cmd.says[s]
      /\ pipe["stdin"] \in Nat /\ unsent \in Nat
      /\ pipe \in [Stream \cup {"stdin"} -> 0 .. Capacity]
      /\ said \in [Stream -> Nat]
      /\ reader \in [Stream -> {"none", "reading", "eof", "refused"}]
    BY CommandsTyped DEF Typed, Command, SaysItAll, Stream
<1>2. \A s \in Stream : StreamLeft(s) \in Nat
    BY WorkType
<1>3. CASE Dial \/ Proceed
    BY <1>3 DEF Dial, Proceed
<1>4. CASE Write
    <2>1. /\ unsent' = unsent - 1 /\ pipe'["stdin"] = pipe["stdin"] + 1 /\ unsent > 0
          /\ \A s \in Stream : pipe'[s] = pipe[s]
          /\ UNCHANGED <<phase, shell, worker, cmd, said, reader>>
        BY <1>1, <1>4 DEF Write, agent, command
    <2>2. \A s \in Stream : StreamLeft(s)' = StreamLeft(s)
        BY <2>1 DEF StreamLeft
    <2>3. \A s \in Stream : StreamLeft(s)' <= StreamLeft(s)
        BY <1>2, <2>2
    <2>4. /\ 2 * unsent' + pipe'["stdin"] < 2 * unsent + pipe["stdin"]
          /\ 2 * unsent' + pipe'["stdin"] <= 2 * unsent + pipe["stdin"]
        BY <1>1, <2>1
    <2> QED
        BY <2>1, <2>3, <2>4, StreamsFall
<1>5. CASE Written
    <2>1. /\ phase = "writing" /\ phase' = "polling" /\ unsent' = 0
          /\ \A s \in Stream : reader[s] = "none" /\ reader'[s] = "reading"
          /\ UNCHANGED <<shell, worker, cmd, said, pipe>>
        BY <1>5 DEF Written, command, ShellInStep
    <2>2. PhasesLeft' < PhasesLeft
        BY <2>1 DEF PhasesLeft
    <2>3. /\ ShellLeft' = ShellLeft /\ WorkerLeft' = WorkerLeft
          /\ ShellLeft \in Nat /\ WorkerLeft \in Nat /\ PhasesLeft' <= PhasesLeft
        BY <2>1 DEF ShellLeft, WorkerLeft, PhasesLeft
    <2>4. \A s \in Stream : StreamLeft(s)' <= StreamLeft(s)
        BY <1>1, <2>1 DEF StreamLeft
    <2>5. 2 * unsent' + pipe'["stdin"] <= 2 * unsent + pipe["stdin"]
        BY <1>1, <2>1
    <2> QED
        BY <2>2, <2>3, <2>4, <2>5, WorkFalls
<1>6. CASE Poll \/ PollFails \/ TimeOut \/ Join \/ End \/ Exit \/ \E s \in Stream : Rebuffed(s)
    <2>1. /\ UNCHANGED <<cmd, said, pipe, reader, unsent>>
          /\ PhasesLeft' <= PhasesLeft /\ ShellLeft' <= ShellLeft /\ WorkerLeft' <= WorkerLeft
          /\ PhasesLeft' < PhasesLeft \/ ShellLeft' < ShellLeft \/ WorkerLeft' < WorkerLeft
        <3>1. CASE Poll
            BY <3>1 DEF Poll, command, PhasesLeft, ShellLeft, WorkerLeft
        <3>2. CASE PollFails \/ TimeOut
            BY <3>2 DEF PollFails, TimeOut, command, PhasesLeft, ShellLeft, WorkerLeft
        <3>3. CASE Join
            BY <3>3 DEF Join, command, PhasesLeft, ShellLeft, WorkerLeft
        <3>4. CASE End
            BY <3>4 DEF End, agent, PhasesLeft, ShellLeft, WorkerLeft
        <3>5. CASE Exit
            BY <3>5 DEF Exit, agent, command, PhasesLeft, ShellLeft, WorkerLeft
        <3>6. CASE \E s \in Stream : Rebuffed(s)
            BY <3>6 DEF Rebuffed, Speaks, agent, PhasesLeft, ShellLeft, WorkerLeft
        <3> QED
            BY <1>6, <3>1, <3>2, <3>3, <3>4, <3>5, <3>6
    <2> QED
        BY <2>1, OthersFall
<1>7. CASE Drink
    <2>1. /\ pipe["stdin"] > 0 /\ pipe'["stdin"] = pipe["stdin"] - 1 /\ unsent' = unsent
          /\ \A s \in Stream : pipe'[s] = pipe[s]
          /\ UNCHANGED <<phase, shell, worker, cmd, said, reader>>
        BY <1>1, <1>7 DEF Drink, agent, command
    <2>2. \A s \in Stream : StreamLeft(s)' = StreamLeft(s)
        BY <2>1 DEF StreamLeft
    <2>3. \A s \in Stream : StreamLeft(s)' <= StreamLeft(s)
        BY <1>2, <2>2
    <2>4. /\ 2 * unsent' + pipe'["stdin"] < 2 * unsent + pipe["stdin"]
          /\ 2 * unsent' + pipe'["stdin"] <= 2 * unsent + pipe["stdin"]
        BY <1>1, <2>1
    <2> QED
        BY <2>1, <2>3, <2>4, StreamsFall
<1>8. ASSUME NEW t \in Stream,
             \/ pipe'[t] = pipe[t] + 1 /\ said'[t] = said[t] + 1 /\ reader'[t] = reader[t]
             \/ pipe'[t] = pipe[t] - 1 /\ said'[t] = said[t] /\ reader[t] = "reading"
             \/ /\ pipe'[t] = pipe[t] /\ said'[t] = said[t]
                /\ reader[t] = "reading" /\ reader'[t] = "eof",
             \A s \in Stream \ {t} : /\ pipe'[s] = pipe[s] /\ said'[s] = said[s]
                                     /\ reader'[s] = reader[s],
             reader'[t] = "none" => reader[t] = "none",
             pipe'["stdin"] = pipe["stdin"],
             UNCHANGED <<phase, shell, worker, cmd, unsent>>
      PROVE  Work' \in 0 .. Work - 1
    <2>1. StreamLeft(t)' < StreamLeft(t)
        BY <1>1, <1>8 DEF StreamLeft
    <2>2. \A s \in Stream \ {t} : StreamLeft(s)' = StreamLeft(s)
        BY <1>8 DEF StreamLeft
    <2>3. \A s \in Stream : StreamLeft(s)' \in Nat
        <3>1. (\A s \in Stream : StreamLeft(s) \in Nat)'
            BY WorkType, PTL
        <3> QED
            BY <3>1
    <2>4. \A s \in Stream : StreamLeft(s)' <= StreamLeft(s)
        BY <1>2, <2>1, <2>2, <2>3
    <2> QED
        BY <1>1, <1>8, <2>1, <2>4, StreamsFall
<1>9. CASE \E t \in Stream : Say(t)
    <2>1. PICK t \in Stream : Say(t)
        BY <1>9
    <2> QED
        BY <1>1, <1>8, <2>1 DEF Say, agent
<1>10. CASE \E t \in Stream : Read(t)
    <2>1. PICK t \in Stream : Read(t)
        BY <1>10
    <2> QED
        BY <1>1, <1>8, <2>1 DEF Read, agent, command
<1>11. CASE \E t \in Stream : ReadEnd(t)
    <2>1. PICK t \in Stream : ReadEnd(t)
        BY <1>11
    <2> QED
        BY <1>1, <1>8, <2>1 DEF ReadEnd, agent, command
<1> QED
    BY <1>3, <1>4, <1>5, <1>6, <1>7, <1>9, <1>10, <1>11
    DEF Next, MainThread, TheCommand, Reader

\* A call is over after a bounded number of steps, whatever its command is and
\* whichever threads and processes take them: nothing in it goes round for ever.
THEOREM CallsAreBounded == Spec => StepsUseUpWork
<1> DEFINE Step == phase # "idle" /\ phase' # "idle" => Work' \in 0 .. Work - 1
<1>1. Inv /\ SaysItAll /\ Inv' /\ SaysItAll' /\ [Next]_vars => [Step]_vars
    BY CallStepsUseUpWork DEF Inv
<1> HIDE DEF Step
<1>2. Spec => [][Step]_vars
    BY <1>1, InvHolds, SaysItAllHolds, PTL DEF Spec
<1> QED
    BY <1>2 DEF StepsUseUpWork, Step

\* Until it is over somebody can go on, for any commands, requests, pipes and
\* bound: the agent and its commands never all wait for each other but where
\* the request does not fit in the pipe of a command that is not reading it, or
\* where something that never ends holds a stream open.
THEOREM NobodyWaitsForEver == Spec => []SomebodyCan
<1>1. Inv /\ SaysItAll /\ Underway => SomebodyCan
    <2> SUFFICES ASSUME Inv, SaysItAll, Underway, ~SomebodyCan
                 PROVE  FALSE
        OBVIOUS
    <2> USE DEF Inv
    <2>1. /\ phase \in {"writing", "polling", "joining"}
          /\ ~MainCan /\ ~CommandCan /\ ~ShellCan /\ ~TimeCan
          /\ \A s \in Stream : ~ReaderCan(s)
          /\ ~StuckWriting /\ ~StuckJoining
        BY DEF SomebodyCan, MainCan, Typed
    <2>2. /\ unsent \in Nat /\ pipe["stdin"] \in 0 .. Capacity /\ Capacity \in Nat \ {0}
          /\ \A s \in Stream :
                /\ pipe[s] \in 0 .. Capacity /\ said[s] \in Nat /\ cmd.says[s] \in Nat
                /\ said[s] <= cmd.says[s]
                /\ reader[s] \in {"none", "reading", "eof", "refused"}
          /\ cmd.reads \in {"first", "last", "never"}
          /\ cmd.runs \in {"exec", "child", "background"}
        BY CommandsTyped DEF Typed, Command, SaysItAll
    \* A command that runs and reads its input in its turn comes to its end.
    <2>3. ASSUME worker = "running", phase # "writing",
                 \A s \in Stream : reader[s] # "none"
          PROVE  ~cmd.ends
        <3>1. cmd.reads = "first" => StdinAtEnd
            BY <2>1, <2>2, <2>3 DEF CommandCan, StdinAtEnd, StdinClosed
        <3>2. ASSUME NEW s \in Stream
              PROVE  said[s] = cmd.says[s]
            <4> SUFFICES ASSUME said[s] # cmd.says[s] PROVE FALSE
                OBVIOUS
            <4>1. Speaks(s)
                BY <2>2, <2>3, <3>1 DEF Speaks
            <4>2. reader[s] # "refused" /\ pipe[s] = Capacity
                BY <2>1, <2>2, <2>3, <4>1 DEF CommandCan
            <4>3. HeldOpen
                BY <2>3 DEF HeldOpen
            <4>4. reader[s] = "reading"
                BY <2>2, <2>3, <4>2, <4>3 DEF Accounted
            <4> QED
                BY <2>1, <2>2, <4>2, <4>4 DEF ReaderCan
        <3>3. AllSaid
            BY <3>2 DEF AllSaid
        <3>4. cmd.reads # "never" => StdinAtEnd
            BY <2>1, <2>2, <2>3, <3>1, <3>3 DEF CommandCan, StdinAtEnd, StdinClosed
        <3> QED
            BY <2>1, <2>3, <3>3, <3>4 DEF CommandCan
    <2>4. phase # "writing"
        <3> SUFFICES ASSUME phase = "writing" PROVE FALSE
            OBVIOUS
        <3>1. unsent > 0 /\ HeldOpen /\ pipe["stdin"] = Capacity
            BY <2>1, <2>2 DEF MainCan
        <3>2. cmd.reads = "first"
            BY <2>1, <3>1 DEF StuckWriting
        <3>3. worker # "running"
            BY <2>1, <2>2, <3>1, <3>2 DEF CommandCan
        <3> QED
            BY <2>1, <3>1, <3>3 DEF HeldOpen, ShellCan
    <2>5. \A s \in Stream : reader[s] # "none"
        BY <2>1, <2>4 DEF Underway
    <2>6. worker = "running" => ~cmd.ends
        BY <2>3, <2>4, <2>5
    <2>7. CASE phase = "polling"
        <3>1. shell = "running"
            BY <2>1, <2>7 DEF Underway, MainCan
        <3>2. worker = "running"
            BY <2>1, <3>1 DEF ShellCan
        <3> QED
            BY <2>1, <2>6, <2>7, <3>1, <3>2 DEF TimeCan
    <2>8. CASE phase = "joining"
        <3>1. worker # "running"
            BY <2>1, <2>6, <2>8 DEF StuckJoining
        <3>2. ~HeldOpen
            BY <2>8, <3>1 DEF HeldOpen, ShellInStep
        <3>3. \A s \in Stream : Joined(s)
            BY <2>1, <2>2, <2>5, <3>2 DEF ReaderCan, Joined
        <3> QED
            BY <2>1, <2>8, <3>3 DEF MainCan, Stream
    <2> QED
        BY <2>1, <2>4, <2>7, <2>8
<1> QED
    BY <1>1, InvHolds, SaysItAllHolds, UnderwayHolds, PTL
==============================================================================
