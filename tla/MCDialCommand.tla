--------------------------- MODULE MCDialCommand ---------------------------
(* TLC instance of DialCommand: answers are none, one that takes the pipe     *)
(* twice, and one beyond the bound, after which the command is cut off.       *)
EXTENDS DialCommand

MCRequests == {1, 2}
MCSays == {[stdout |-> 0, stderr |-> 2], [stdout |-> 2, stderr |-> 0],
           [stdout |-> 2, stderr |-> 2], [stdout |-> 4, stderr |-> 0]}
MCCommands == {c \in [reads : {"first", "last", "never"}, says : MCSays, code : {0, 1},
                      runs : {"exec", "child", "background"}, ends : BOOLEAN] :
                   c.code = 1 => c.says["stderr"] > 0}
==============================================================================
