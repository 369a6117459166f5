---------------------------- MODULE MCCommandRun ----------------------------
(* Tools that write more than a pipe holds, to one and to both streams.     *)
EXTENDS CommandRun

Silent == [writes |-> [s \in Streams |-> << >>], ends |-> TRUE, code |-> 0, child |-> FALSE]

\* A path in two reads and a last line without an end; then a long line.
Compiler == [Silent EXCEPT !.writes = [out |-> <<"/", "usr", "nl", "w">>, err |-> <<"w">>],
                           !.code = 2]
Long == [Silent EXCEPT !.writes.out = <<"w", "/", "usr", "/", "usr">>]
Daemon == [Silent EXCEPT !.writes.err = <<"nl">>, !.code = 1, !.child = TRUE]
Server == [Silent EXCEPT !.ends = FALSE]

Tools == {Silent, Compiler, Long, Daemon, Server}
=============================================================================
