---------------------------- MODULE MCCommandChannel ----------------------------
(* Small instances of CommandChannel for TLC. *)
EXTENDS CommandChannel

CONSTANTS a, b

\* Whatever the first command is, a service request follows it.  What an action does, a
\* control may do too: it is refused when its lease or its deadline has passed.
ServiceFollows == <<{"movement", "control"}, {"service"}>>
AnyKind        == [i \in 1..MaxCommands |-> Kinds]
=============================================================================
