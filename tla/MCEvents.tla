------------------------------ MODULE MCEvents ------------------------------
(* Model-checking instances of Events: the types and handlers of the todo  *)
(* and authentication modules, and a type with two handlers as the bus      *)
(* allows it.                                                              *)
EXTENDS Events, DebugBuffer, SequencesExt, FiniteSetsExt

CONSTANTS p1, p2, e1, e2, mail, todo, mailer, logger, auditor

OneProcess == {p1}
TwoProcesses == {p1, p2}
OneEvent == {e1}
TwoEvents == {e1, e2}
MailOnly == {mail}
TodoOnly == {todo}
Both == {mail, todo}
AllHandlers == {mailer, logger, auditor}

AllMail == [e \in Event |-> mail]
AllTodo == [e \in Event |-> todo]
MailAndTodo == [e \in Event |-> IF e = e1 THEN mail ELSE todo]

\* As the program wires them.
Single == [t \in Topic |-> IF t = mail THEN <<mailer>> ELSE <<logger>>]

\* Two handlers per type.
Double == [t \in Topic |-> IF t = mail THEN <<mailer, auditor>> ELSE <<logger, auditor>>]

\* Todo handlers subscribe before those of authentication.
TodoFirst == [t \in Topic |-> Topic \cap (IF t = mail THEN {todo} ELSE {})]

StrictMailer == {mailer}
LenientLogger == {logger}
None == {}

Stream == {"nats"}
Either == {"memory", "nats"}

-----------------------------------------------------------------------------
(* The debug buffer against its log, for rings of one to three places and  *)
(* every log of up to seven messages of two kinds.                         *)

Filled(n, s) == FoldLeft(Appended, NewBuffer(n, mail), s)

ASSUME BufferShowsLatest ==
    \A n \in 1..3, s \in BoundedSeq({mail, todo}, 7) :
        /\ Filled(n, s) \in Buffer(n, {mail, todo})
        /\ Holds(Filled(n, s), s)
        /\ Entries(Filled(n, s)) = Latest(s, n)

ProcessSymmetry == Permutations(Process)
=============================================================================
