----------------------------- MODULE MCAcpProxy -----------------------------
(* A finite instance of AcpProxy: one session in a connected directory, one *)
(* in a directory that is not, and the scripts of a few editors.           *)
EXTENDS AcpProxy

CONSTANTS s1, s2

Initialize == [method |-> "initialize", session |-> Nil]
New(s) == [method |-> "session/new", session |-> s]
LoadOf(s) == [method |-> "session/load", session |-> s]
Prompt(s) == [method |-> "session/prompt", session |-> s]
Cancel(s) == [method |-> "session/cancel", session |-> s]
Close(s) == [method |-> "session/close", session |-> s]

Scenario(lines, edits, faults, hangups) ==
    [lines |-> lines, edits |-> edits, faults |-> faults, hangups |-> hangups]

AllScenarios == {
    Scenario(<<Initialize, New(s1), Prompt(s1), Prompt(s1), Close(s1)>>, 1, 0, 0),
    Scenario(<<Initialize, Initialize, New(s1)>>, 0, 0, 0),
    Scenario(<<LoadOf(s1), LoadOf(s1), Close(s1), LoadOf(s1)>>, 2, 1, 1),
    Scenario(<<Initialize, LoadOf(s1), Prompt(s1), Cancel(s1)>>, 1, 1, 0),
    Scenario(<<Initialize, New(s1)>>, 1, 0, 1),
    Scenario(<<New(s1), Close(s1), LoadOf(s1)>>, 1, 0, 0),
    Scenario(<<Initialize, New(s2), Prompt(s2)>>, 1, 0, 0)}

=============================================================================
