----------------------------- MODULE MCSessions -----------------------------
(* Small instances of Sessions for TLC.                                    *)
EXTENDS Sessions, TLC

CONSTANTS c1, t1

InChannel   == [channel |-> c1, thread |-> Missing]
InThread    == [channel |-> t1, thread |-> t1]
SaidChannel == [channel |-> t1, thread |-> Missing]
NewThread   == [channel |-> c1, thread |-> t1]
NoThread    == [channel |-> c1, thread |-> c1]

\* Every kind of request in a channel and in a thread, with and without a choice, and
\* agents that are not there.
MCAsks ==
    {Request("chat", at, Missing, Missing) : at \in {InChannel, InThread, SaidChannel}}
    \cup {Request("chat", InChannel, "nobody", 7),
          Request("new", InThread, "nobody", Missing),
          Request("thread", NewThread, "health", Missing),
          Request("thread", NoThread, Missing, 7),
          Request("agent", InChannel, "planner", Missing),
          Request("agent", InChannel, "nobody", Missing),
          Request("iterations", InChannel, Missing, 7),
          Request("cancel", InChannel, Missing, Missing)}

RequestSymmetry == Permutations(Requests)
=============================================================================
