------------------------------ MODULE MCAgent ------------------------------
(***************************************************************************)
(* Instances of Agent for TLC: tools, calls and messages.                  *)
(***************************************************************************)
EXTENDS Agent, TLC

Declare(name, risk, modes) ==
    [name |-> name, risk |-> risk, modes |-> modes, approval |-> FALSE, valid |-> TRUE]

\* A tool that may also publish.
SomeTools == {Declare("post", "low", {"read", "publish"})}

CallOf(mode, args) ==
    [tool |-> "post", mode |-> mode, user |-> Owner, args |-> args, resource |-> "account"]

\* Two contents to publish, a harmless read, and a mode that is not declared.
SomeCalls == {CallOf("publish", 1), CallOf("publish", 2), CallOf("read", 1), CallOf("write", 1)}

Say(kind, arg) == [kind |-> kind, arg |-> arg]

Story(texts, messages, calling, failing, dying) ==
    [texts |-> texts, messages |-> messages, tools |-> calling, faults |-> failing,
     restarts |-> dying]

\* Decisions on approvals while tools are called, without and with failures; a
\* conversation; memories.
SomeScenarios ==
    {Story({Say("approve", 1), Say("deny", 1)}, 2, TRUE, 0, 0),
     Story({Say("approve", 1), Say("approve", 2)}, 1, TRUE, 1, 1),
     Story({Say("chat", 2), Say("chat", 9), Say("stop", 0)}, 2, FALSE, 1, 1),
     Story({Say("remember", 0), Say("remember", 1), Say("forget", 1), Say("query", 0)},
           3, FALSE, 1, 1)}

RequestLimits == [ModelSteps |-> 1, ToolCalls |-> 2, Tokens |-> 4, CostUSD |-> 9, Retries |-> 1]

CallerSymmetry == Permutations(Caller)
=============================================================================
