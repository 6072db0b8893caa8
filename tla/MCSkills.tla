----------------------------- MODULE MCSkills -----------------------------
(***************************************************************************)
(* Instances of Skills for TLC: tools, servers, manifests and scenarios.   *)
(***************************************************************************)
EXTENDS Skills, TLC

Declare(name, risk, modes) ==
    [name |-> name, risk |-> risk, modes |-> modes, approval |-> FALSE, valid |-> TRUE]

\* A tool that may also publish, and a declaration of it that comes too late.
SomeTools == {Declare("post", "low", {"read", "write", "publish"}), Declare("post", "high", {"read"})}

\* A server with a tool that needs an approval and one that does not.
ServerOf(attempts) ==
    [attempts |-> attempts, networks |-> {"host"},
     policies |-> [tool \in {"mcp.get", "mcp.send"} |->
                      Declare(tool, IF tool = "mcp.get" THEN "low" ELSE "high", {"read", "write"})]]

CallOf(tool, mode) ==
    [tool |-> tool, mode |-> mode, user |-> Owner, args |-> 1, resource |-> "account",
     networks |-> {}, oversize |-> FALSE]

Manifest(id, version, type, permissions, approval, steps) ==
    [id |-> id, version |-> version, type |-> type, tools |-> {"post"}, permissions |-> permissions,
     approval |-> approval, steps |-> steps, mcp |-> CallOf("none", "read"), wellFormed |-> TRUE]

\* Reads, then publishes; publishes twice; builtins that publish without the
\* permission and twice; and a pre-release of the first that only reads.
Announce == Manifest("announce", <<1, "">>, "declarative", {"read", "publish"}, "bound_publish",
                     <<CallOf("post", "read"), CallOf("post", "publish")>>)
Twice    == Manifest("twice", <<1, "">>, "declarative", {"publish"}, "bound_publish",
                     <<CallOf("post", "publish"), CallOf("post", "publish")>>)
Sneaky   == Manifest("sneaky", <<1, "">>, "builtin", {"read"}, "always",
                     <<CallOf("post", "read"), CallOf("post", "publish")>>)
Bold     == Manifest("bold", <<2, "">>, "builtin", {"read", "publish"}, "bound_publish",
                     <<CallOf("post", "publish"), CallOf("post", "publish")>>)
Shy      == [Bold EXCEPT !.version = <<1, "">>, !.permissions = {"read"}]
Peek     == Manifest("announce", <<1, "rc">>, "declarative", {"read"}, "policy",
                     <<CallOf("post", "read")>>)

RemoteSkill(id, tool, mode, nets, big) ==
    [Manifest(id, <<1, "">>, "mcp", {"read", mode}, "policy", <<>>) EXCEPT
        !.mcp = [CallOf(tool, "read") EXCEPT !.networks = nets, !.oversize = big]]

Fetch  == RemoteSkill("fetch", "mcp.get", "read", {"host"}, FALSE)
Bulk   == RemoteSkill("bulk", "mcp.get", "write", {}, TRUE)
Submit == RemoteSkill("submit", "mcp.send", "write", {}, FALSE)
Stray  == RemoteSkill("stray", "mcp.get", "read", {"elsewhere"}, FALSE)

\* Without a version.
Newest(added) == {[id |-> m.id, version |-> NoVersion] : m \in added}

Locally(added, number, failing) ==
    [manifests |-> added, tools |-> SomeTools, servers |-> {}, asked |-> {},
     asks |-> Newest(added) \cup {[id |-> Shy.id, version |-> Shy.version]},
     execs |-> number, faults |-> failing, close |-> FALSE]

Remotely(added, attempts, asking, number, failing, closing) ==
    [manifests |-> added, tools |-> {}, servers |-> {ServerOf(attempts)}, asked |-> asking,
     asks |-> Newest(added), execs |-> number, faults |-> failing, close |-> closing]

\* Approvals; a builtin that goes on after an error, and an older version of it;
\* one out of scope and a pre-release; a session that fails, or is closed by
\* Close, by Reset after a result over the limit, or under approved calls.
SomeScenarios ==
    {Locally({Announce, Twice}, 3, 0),
     Locally({Bold, Shy}, 2, 0),
     Locally({Announce, Sneaky, Peek}, 2, 1),
     Remotely({Fetch}, 2, {}, 3, 1, FALSE),
     Remotely({Fetch}, 2, {}, 2, 1, TRUE),
     Remotely({Bulk, Stray, Fetch}, 1, {}, 2, 0, FALSE),
     Remotely({Submit}, 2, {CallOfSkill(Submit)}, 3, 1, FALSE)}

AllCalls == {CallOf("post", mode) : mode \in {"read", "write", "publish"}}

CallLimits == [ModelSteps |-> 1, ToolCalls |-> 4, Tokens |-> 1, CostUSD |-> 1, Retries |-> 1]

CallerSymmetry == Permutations(Caller)
=============================================================================
