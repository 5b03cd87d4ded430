---------------------------- MODULE MCProfileCheck ----------------------------
(***************************************************************************)
(* Constants of the model-checking instances of ProfileCheck: a tool, a    *)
(* library of rule definitions, and the profiles that deliver them.        *)
(***************************************************************************)
EXTENDS ProfileCheck

CONSTANTS r1, r2, k1, k2, badKey

MCRuns == {r1, r2}
MCKeys == {k1, k2}

MCDigest(format, text) == <<format, text>>
Pin(text) == [format |-> "sha256", digest |-> MCDigest("sha256", text)]

\* Texts are served under an address of their own; that of the tool may still
\* have, or already has, the other version.
MCServes(url) == IF url = <<"tool1">> THEN {url, <<"tool2">>} ELSE {url}

At(text) == [url |-> text, pin |-> Pin(text)]
Artifact(src, executable) ==
    [form |-> "static", source |-> src, system |-> <<>>, executable |-> executable]
Linter(command) ==
    [command |-> command, options |-> <<>>, includes |-> {"x"}, passesFiles |-> TRUE,
     rule |-> None, artifact |-> None, tool |-> None, preludes |-> <<>>]
Rule(rule, artifact, preludes) ==
    [Linter("list") EXCEPT !.passesFiles = FALSE, !.tool = "jq",
                           !.rule = rule, !.artifact = artifact, !.preludes = preludes]
Prelude(n) == [tool |-> "jq", rule |-> None, artifact |-> n]

\* A tool, a library, a rule that uses it, and a linter that runs the tool.
Usual(tool, lib) ==
    [lines |-> <<"type">>,
     artifacts |-> <<Artifact(At(tool), TRUE), Artifact(At(lib), FALSE)>>,
     preludes |-> <<Prelude(2)>>,
     linters |-> <<Rule(<<"rule">>, None, <<1>>), Linter("tool")>>]

First == Usual(<<"tool1">>, <<"lib1">>)
NewTool == Usual(<<"tool2">>, <<"lib1">>)
NewLib == Usual(<<"tool1">>, <<"lib2">>)

\* The tool's text as data, built for each system, with a linter of the same
\* text; and as the rule.
PerSystem(system) ==
    [form |-> "static", source |-> Missing, executable |-> FALSE,
     system |-> [s \in {system} |-> At(<<"tool1">>)]]
AsData ==
    [lines |-> <<"description", "type">>, artifacts |-> <<PerSystem(System)>>,
     preludes |-> <<>>, linters |-> <<Rule(None, 1, <<>>), Linter("tool")>>]

\* Documents that are refused: a pin that cannot be verified, no build for the
\* host, a prelude whose artifact nobody declares.
BadPin == [First EXCEPT !.artifacts[2].source.pin.format = "unknown"]
NoArtifact == [First EXCEPT !.preludes[1].artifact = 3]

Sig(k, d) == [key |-> k, over |-> d]
By(k, d) == [body |-> d, sigs |-> <<Sig(k, d)>>]

MCOnDisk ==
    {By(k1, First), By(k1, NewTool), By(k1, AsData), By(k1, NoArtifact),
     By(k1, BadPin)}
\* Signed by the other key, and changed after it was signed.
MCOnline == {By(k2, NewLib), [body |-> NewTool, sigs |-> <<Sig(k1, First)>>]}
MCSigned == MCOnDisk \cup MCOnline

Flags(from, only, pinned, envFrom, envPinned) ==
    [from |-> from, only |-> only, pinned |-> pinned,
     envFrom |-> envFrom, envPinned |-> envPinned]
MCInvocations ==
    {Flags("file", FALSE, {}, "https", {k2}), Flags("file", TRUE, {k2}, None, {}),
     Flags(None, TRUE, {}, "https", {k1, k2}), Flags(None, FALSE, {k1}, "file", {})}

MCSymmetry == Permutations(MCRuns)
===============================================================================
