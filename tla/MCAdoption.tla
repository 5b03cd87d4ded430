------------------------------ MODULE MCAdoption -------------------------------
(***************************************************************************)
(* Constants of the model-checking instances of Adoption: an application   *)
(* and the repository of just-us, with flakes of the shapes the editors    *)
(* tell apart.                                                             *)
(***************************************************************************)
EXTENDS Adoption, TLC

MCRepos == {"app", "just-us"}
MCRepoName == [r \in MCRepos |-> r]
MCOrigin == [r \in MCRepos |-> IF r = "app" THEN "forge" ELSE "canonical"]
MCPlain == <<"conformist.nix", "version.env">>

\* A flake nobody has wired yet, and the same with conformist's own wiring.
Just == <<"pkgs", "just">>
Go == <<"pkgs", "go">>
Unwired ==
    [recognized |-> TRUE, utils |-> "utils", inputs |-> {"nixpkgs", "utils"},
     args |-> {"self", "nixpkgs", "utils"}, bound |-> {"pkgs"}, ownEval |-> FALSE,
     attrs |-> {<<"devShells", "default">>, <<"formatter">>}, merged |-> {},
     elements |-> SetToBag({Just, Go}), wrapper |-> FALSE, overlay |-> FALSE]
MCGreenFlake ==
    [Apply([Unwired EXCEPT !.attrs = {}, !.elements = None], "app", FALSE)
        EXCEPT !.overlay = TRUE]

\* Wired by an older conformist; with an evalModule of its own; with its shell
\* redefined in a merge; with a tool named twice; with a head that an outer let
\* takes from flake-utils; in no known shape.
Outdated ==
    [Apply(Unwired, "app", TRUE) EXCEPT
       !.bound = @ \ {"justPkg"}, !.args = @ \ {"just-us"}, !.inputs = @ \ {"just-us"},
       !.elements = SetToBag({Just, <<"conformistPkg">>})]
OwnEval == [Unwired EXCEPT !.bound = {"pkgs", "goPkg", "appEval"}, !.ownEval = TRUE]
Merged == [Unwired EXCEPT !.merged = {"devShells"}]
Twice == [Unwired EXCEPT !.utils = "flake-utils", !.inputs = {"flake-utils"},
                         !.args = {"self", "flake-utils"}, !.attrs = @ \ {<<"formatter">>},
                         !.elements = @ (+) SetToBag({Just})]
Bare == [Unwired EXCEPT !.utils = None, !.inputs = {"nixpkgs", "flake-utils"},
                        !.args = {"self", "nixpkgs", "flake-utils"}]

ByUser(code) == File("user", {}, code)

\* The user writes a flake, an overlay with or without hosts, or a file that
\* mentions a template's placeholder.
MCUserFile(r, n) ==
    CASE r = "app" /\ n = Flake -> {ByUser(OwnEval)}
      [] r = "app" /\ n = Overlay -> {ByUser(HostsLine("managed", {"mirror"})),
                                      ByUser(HostsLine("by hand", {}))}
      [] r = "app" /\ n = "version.env" -> {File("user", {"EXAMPLE_VERSION"}, None)}
      [] OTHER -> {}

Nothing == [n \in Names |-> None]
With(flake) == [Nothing EXCEPT ![Flake] = ByUser(flake)]
Fleet(app, other) == [r \in MCRepos |-> IF r = "app" THEN app ELSE other]
MCInitialTrees ==
    {Fleet(Nothing, With(Unwired)), Fleet(With(Outdated), With(Twice)),
     Fleet([Nothing EXCEPT
               !["version.env"] = File("user", {"EXAMPLE_VERSION"}, None)], With(Merged)),
     Fleet(With(Unrecognized), Nothing), Fleet(With(Bare), Nothing)}

FromTemplate(tokens, code) == File("template", tokens, code)
MCTemplate ==
    [Nothing EXCEPT
       ![Flake] = FromTemplate({"EXAMPLE_NAME"}, MCGreenFlake),
       !["conformist.nix"] = FromTemplate({"EXAMPLE_VERSION"}, None),
       !["main.go"] = FromTemplate({"EXAMPLE_NAME", "import prefix"}, None),
       ![Overlay] = FromTemplate({}, PlainOverlay)]

LocalCommand(r, noEdit, force, hosts) ==
    [kind |-> "local", repo |-> r, noEdit |-> noEdit, force |-> force, hosts |-> hosts]
MCLocalCommands ==
    {LocalCommand("app", FALSE, FALSE, {}), LocalCommand("app", FALSE, TRUE, {"mirror"}),
     LocalCommand("app", TRUE, FALSE, {}), LocalCommand("just-us", FALSE, FALSE, {})}

BootstrapCommand(r, overwrite, noLock) ==
    [kind |-> "bootstrap", repo |-> r, overwrite |-> overwrite, noLock |-> noLock,
     hosts |-> {}]
MCBootstrapCommands ==
    {BootstrapCommand("app", FALSE, FALSE), BootstrapCommand("app", TRUE, FALSE),
     BootstrapCommand("just-us", TRUE, TRUE)}

Replace(old, new) == [old |-> old, new |-> new]
SweepCommand(migrations, apply) ==
    [kind |-> "sweep", repos |-> <<"app", "just-us">>, migrations |-> migrations,
     apply |-> apply]
MCSweepCommands ==
    {SweepCommand({Replace(Just, <<"justPkg">>)}, TRUE),
     SweepCommand({Replace(Just, <<>>)}, TRUE),
     SweepCommand({Replace(Just, <<"pkgs", "just-us">>), Replace(Go, <<"goPkg">>)}, TRUE),
     SweepCommand({Replace(Just, <<>>)}, FALSE)}
===============================================================================
