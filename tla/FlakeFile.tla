------------------------------- MODULE FlakeFile -------------------------------
(***************************************************************************)
(* What the two editors of flake.nix see of a file, and what they make of  *)
(* it: flakeedit's Apply, which wires conformist in, and flakeclobber's    *)
(* Clobber, which replaces elements of the development shell's list.  A    *)
(* flake is the sets of names it uses; its layout is left out.  Attribute  *)
(* paths and list elements are sequences of names: an element of one name  *)
(* is a bare identifier, and the empty replacement deletes.                *)
(***************************************************************************)
EXTENDS Sequences, FiniteSets, Bags

CONSTANT None

Tools == {"conformist", "just-us"}

\* conformistLetBindingsFor: the tool each binding reaches.
ToolOf ==
    [conformistPkg |-> "conformist", eval |-> "conformist",
     impureEval |-> "conformist", justPkg |-> "just-us"]
Bindings == DOMAIN ToolOf
LegacyBindings == Bindings \ {"justPkg"}

OutputAttrs ==
    {<<"formatter">>, <<"checks", "formatting">>, <<"devShells", "default">>}
      \cup ({"packages"} \X {"conformist-impure-config", "conformist-pre-commit",
                             "conformist-repair"})

DevShellPackages ==
    {<<"conformistPkg">>, <<"justPkg">>,
     <<"eval", "config", "build", "preCommit">>, <<"eval", "config", "build", "repair">>}

\* A flake none of whose names can be read: another shape, or a torn file.
Unrecognized ==
    [recognized |-> FALSE, utils |-> None, inputs |-> {}, args |-> {}, bound |-> {},
     ownEval |-> FALSE, attrs |-> {}, merged |-> {}, elements |-> None,
     wrapper |-> FALSE, overlay |-> FALSE]

IsFlake(f) ==
    /\ DOMAIN f = DOMAIN Unrecognized
    /\ f.recognized \in BOOLEAN /\ f.ownEval \in BOOLEAN
    /\ f.wrapper \in BOOLEAN /\ f.overlay \in BOOLEAN
    /\ f.elements # None => IsABag(f.elements)

MergeShadows(f, path) == path[1] \in f.merged

-----------------------------------------------------------------------------
(* flakeedit: the bindings and attributes the flake lacks *)

\* wiringFor: the repository that is a tool reaches it through self.
Via(name, tool) == IF name = tool THEN "self" ELSE tool

OwnBindings(f) == f.bound \cap Bindings

CanApply(f) ==
    /\ f.recognized
    /\ IF OwnBindings(f) = {} THEN ~f.ownEval ELSE LegacyBindings \subseteq f.bound

\* The head of a call that names no flake, a bare eachDefaultSystem.
HasBareHead(f) == f.recognized /\ f.utils = None

\* What the flake calls its flake-utils, "utils" when its head does not say.
UtilsName(f) == IF f.utils = None THEN "utils" ELSE f.utils

AddedInputs(f, name) ==
    (Tools \ {name})
      \cup (IF UtilsName(f) = "utils" /\ name # "conformist" THEN {"utils"} ELSE {})

AddedArgs(name) == {Via(name, t) : t \in Tools}

AddedAttrs(f) ==
    {a \in OutputAttrs : /\ ~MergeShadows(f, a)
                         /\ a \notin f.attrs
                         /\ <<a[1]>> \notin f.attrs}

WithPackages(f) ==
    IF f.elements # None /\ ~MergeShadows(f, <<"devShells", "default">>)
    THEN f.elements (+) SetToBag(DevShellPackages \ BagToSet(f.elements))
    ELSE IF <<"devShells", "default">> \in AddedAttrs(f) THEN SetToBag(DevShellPackages)
    ELSE f.elements

FormatterIsSet(f, force) ==
    <<"formatter">> \in AddedAttrs(f) \/ (force /\ <<"formatter">> \in f.attrs)

Apply(f, name, force) ==
    [f EXCEPT !.inputs = @ \cup AddedInputs(f, name),
              !.args = @ \cup AddedArgs(name),
              !.bound = @ \cup Bindings,
              !.attrs = @ \cup AddedAttrs(f),
              !.elements = WithPackages(f),
              !.wrapper = @ \/ FormatterIsSet(f, force)]

-----------------------------------------------------------------------------
(* flakeclobber: replace or delete elements of the list, all or none *)

IsPending(f, m) == BagIn(m.old, f.elements)
IsSatisfied(f, m) ==
    ~BagIn(m.old, f.elements) /\ (m.new = <<>> \/ BagIn(m.new, f.elements))
IsAmbiguous(f, m) == BagIn(m.old, f.elements) /\ BagIn(m.new, f.elements)

\* Mutant of IsBound: nothing is looked up.
IsBoundUnchecked(f, e) == TRUE

\* A dotted replacement is not looked up, nor is a deletion.
IsBound(f, e) == Len(e) = 1 => e[1] \in f.bound \cup f.args

HasList(f) ==
    /\ f.recognized
    /\ ~MergeShadows(f, <<"devShells", "default">>)
    /\ f.elements # None

PendingOf(f, ms) == {m \in ms : IsPending(f, m)}

CanClobber(f, ms) ==
    /\ HasList(f)
    /\ \A m \in ms : ~IsAmbiguous(f, m)
    /\ PendingOf(f, ms) # {} => \A m \in ms : ~IsSatisfied(f, m)
    /\ \A m \in PendingOf(f, ms) : f.elements[m.old] = 1 /\ IsBound(f, m.new)

Clobber(f, ms) ==
    LET ps == PendingOf(f, ms)
    IN  [f EXCEPT !.elements =
           (@ (-) SetToBag({m.old : m \in ps}))
              (+) SetToBag({m.new : m \in ps} \ {<<>>})]
===============================================================================
