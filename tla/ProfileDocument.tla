--------------------------- MODULE ProfileDocument ---------------------------
(***************************************************************************)
(* A conformist profile (profile/document.go, signature.go, markl.go): the *)
(* artifacts, preludes and linters it declares, what makes it acceptable,  *)
(* who signed it, and the rule programs it puts together.  Names are       *)
(* numbers, in the order in which the code sorts them; a text is a         *)
(* sequence of chunks, and joining texts is concatenation.                 *)
(*   document: [lines, artifacts, preludes, linters]                       *)
(*   signed:   [body: a document, sigs: Seq([key, over: a document])]      *)
(***************************************************************************)
EXTENDS Naturals, FiniteSets, SequencesExt

CONSTANTS
    None,           \* a key that the TOML leaves out
    System,         \* the host's system
    Formats,        \* the digest formats this build can verify
    RuleTools,      \* the tools that can run a rule
    Digest(_, _)    \* Digest(format, text): no two texts share one

ASSUME DocumentAssumption == "sha256" \in Formats

Missing == [url |-> None, pin |-> None]
IsComplete(s) == s.url # None /\ s.pin # None

\* The build of an artifact for the host, if the profile has one.
SourceFor(a) ==
    IF DOMAIN a.system = {} THEN a.source
    ELSE IF System \in DOMAIN a.system THEN a.system[System]
    ELSE Missing

PinOf(d, n) == SourceFor(d.artifacts[n]).pin

\* ParseMarklID: a pin in any other purpose, format or length is refused.
IsPin(pin) == pin # None /\ pin.format \in Formats

Verifies(pin, text) == pin.format \in Formats /\ Digest(pin.format, text) = pin.digest

\* Every artifact has a build for the host, with a pin that can be verified.
IsResolvable(d) ==
    \A n \in DOMAIN d.artifacts :
        /\ IsComplete(SourceFor(d.artifacts[n]))
        /\ IsPin(PinOf(d, n))

Executables(d) == {n \in DOMAIN d.artifacts : d.artifacts[n].executable}

-------------------------------------------------------------------------------
(* Parse *)

\* One type line and nothing that delegates, locks or refers to a blob.
HasKnownLines(d) ==
    /\ d.lines \in Seq({"description", "type", "signature"})
    /\ Cardinality({i \in DOMAIN d.lines : d.lines[i] = "type"}) = 1

IsValidArtifact(a) ==
    /\ a.form = "static"
    /\ IF DOMAIN a.system = {}
       THEN IsComplete(a.source)
       ELSE a.source = Missing /\ \A s \in DOMAIN a.system : IsComplete(a.system[s])

\* requireDataArtifact
IsData(d, n) == n \in DOMAIN d.artifacts \ Executables(d)

HasRule(l) == l.rule # None \/ l.artifact # None

IsValidPrelude(d, p) ==
    /\ (p.rule = None) # (p.artifact = None)
    /\ p.tool \in RuleTools
    /\ p.artifact # None => IsData(d, p.artifact)

\* The rule file is the only argument of a rule's pipeline.
IsValidRule(d, l) ==
    /\ l.rule = None \/ l.artifact = None
    /\ l.tool \in RuleTools
    /\ ~l.passesFiles
    /\ l.options = <<>>
    /\ IsInjective(l.preludes)
    /\ \A i \in DOMAIN l.preludes :
          /\ l.preludes[i] \in DOMAIN d.preludes
          /\ d.preludes[l.preludes[i]].tool = l.tool
    /\ l.artifact # None => IsData(d, l.artifact)

IsValidLinter(d, l) ==
    /\ l.command # None
    /\ l.includes # {}
    /\ IF HasRule(l) THEN IsValidRule(d, l) ELSE l.tool = None /\ l.preludes = <<>>

IsValid(d) ==
    /\ HasKnownLines(d)
    /\ \A n \in DOMAIN d.artifacts : IsValidArtifact(d.artifacts[n])
    /\ \A n \in DOMAIN d.preludes : IsValidPrelude(d, d.preludes[n])
    /\ \A n \in DOMAIN d.linters : IsValidLinter(d, d.linters[n])

-------------------------------------------------------------------------------
(* Rules and signatures *)

\* What carries the parts of a linter's program: its preludes, then the rule.
Carriers(d, l) == Append([i \in DOMAIN l.preludes |-> d.preludes[l.preludes[i]]], l)

CarriedArtifacts(d, l) == {c.artifact : c \in ToSet(Carriers(d, l))} \ {None}

\* assembleProgram; texts are the contents of the artifacts.
Program(d, l, texts) ==
    LET parts == [i \in DOMAIN Carriers(d, l) |->
                    LET c == Carriers(d, l)[i]
                    IN  IF c.artifact = None THEN c.rule ELSE texts[c.artifact]]
    IN  FlattenSeq(parts)

\* VerifySignature: one signature, over what the document says now, by a key
\* that is trusted.
IsSignedBy(s, trusted) ==
    /\ Len(s.sigs) = 1
    /\ s.sigs[1].key \in trusted
    /\ s.sigs[1].over = s.body

Signer(s) == s.sigs[1].key
===============================================================================
