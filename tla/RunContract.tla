------------------------------ MODULE RunContract ------------------------------
(***************************************************************************)
(* What a repair-mode run promises, whatever its goroutines do: each file  *)
(* is skipped or accepted once, an accepted file is formatted or fails     *)
(* once, only formatted files get a cache entry, a run that concludes "ok" *)
(* leaves no accepted file unformatted or unrecorded, and a run that has   *)
(* concluded changes nothing any more.                                     *)
(***************************************************************************)
CONSTANTS
    Files,
    UseCache

VARIABLES
    fate,       \* fate[f]: how far file f has come
    entries,    \* files with a cache entry
    outcome     \* "none", "ok" or "error"

contractVars == <<fate, entries, outcome>>

Fates == {"unseen", "skipped", "accepted", "formatted", "failed"}

With(v) == {f \in Files : fate[f] = v}

Init ==
    /\ fate = [f \in Files |-> "unseen"]
    /\ entries = {}
    /\ outcome = "none"

\* The files of S, all of fate v, get fate u.
Move(S, v, u) ==
    /\ outcome = "none"
    /\ S \subseteq With(v)
    /\ fate' = [f \in Files |-> IF f \in S THEN u ELSE fate[f]]
    /\ UNCHANGED <<entries, outcome>>

Look == \E f \in Files, u \in {"skipped", "accepted"} : Move({f}, "unseen", u)

Settle == \E S \in SUBSET Files, u \in {"formatted", "failed"} : Move(S, "accepted", u)

Enter ==
    /\ outcome = "none"
    /\ \E S \in SUBSET With("formatted") : entries' = entries \cup S
    /\ UNCHANGED <<fate, outcome>>

Conclude ==
    /\ outcome = "none"
    /\ \/ outcome' = "error"
       \/ /\ outcome' = "ok"
          /\ With("accepted") \cup With("failed") = {}
          /\ UseCache => entries = With("formatted")
    /\ UNCHANGED <<fate, entries>>

Next == Look \/ Settle \/ Enter \/ Conclude

Spec == Init /\ [][Next]_contractVars
===============================================================================
