-------------------------- MODULE PersistentStore --------------------------
(***************************************************************************)
(* What the tensor pool promises its users (comment of ModelState in       *)
(* csrc/runtime/state.hpp): a persistent tensor is pushed to the device    *)
(* the first time a program uses it, stays there until it is removed, and  *)
(* is pushed again on its next use.  Layouts, borrowed buffers, devices    *)
(* and the steps of a run are not visible here.                            *)
(***************************************************************************)
EXTENDS Naturals

CONSTANTS Names, Programs, UsedBy, Missing, NotRead

VARIABLES
    source,     \* the value in the host buffer of each tensor
    cache,      \* the value on the device, or Missing
    result      \* what the last run of each program read, or Missing

storeVars == <<source, cache, result>>

Init ==
    /\ source \in [Names -> Nat]
    /\ cache = [n \in Names |-> Missing]
    /\ result = [p \in Programs |-> Missing]

Current(n) == IF cache[n] = Missing THEN source[n] ELSE cache[n]

Filled(S) == [n \in Names |-> IF n \in S THEN Current(n) ELSE cache[n]]

\* A run reads what is on the device, pushing what is missing first.
Use(p) ==
    /\ cache' = Filled(UsedBy[p])
    /\ result' = [result EXCEPT ![p] =
            [n \in Names |-> IF n \in UsedBy[p] THEN Current(n) ELSE NotRead]]
    /\ UNCHANGED source

\* A run that fails may have pushed some of its inputs; it returns nothing.
FailedUse(p) ==
    /\ \E S \in SUBSET UsedBy[p] : cache' = Filled(S)
    /\ result' = [result EXCEPT ![p] = Missing]
    /\ UNCHANGED source

Write(n) ==
    /\ source' = [source EXCEPT ![n] = @ + 1]
    /\ UNCHANGED <<cache, result>>

WriteBack(n) ==
    /\ source' = [source EXCEPT ![n] = Current(n)]
    /\ UNCHANGED <<cache, result>>

Remove(S) ==
    /\ cache' = [n \in Names |-> IF n \in S THEN Missing ELSE cache[n]]
    /\ UNCHANGED <<source, result>>

\* The tensor becomes the update a program computed from what it read.
Replace(n, p) ==
    /\ result[p] # Missing
    /\ n \in UsedBy[p]
    /\ cache' = [cache EXCEPT ![n] = result[p][n] + 1]
    /\ UNCHANGED <<source, result>>

Next ==
    \/ \E p \in Programs : Use(p) \/ FailedUse(p)
    \/ \E n \in Names : Write(n) \/ WriteBack(n)
    \/ \E S \in SUBSET Names : Remove(S)
    \/ \E n \in Names, p \in Programs : Replace(n, p)

Spec == Init /\ [][Next]_storeVars
=============================================================================
