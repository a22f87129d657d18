----------------------------- MODULE Questions ------------------------------
(***************************************************************************)
(* Sequential code run on every small input: a behaviour picks a question  *)
(* and an input, and answers it.                                           *)
(***************************************************************************)
VARIABLES question, input, answered, output
vars == <<question, input, answered, output>>

Ask(about, inputs) == question = about /\ input \in inputs

Answer(about, result) ==
    /\ question = about
    /\ ~ answered
    /\ answered' = TRUE
    /\ output' = result
    /\ UNCHANGED <<question, input>>

Answered(about) == answered /\ question = about

=============================================================================
