--------------------------- MODULE MCGovernedChange --------------------------
(***************************************************************************)
(* Instances of GovernedChange for TLC.                                    *)
(***************************************************************************)
EXTENDS GovernedChange, TLC

CONSTANTS Author  \* the user who drafted every plan

MCCreatedBy == [p \in Plans |-> Author]

\* Requests, runs, reconciliations, keys and users other than the author are
\* interchangeable.  Safety runs only.
MCSymmetry == UNION {Permutations(Handlers), Permutations(Runs),
                     Permutations(Reconcilers), Permutations(Users \ {Author}),
                     Permutations(Keys)}

\* Several plans of one author, under interchangeable keys and requests.
MCPlanSymmetry ==
    UNION {Permutations(Plans), Permutations(Keys), Permutations(Handlers)}
=============================================================================
