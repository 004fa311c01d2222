----------------------------- MODULE MCVaultWatch -----------------------------
(* Values for the constants of a vault that a cfg cannot write down.        *)
EXTENDS VaultWatch

CONSTANTS a, b, c, draft, ignored

\* Documents are numbered; a post carries the number of its document.
Numbers == 1..MaxDocs

\* What users may rename: nothing, a finished draft and documents among each
\* other, one document twice in a row, a document to a draft.
NoRenames == {}
Back == {<<a, b>>, <<b, a>>}
Twice == {<<a, b>>, <<b, c>>}
Finished == {<<draft, a>>, <<a, b>>, <<b, ignored>>, <<ignored, a>>}
ToDraft == {<<a, draft>>}

\* Every creation, modification and rename starts the quiet time again, recorded
\* or not (README.md:613-614): not so, the row a scan wrote keeps its deadline.
QuietRestarts ==
    [][ delivering = Nothing /\ delivering' # Nothing /\ delivering'[3] # NoDoc
        => changed[delivering'[1]] + Quiet <= now ]_vars
=============================================================================
