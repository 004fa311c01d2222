-------------------------- MODULE MCNotifierService --------------------------
(* Values for the constants of the service that a cfg cannot write down.    *)
EXTENDS NotifierService, TLC

\* One post id for each announcement the bounds allow.
Announcements == Vaults \X Paths \X (1..MaxBirths)

\* No renames, and every rename within a vault.
NoRenames == {}
AnyRename == {move \in Paths \X Paths : move[1] # move[2]}

\* Posting threads are interchangeable, and so are vaults.
SameThreads == Permutations(Threads)
SameThreadsAndVaults == Permutations(Threads) \cup Permutations(Vaults)
=============================================================================
