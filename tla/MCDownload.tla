------------------------------ MODULE MCDownload ------------------------------
EXTENDS DownloadInvariants, TLC

\* MaxConcurrent: one transfer at a time for every provider.
CapOne == [p \in Providers |-> 1]
CapUnlimited == [p \in Providers |-> 0]
Sym == Permutations(Ids)
=============================================================================
