------------------------------ MODULE MCCatalog ------------------------------
EXTENDS CatalogInvariants
CONSTANT a1

\* Two providers; one provider and the matcher; and one provider, a legacy row
\* and a restart.
ThreeSetups ==
  {[order |-> <<"deezer", "tidal">>, identity |-> {}, legacy |-> {}, left |-> 0],
   [order |-> <<"deezer">>, identity |-> {"deezer"}, legacy |-> {}, left |-> 0],
   [order |-> <<"deezer">>, identity |-> {}, legacy |-> {a1}, left |-> 1]}
=============================================================================
