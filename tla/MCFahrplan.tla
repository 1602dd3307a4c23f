----------------------------- MODULE MCFahrplan -----------------------------
EXTENDS Fahrplan, TLC

CONSTANTS low, high

Plan(mw) == [a \in Assets |-> [mw |-> mw, status |-> Draft]]
Plans == {Plan(mw) : mw \in MWs}

Unnamed == [a \in Assets |-> None]
\* A status for all, one asset with the default status, and both at once.
Changes ==
  {[status |-> st, intervals |-> Unnamed] : st \in Statuses \ {Draft}}
  \union {[status |-> st, intervals |-> [Unnamed EXCEPT ![a] = [mw |-> mw, status |-> Draft]]] :
            st \in {None} \union (Statuses \ {Draft}), a \in Assets, mw \in MWs}

Symmetry == Permutations(Workers) \union Permutations(Ids) \union Permutations(Assets) \union Permutations(MWs)
=============================================================================
