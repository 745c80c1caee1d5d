---------------------------- MODULE MCBrokerSync ----------------------------
(* Small instances of BrokerSync for TLC.                                  *)
EXTENDS BrokerSync, TLC

\* Ids, process ids and bindings are only ever compared for equality.
Symmetry == Permutations(Ids) \cup Permutations(Pids) \cup Permutations(Bindings)

\* Liveness is checked without symmetry.  There ids are numbers, and an id that
\* comes into use is the least that is free: every other behaviour is one of
\* these with its ids renamed.
IdsInOrder == \A i \in FreeIds \ FreeIds', j \in FreeIds \cap FreeIds' : i < j

OrderedSpec == Init /\ [][Next /\ IdsInOrder]_vars /\ Fairness

\* What later steps depend on: no observer, a copy by its freshness alone (a fresh
\* one is the document), the import only while the connection may still be rebound.
LiveView ==
    <<IF edits < MaxEdits THEN doc ELSE <<doc.binding, doc.enabled>>,
      diskVars, lease, alive, callVars, fresh, edits, crashes>>
=============================================================================
