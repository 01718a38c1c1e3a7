--------------------------- MODULE MCTriggerParsing ---------------------------
(* Requests of two triggers out of the ones that the code tells apart. *)
EXTENDS TriggerParsing, TLC

Symmetry == Permutations(Slots)

Plain == [parents |-> TRUE, types |-> {"is_true"}, options |-> "none",
          fire_initial |-> FALSE, initialize |-> FALSE]
Edge == [Plain EXCEPT !.types = {"rising_edge"}, !.initialize = TRUE]

MCConditionals ==
  {Plain, Edge,
   [Edge EXCEPT !.types = {"all_changes", "is_false"}],
   [Edge EXCEPT !.types = {"falling_edge"}, !.fire_initial = TRUE],
   [Edge EXCEPT !.options = "negative"],
   [Plain EXCEPT !.types = {}],
   [Plain EXCEPT !.parents = FALSE]}

Of(n, conditional, data, periodic) ==
  [name |-> n, conditional |-> conditional, data |-> data, periodic |-> periodic]

MCTriggers ==
  {Of("a", <<c>>, << >>, << >>) : c \in MCConditionals}
    \cup {Of("b", <<Edge>>, << >>, << >>), Of(NoName, <<Plain>>, << >>, << >>),
          Of("b", << >>, <<[publisher |-> FALSE, source |-> TRUE]>>, << >>),
          Of("a", << >>, <<[publisher |-> TRUE, source |-> TRUE]>>, << >>),
          Of("b", << >>, << >>, <<[period |-> 1, count |-> "zero"]>>),
          Of("a", << >>, << >>, << >>)}

MCMultiple ==
  {Of("a", <<Edge>>, <<[publisher |-> FALSE, source |-> TRUE]>>, << >>)}

MCPayloads ==
  {<<t, u>> : t, u \in MCTriggers}
    \cup {<<t, m>> : t \in {Of("b", <<Edge>>, << >>, << >>)}, m \in MCMultiple}
    \cup {<<m, t>> : t \in {Of("a", <<Edge>>, << >>, << >>)}, m \in MCMultiple}
=============================================================================
