----------------------------- MODULE MCFixSeries -----------------------------
(* Values for TLC: todo b depends on a, c on nothing.    *)
EXTENDS FixSeries

CONSTANTS a, b, c

Ids == {a, b, c}
Depends == [i \in Ids |-> IF i = b THEN {a} ELSE {}]
Plans == {<<a, b>>, <<b, a>>}

Op(op, ids) == [op |-> op, ids |-> ids]
UpdateLists ==
    { <<Op("replace_current", <<a>>)>>,
      <<Op("split_current", <<a, c>>)>>,
      <<Op("replace_current", <<a>>), Op("revise_pending", <<b>>)>>,
      <<Op("split_current", <<a, c>>), Op("remove_pending", <<b>>),
        Op("remove_pending", <<c>>), Op("append_after_current", <<b>>)>>,
      <<Op("remove_pending", <<a>>)>> }
FinalAppends == {<<c>>, <<a>>}
=============================================================================
