------------------------- MODULE MC_ChecklistSession --------------------------
(* Three EIPs, one of them with two directories and one only ever named by    *)
(* the tests of the others; a file whose second line overrides its first, and *)
(* one with a line that has no reason.                                        *)
EXTENDS ChecklistSession, TLC

MCEipOf == "prague/eip7702" :> 7702 @@ "osaka/eip7825" :> 7825 @@ "amsterdam/eip7825" :> 7825

Refunds == <<"gas_refunds_changes", "test", "exceptional_abort">>
Gas == <<"gas_cost_changes">>
Exact == <<"gas_cost_changes", "test", "gas_updates_measurement">>
Elsewhere == <<"gas_cost">>

MCNotApplicable == "prague/eip7702" :> <<[id |-> Gas, reason |-> "no new cost"],
                                         [id |-> Exact, reason |-> "measured elsewhere"],
                                         [id |-> Elsewhere, reason |-> "unknown"]>>
                   @@ "amsterdam/eip7825" :> <<[id |-> Gas, reason |-> ""]>>
MCExternal == "osaka/eip7825" :> <<[id |-> Refunds, reason |-> "clients"]>>

Mark(args, others) == [args |-> args, eips |-> others, ints |-> TRUE]
Test(node, dirs, marks) == [node |-> node, dirs |-> dirs, skipped |-> FALSE, marks |-> marks]

InDirectory == Test("refunds", <<"prague/eip7702">>, <<Mark(<<Refunds, Gas>>, {})>>)
Naming == Test("naming", <<"osaka/eip7825", "prague/eip7702">>,
               <<Mark(<<Refunds>>, {7702, 1559}), Mark(<<Elsewhere, Exact>>, {})>>)
Skipped == [Test("skipped", <<"amsterdam/eip7825">>, <<Mark(<<Gas>>, {1559})>>)
              EXCEPT !.skipped = TRUE]
Homeless == Test("homeless", <<>>, <<Mark(<<Exact>>, {7702})>>)
Unmarked == Test("unmarked", <<"prague/eip7702">>, <<Mark(<<>>, {})>>)

MCTests == {InDirectory, Naming, Skipped, Homeless, Unmarked}
MCCollections == SUBSET MCTests
MCWishes == {{}, {7702}, {7825, 1559}}

===============================================================================
