------------------------- MODULE MCSpellbookCommand -------------------------
(***************************************************************************)
(* Two features whose class names collide, in a monorepo with one feature. *)
(* No run names its table with --table; MCDryOptions are those of a dry    *)
(* run with its screen.                                                    *)
(***************************************************************************)
EXTENDS SpellbookCommand

MCFeatures == {"a-1", "a1"}
MCClassOf == [f \in MCFeatures |-> "A1"]
MCTableOf == [f \in MCFeatures |-> IF f = "a-1" THEN "a_1" ELSE "a1"]
MCUpperCase == [t \in {"a_1", "a1"} |-> IF t = "a_1" THEN "A_1" ELSE "A1"]
MCTables == {}
MCNames == {"title"}
MCColumnTypes == <<"text", "timestamp">>

Flags(on) == [flag \in FlagNames |-> flag \in on]

MCOptions == {Flags({"withAll", "noTui"}), Flags({"withTest", "skipIndex"}), Flags({"dryRun", "noTui"})}

MCDryOptions == {Flags({"dryRun"})}

MCExisting ==
  [dirs |-> {<<"test">>, <<"resolvers">>}, files |-> [p \in {} |-> 0],
   exports |-> << [class |-> "Library", feature |-> "library"] >>, routes |-> <<"library">>,
   bindings |-> << [name |-> "LIBRARY", class |-> "Library"] >>,
   migrations |-> << [tag |-> 1, class |-> "Library"] >>,
   dependencies |-> {"library"}, resolvers |-> <<"Library">>]
=============================================================================
