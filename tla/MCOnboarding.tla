--------------------------- MODULE MCOnboarding ----------------------------
(***************************************************************************)
(* A small instance for TLC: an area with code and one of prose.           *)
(***************************************************************************)
EXTENDS Onboarding

MCArea  == {"src", "docs"}
MCCoded == {"src"}

\* A program, the schema it reads and the README.
MCFile     == {"main", "schema", "readme"}
MCHome     == [f \in MCFile |-> IF f = "readme" THEN "docs" ELSE "src"]
MCImports  == {<<"main", "schema">>}
MCDeclares == [w \in {"recipe"} |-> {"main"}]
MCCites    == [c \in {"items", "constraints"} |->
                  IF c = "items" THEN {} ELSE {"main", "since_removed"}]

\* One area, for the run of every phase.
MCSmallFile     == {"main"}
MCSmallHome     == [f \in MCSmallFile |-> "src"]
MCSmallDeclares == [w \in {} |-> {}]

\* Two settings of onboarding_phases: the reading, and the judging after it.
MCReading == {"frame", "survey", "challenge"}
MCWhole   == {"frame", "orient", "reconcile", "define", "survey", "reorient",
              "boundaries", "challenge", "blindspots"}
=============================================================================
