--------------------------- MODULE MCRiskScoring ----------------------------
(* RiskScoring on both sides of every boundary of its rules. *)
EXTENDS RiskScoring

MCAmounts ==
  {1, 500 * Unit} \cup (Threshold - 600 .. Threshold - 594)
  \cup (Threshold - 11 .. Threshold + 1) \cup {20000 * Unit}
MCCountries == {"absent", "", "US", "us", "IR", "iR", "ru", "RU", "ABSENT"}
MCUpper ==
  [c \in MCCountries |->
     CASE c = "iR" -> "IR" [] c = "ru" -> "RU" [] c = "us" -> "US" [] c = "absent" -> "ABSENT"
       [] OTHER -> c]
MCCategories == {"absent", "", "5411", "5967", "4829"}
MCHours == {0, 5, 6, 23}
=============================================================================
