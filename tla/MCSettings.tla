------------------------------- MODULE MCSettings -------------------------------
(***************************************************************************)
(* Settings with the numbers of a few texts: the defaults, a port, another *)
(* spelling of it, a number below the range and one above the ports.       *)
(***************************************************************************)
EXTENDS Settings

MCNumberOf ==
  [text \in {"1", "8080", "08080", "14142", "27182", "70000", "5242880"} |->
     CASE text = "1" -> 1
       [] text \in {"8080", "08080"} -> 8080
       [] text = "14142" -> 14142
       [] text = "27182" -> 27182
       [] text = "70000" -> 70000
       [] text = "5242880" -> 5242880]

MCDumpOf ==
  [number \in {1, 8080, 14142, 27182, 70000, 5242880} |->
     CHOOSE text \in DOMAIN MCNumberOf \ {"08080"} : MCNumberOf[text] = number]
===============================================================================
