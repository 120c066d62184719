--------------------------- MODULE MCInstallations ---------------------------
(***************************************************************************)
(* Instances of Installations: "move" relocates a tree from s to d,        *)
(* "write" writes both paths on their own, "patch" writes s.               *)
(***************************************************************************)
EXTENDS Installations

MCUnits == [i \in Installs |->
    CASE i = "move" -> << <<"s", "d">> >>
      [] i = "write" -> << <<"s">>, <<"d">> >>
      [] OTHER -> << <<"s">> >>]

MCOutput == [i \in Installs |->
    CASE i = "move" -> [s |-> Absent, d |-> "tree"]
      [] i = "write" -> [s |-> "file", d |-> "tree"]
      [] OTHER -> [s |-> "other"]]
=============================================================================
