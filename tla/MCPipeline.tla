----------------------------- MODULE MCPipeline -----------------------------
(* Constants for checking Pipeline with TLC.                               *)
EXTENDS Pipeline, TLC

\* Two images and two configurations.
MCReleases == [image : {"i", "j"}, config : {"a", "b"}]
MCFirst == [image |-> "i", config |-> "a"]
MCSymmetry == Permutations(Machines)
=============================================================================
