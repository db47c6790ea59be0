--------------------------- MODULE MCPostPipeline ----------------------------
(* Values for the constants of PostPipeline that a .cfg cannot write.      *)
EXTENDS PostPipeline

MCTextRank == [p \in Posts |-> p]
==============================================================================
