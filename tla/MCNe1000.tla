------------------------------- MODULE MCNe1000 -------------------------------
(* Instance of Ne1000: a ring of four pages, frames of one and of two       *)
(* pages, a damaged one and one for another station.                        *)
EXTENDS Ne1000

MCFrame(pages, good, mine) == [pages |-> pages, good |-> good, mine |-> mine]
MCFrames ==
  {MCFrame(1, TRUE, TRUE), MCFrame(2, TRUE, TRUE), MCFrame(2, FALSE, TRUE),
   MCFrame(1, TRUE, FALSE)}
=============================================================================
