--------------------------- MODULE MCActionsEvidence ---------------------------
(* Instances of ActionsEvidence: an ordinary head and one that changes the *)
(* trusted control files.                                                  *)
EXTENDS ActionsEvidence

CONSTANTS b1, b2, h1, h2, m1, m2

BasePair == {b1, b2}
OneBase == {b1}
HeadPair == {h1, h2}
MainPair == {m1, m2}
EachHead == {[base |-> b1, head |-> h, main |-> m1] : h \in HeadPair}
PlainHead == {[base |-> b1, head |-> h1, main |-> m1]}
SecondHead == {<<b1, h2>>}
=============================================================================
