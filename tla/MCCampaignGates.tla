--------------------------- MODULE MCCampaignGates ---------------------------
(***************************************************************************)
(* Instances of CampaignGates for TLC.                                     *)
(***************************************************************************)
EXTENDS CampaignGates, TLC

CONSTANTS c1, c2, s1, s2, p1, p2, f1, f2

OneCall == {c1}
TwoCalls == {c1, c2}
OneSession == {s1}
TwoSessions == {s1, s2}
OnePacket == {p1}
TwoPackets == {p1, p2}
WholePlan == {{p1, p2}}
NoPlans == {}
TwoPaths == {f1, f2}
NoPaths == {}
OnePath == {f1}
ReviewAndVerify == {"fresh-review", "verify"}
AllRoles == {"explore", "fresh-review", "verify"}
OnlyReview == {"fresh-review"}
OnlyVerify == {"verify"}
ExploreAndReview == {"explore", "fresh-review"}
BothModes == {"strict-start", "target"}
TargetMode == {"target"}
LocalReview == {"local-fresh-review"}
LocalVerify == {"local-verify"}
AnyReview == {"local-fresh-review", "central-owned"}
AnyVerify == {"local-verify", "trusted-actions"}
NoPublish == {}
CommitAndPush == {"commit", "push"}
OnlyCommit == {"commit"}
NoHeads == {}
ZeroHead == {0}
TwoHeads == {0, 1}

CallSymmetry == Permutations(Calls)
CallSessionSymmetry == Permutations(Calls) \cup Permutations(Sessions)
CallPacketSymmetry == Permutations(Calls) \cup Permutations(Packets)
=============================================================================
