------------------------- MODULE MCArtifactProcessing -------------------------
(* ArtifactProcessing for TLC: a scanned contract and a viewing video.     *)
EXTENDS ArtifactProcessing, TLC

Contract == [key |-> 1, type |-> "contract.ocr", bytes |-> 1]
Video    == [key |-> 2, type |-> "evidence.video_frames", bytes |-> 1]

OnlyContract == {Contract}
OnlyVideo    == {Video}

Symmetry == Permutations(Artifacts) \cup Permutations(Jobs)
            \cup Permutations(Workers) \cup Permutations(Clients)
==============================================================================
