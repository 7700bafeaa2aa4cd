------------------------------ MODULE MCInput -------------------------------
(* InputInjection on a keyboard of two keys with a pool of two slots. *)
EXTENDS InputInjection, TLC

MCLayout == 30 :> <<"a", "A">> @@ 29 :> <<"Control_L">>
MCModKeys == {29}
MCPoolCodes == <<183, 184>>
MCTexts == {<<k>> : k \in Unlisted}
MCDeltas == {-120, -80, -40, 0, 50, 90, 120, 250}

MCSymmetry == Permutations(Sessions) \cup Permutations(Unlisted)
=============================================================================
