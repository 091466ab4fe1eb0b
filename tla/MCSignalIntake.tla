--------------------------- MODULE MCSignalIntake ---------------------------
(* Two catalysts of one A/B trade, and a DOL trade. *)
EXTENDS SignalIntake, TLC

ThreeKeys == "k1" :> "ab" @@ "k2" :> "ab" @@ "k3" :> "dol"
=============================================================================
