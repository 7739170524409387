----------------------------- MODULE MCLifecycle -----------------------------
(* Instances of Lifecycle for TLC.                                         *)
EXTENDS Lifecycle, TLC

CONSTANTS tg, wa, sl

AllProviders == {tg, wa, sl}
AllKinds == (tg :> "telegram") @@ (wa :> "whatsapp") @@ (sl :> "slack")
AllLoad == (tg :> 2) @@ (wa :> 1) @@ (sl :> 2)

=============================================================================
