----------------------------- MODULE MCDelivery -----------------------------
(* Instances of Delivery for TLC. *)
EXTENDS Delivery, TLC

CONSTANTS dev, prod, devWf, prodWf

OneEnv == (devWf :> dev)
TwoEnvs == (devWf :> dev @@ prodWf :> prod)

ListOne == <<dev>>
ListTwo == <<dev, prod>>

HandlerSymmetry == Permutations(Handlers)

=============================================================================
