--------------------------- MODULE MCControlPlane ---------------------------
(***************************************************************************)
(* A small instance of ControlPlane: Gitea is not configured yet, the LLM, *)
(* one hub and the loop's settings come from the file; alice is a person's *)
(* account, bot a free name.                                               *)
(***************************************************************************)
EXTENDS ControlPlane, TLC

CONSTANTS r1, r2

MCFile ==
  [k \in Keys |-> CASE k = Backends -> "hubpass"
                    [] k = MaxIter  -> "20"
                    [] k = Stall    -> "3"
                    [] k = Hook     -> "hook"
                    [] k = AutoProvision     -> "false"
                    [] k = Providers -> "key0"
                    [] k = Gates     -> "soft"
                    [] k = Preset    -> "strict"
                    [] OTHER        -> Empty]

MCPayloads == {
  Url :> "u" @@ Providers :> "key1",
  Providers :> Mask @@ Secret :> Mask,
  Stall :> TooLarge,
  MaxIter :> "30" @@ Hook :> "hook2",
  Gates :> "off" @@ Preset :> "free",
  Gates :> Bad @@ Backends :> Mask,
  AutoProvision :> "true"
}

MCAnswers == {Url :> "u" @@ Secret :> Empty @@ Providers :> "key1"}

MCEnvironment == Url :> "u" @@ Providers :> "key2"

MCRemovable == {Backends, MaxIter, Secret, Providers, Gates, Preset}

MCSymmetry == Permutations(Requests) \cup Permutations(Jobs)
=============================================================================
