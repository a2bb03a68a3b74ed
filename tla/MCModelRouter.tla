--------------------------- MODULE MCModelRouter ---------------------------
(* Three models, the first of which heads the chain. *)
EXTENDS ModelRouter

CONSTANTS glm, gptOss, qwen

ThreeModels == {glm, gptOss, qwen}
InOrder == <<glm, gptOss, qwen>>
=============================================================================
