-------------------------- MODULE MCOllamaRunner --------------------------
(* Instances of the runner for TLC: what its clients ask for.              *)
EXTENDS OllamaRunnerProperties, TLC

CONSTANTS text, word, image   \* tokens

Completion(prompt, numKeep, numPredict) ==
  [prompt |-> prompt, numKeep |-> numKeep, numPredict |-> numPredict,
   cachePrompt |-> TRUE, embeddingOnly |-> FALSE]

Embedding(prompt) ==
  [Completion(prompt, 0, 0) EXCEPT !.cachePrompt = FALSE, !.embeddingOnly = TRUE]

(* Short and long prompts; the long one is cut to the context and fills it. *)
MixedJobs ==
  {Completion(<<text>>, 0, 2), Completion(<<text, image, image, text>>, 1, 2),
   Embedding(<<word, text>>)}

(* Prompts that agree in more than what a shift discards.                  *)
AlikeJobs == {Completion(<<text, word, text>>, 0, 2), Completion(<<text, word, word>>, 0, 2)}

Symmetry == Permutations(Requests)
=============================================================================
