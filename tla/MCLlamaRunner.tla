--------------------------- MODULE MCLlamaRunner ----------------------------
EXTENDS LlamaRunnerProperties

(* Prompts that share a prefix, extend one another, and fill the context.  *)
MCPrompts == {<<"a", "b", "a">>, <<"a", "b">>}
=============================================================================
