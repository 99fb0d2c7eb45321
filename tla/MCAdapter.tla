------------------------------ MODULE MCAdapter ------------------------------
(* Adapter for TLC: a path in scope, one a human may add to the scope, one *)
(* that is allowed and reserved, and a build product that git ignores.     *)
EXTENDS Adapter

CONSTANTS p1, g1, g2,
          code, extra, config, build,   \* paths
          inside, added, guarded        \* globs

AdapterCommands == {"run", "recover", "approve", "integrate"}
InsideRun == {"work", "commit", "decide", "finish"}
Nowhere == {}

GlobMatches == {<<code, inside>>, <<config, inside>>,
                <<extra, added>>, <<config, guarded>>}
=============================================================================
