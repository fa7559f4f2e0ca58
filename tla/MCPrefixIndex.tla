--------------------------- MODULE MCPrefixIndex ----------------------------
(* Two prompts that share a prefix and part: b1 - b2, and b3 beside b2.    *)
EXTENDS PrefixIndex
CONSTANTS b1, b2, b3, r1, r2

TwigBlocks == {b1, b2, b3}
TwigParentOf == [b \in TwigBlocks |-> IF b = b1 THEN Root ELSE b1]
TwigPathOf == [b \in TwigBlocks |-> IF b = b1 THEN <<b1>> ELSE <<b1, b>>]
TwigRequests == {r1, r2}
TwigPromptOf == [r \in TwigRequests |-> IF r = r1 THEN b2 ELSE b3]
=============================================================================
