---------------------------- MODULE MCPrefixTree ----------------------------
(* The radix tree, with branches at three levels below one prompt and a    *)
(* second prompt, and the routing membership.  The two share nothing, so a *)
(* behaviour is one of either, while the other stays as it begins.         *)
EXTENDS RadixTree, RoutingMembership
CONSTANTS b1, b2, b3, b4, b5, b6, b7, b8, b9, b10
MCBlocks == {b1, b2, b3, b4, b5, b6, b7, b8, b9, b10}
MCParentOf ==
  [x \in MCBlocks |-> CASE x \in {b1, b7} -> Root [] x \in {b2, b5} -> b1
                        [] x \in {b3, b4} -> b2 [] x \in {b6, b9} -> b4
                        [] x = b8 -> b6 [] x = b10 -> b7]

MCInit == Init /\ MembershipInit

MCNext ==
  \/ live = {} /\ routed.ids = {} /\ snapshot = NoSnapshot /\ Next /\ UNCHANGED membershipVars
  \/ Held = {} /\ MembershipNext /\ UNCHANGED tree

MCSpec == MCInit /\ [][MCNext]_<<tree, membershipVars>>
=============================================================================
