-------------------------- MODULE MCEasyShopTrade --------------------------
(* A small instance of EasyShopTrade for TLC: two tabs, of one user or of two, buy twice; or an *)
(* administrator changes a good while two tabs of one session buy once.                         *)
EXTENDS EasyShopTrade, TLC

CONSTANTS g1, g2

MCStock == g1 :> 1 @@ g2 :> 2
MCPrice == g1 :> 2 @@ g2 :> 1
MCLimits == {[trades |-> 2, edits |-> 0], [trades |-> 1, edits |-> 1]}

MCInit == /\ Init
          /\ limits.edits > 0 => /\ \A p, q \in Pages : sessionOf[p] = sessionOf[q]
                                 /\ \A s, t \in Sessions : userOf[s] = userOf[t]
MCSpec == MCInit /\ [][Next]_vars

Symmetry == Permutations(Pages) \union Permutations(Sessions) \union Permutations(Users)

=============================================================================
