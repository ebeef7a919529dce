----------------------------- MODULE MCBbsHome -----------------------------
(***************************************************************************)
(* Ann at home, who has written a comment that Bob has answered, Bob at    *)
(* home, and a visitor.  Either Ann does much, or she and Bob something    *)
(* each, or she opens her page again, or the visitor does much.            *)
(***************************************************************************)
EXTENDS BbsHome

CONSTANTS Ann, Bob, Visitor

MCMembers == <<"ann", "bob">>
MCTable   == <<[user |-> 1, parent |-> 0, deleted |-> FALSE, text |-> "long", period |-> 0, why |-> {}],
               [user |-> 2, parent |-> 1, deleted |-> FALSE, text |-> "whole", period |-> 0, why |-> {}]>>
MCHome    == [p \in {Ann, Bob} |-> IF p = Ann THEN 1 ELSE 2]
Budget(ann, bob, visitor) ==
    [p \in Pages |-> LET x == CASE p = Ann -> ann [] p = Bob -> bob [] p = Visitor -> visitor
                     IN  [clicks |-> x[1], keys |-> x[2], visits |-> x[3]]]
MCBudgets == {Budget(<<2, 0, 0>>, <<0, 0, 0>>, <<0, 0, 0>>),
              Budget(<<1, 4, 0>>, <<0, 0, 0>>, <<0, 0, 0>>),
              Budget(<<1, 2, 0>>, <<1, 0, 0>>, <<0, 0, 0>>),
              Budget(<<1, 0, 1>>, <<0, 0, 0>>, <<0, 0, 0>>),
              Budget(<<0, 0, 0>>, <<0, 0, 0>>, <<3, 0, 0>>)}

MCLimits  == [periods : {1, 2}, faults : {0, 1}]

\* Time stands still where Ann writes a reply; the database fails where little is asked of it.
MCInit == /\ Init
          /\ limits.periods = 1 <=> budget[Ann].keys > 0
          /\ limits.faults = 0 <=> budget[Ann].clicks + budget[Ann].keys > 1
MCSpec == MCInit /\ [][Next]_vars
=============================================================================
