------------------------------ MODULE MCDelivery ------------------------------
(* One work branch beside the trunk; a valid configuration, a template, a     *)
(* malformed file and a second valid one in changing company.                *)
EXTENDS Delivery

CONSTANTS m1, m2, main, feat, vine, first, second_, gone

Config(s) == [kind |-> "config", project |-> vine, script |-> s]
Template  == [kind |-> "template", project |-> vine, script |-> gone]
Malformed == [kind |-> "malformed", project |-> vine, script |-> gone]

MCListings == {<<Template, Config(first), Malformed, Config(second_)>>, <<Config(gone), Malformed>>}

MCHosts == {[gh |-> TRUE, file |-> "none", env |-> "none", login |-> "good"],
            [gh |-> TRUE, file |-> "stale", env |-> "good", login |-> "good"],
            [gh |-> FALSE, file |-> "good", env |-> "none", login |-> "none"]}

=============================================================================
