------------------------------ MODULE MCAfCan ------------------------------
(* Sets of filters and frames for the model checker.                       *)
EXTENDS AfCan

\* An SFF and an EFF frame that agree on the bits of an SFF identifier,
\* another SFF frame and two remote frames.
SomeFrames == {{"x"}, {EFF, "x"}, {"y"}, {RTR, "x"}, {EFF, RTR, "x"}}

\* A filter for each kind of list: one SFF identifier (with a bit that is not
\* compared), all but one, and an EFF identifier under a full mask.
OneSff == [id |-> {"x", "y"}, mask |-> {"x"}, inv |-> FALSE]
NotOne == [id |-> {"x"}, mask |-> {"x"}, inv |-> TRUE]
OneEff == [id |-> {EFF, "x"}, mask |-> {EFF, RTR, "x", "y"}, inv |-> FALSE]

\* None, one, two that want the same frame, and one twice.
SomeFilterSets == {<<>>, <<OneEff>>, <<OneSff, NotOne>>, <<OneSff, OneSff>>}
=============================================================================
