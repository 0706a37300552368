------------------------------ MODULE MCPcanChar ------------------------------
(***************************************************************************)
(* PcanChar with messages of both formats, whose identifiers have bits in  *)
(* every register, and with a line that is out of range.                   *)
(***************************************************************************)
EXTENDS PcanChar

Standard == [ID |-> 1365, MSGTYPE |-> {}]
Extended == [ID |-> 357913941, MSGTYPE |-> {"EXTENDED"}]
MCMessages == {Extended}

MCLines == {[kind |-> "message", msg |-> Standard],
            [kind |-> "message", msg |-> [ID |-> 2049, MSGTYPE |-> {"RTR"}]],
            [kind |-> "comment", msg |-> Standard],
            [kind |-> "error", msg |-> Standard],
            [kind |-> "init", msg |-> Standard]}

MCFrames == {[id |-> 1365, flags |-> {"RTR"}], [id |-> 178956970, flags |-> {"EFF"}]}
===============================================================================
