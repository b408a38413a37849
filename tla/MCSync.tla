-------------------------------- MODULE MCSync --------------------------------
(* Two connections, two mailboxes, one message with a statement, a credit  *)
(* report, an unreadable scan and a part with a name and no payload;       *)
(* interval and window are a day each, so both of their edges are met on   *)
(* the second day.  Requests name one connection, the loop visits both.    *)
EXTENDS Sync

CONSTANTS c1, c2, hdfc, icici, mail, statement, report, scan, stub, r1, u1

MCConns == {c1, c2}
MCBoxes == {hdfc, icici}
MCMessages == {mail}
MCBoxOf == [m \in MCMessages |-> hdfc]
MCDayOf == [m \in MCMessages |-> 0]
MCParts == [m \in MCMessages |-> {statement, report, scan, stub}]
MCKindOf ==
    [p \in {statement, report, scan, stub} |->
       CASE p = report -> "declined" [] p = scan -> "unreadable" [] p = stub -> "no payload"
         [] OTHER -> "statement"]
MCRequests == {r1}
MCSavers == {u1}
MCSaved == [c \in MCConns |-> IF c = c1 THEN icici ELSE hdfc]
MCBackfills == {[from |-> 0, to |-> 0]}
=============================================================================
