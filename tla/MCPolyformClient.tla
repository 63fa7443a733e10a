-------------------------- MODULE MCPolyformClient --------------------------
(* One function, two compiled implementations, short version ranges, and the *)
(* responses a server, a proxy or a replay could produce from them.          *)
EXTENDS PolyformClient

CONSTANTS MaxList, MaxRevision

MCFunctions == {"f"}
MCInventory == [f \in {"f"} |-> {"a", "b"}]

Genuine ==
    [release : Releases, nonce : {"this"}, signer : {TRUE}, signature : {TRUE},
     client : {"me"}, listVersion : 1 .. MaxList, revision : 1 .. MaxRevision,
     implementations : [{"f"} -> {"a", "b"}],
     statuses : [{"a", "b"} -> StatusWords]]

Plain ==
    [release |-> 1, nonce |-> "this", signer |-> TRUE, signature |-> TRUE,
     client |-> "me", listVersion |-> 1, revision |-> 1,
     implementations |-> [f \in {"f"} |-> "a"],
     statuses |-> [i \in {"a", "b"} |-> "active"]]

\* One of each thing verify_assignment refuses whatever came before.
Refused ==
    { [Plain EXCEPT !.nonce = "other"], [Plain EXCEPT !.signer = FALSE],
      [Plain EXCEPT !.signature = FALSE], [Plain EXCEPT !.client = "you"],
      [Plain EXCEPT !.implementations = [f \in {"f"} |-> "x"]],
      [Plain EXCEPT !.implementations = [f \in {"f", "g"} |-> "a"]],
      [Plain EXCEPT !.statuses = [i \in {"a"} |-> "active"]],
      [Plain EXCEPT !.statuses = [i \in {"a", "b"} |-> "retired"]] }

MCAssignments == Genuine \cup Refused
=============================================================================
