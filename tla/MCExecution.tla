----------------------------- MODULE MCExecution -----------------------------
(* A registry with a retired row, deployments with an edited or an invalid pack   *)
(* and with other or no packs at the working directory, and a good request with   *)
(* each way it can be wrong.                                                      *)
EXTENDS Execution

PackFile(id, h, v) == [id |-> id, version |-> "1", hash |-> h, assets |-> {"plant"}, valid |-> v]
RootOf(h, v) == [s \in {"Financial", "Power", "Energy"} |-> PackFile(s, IF s = "Power" THEN h ELSE "good", v)]
RegistryRow(s, d, st) == [id |-> s, version |-> "1", domain |-> d, sector |-> s, packVersion |-> "1", hash |-> "good", status |-> st]
SmallRegistry == <<RegistryRow("Financial", "IT", "APPROVED"), RegistryRow("Power", "OT", "APPROVED"), RegistryRow("Energy", "OT", "RETIRED")>>
SmallDeployments == LET P == RootOf("good", TRUE) E == RootOf("edited", TRUE) B == RootOf("good", FALSE) IN
  {[package |-> P, cwd |-> P], [package |-> P, cwd |-> E], [package |-> E, cwd |-> E], [package |-> P, cwd |-> NoRoot], [package |-> B, cwd |-> B]}
SmallEnvironments == {[packages |-> Unset, sensitivity |-> Unset, backend |-> Unset], [packages |-> "1", sensitivity |-> "0", backend |-> "0"]}
GoodRequest == [path |-> "run", method |-> "POST", type |-> "application/json", body |-> "json", domain |-> "OT", sector |-> "Power", asset |-> "plant", optional |-> FALSE, runMatches |-> TRUE, canonical |-> TRUE, id |-> "Power", version |-> "1"]
SmallRequests ==
  {GoodRequest, [GoodRequest EXCEPT !.path = "health"], [GoodRequest EXCEPT !.path = "health", !.method = "GET"], [GoodRequest EXCEPT !.path = "other"], [GoodRequest EXCEPT !.method = "GET"], [GoodRequest EXCEPT !.type = "text"]}
  \cup {[GoodRequest EXCEPT !.body = b] : b \in {"undecodable", "empty", "large", "notJson", "oldSchema"}}
  \cup {[GoodRequest EXCEPT !.domain = d] : d \in {"IT", "XX"}}
  \cup {[GoodRequest EXCEPT !.optional = TRUE], [GoodRequest EXCEPT !.runMatches = FALSE], [GoodRequest EXCEPT !.canonical = FALSE], [GoodRequest EXCEPT !.asset = "office"], [GoodRequest EXCEPT !.version = "2"], [GoodRequest EXCEPT !.id = "XX"], [GoodRequest EXCEPT !.id = "Financial"]}
  \cup {[GoodRequest EXCEPT !.domain = "IT", !.sector = "Financial", !.id = "Financial"], [GoodRequest EXCEPT !.sector = "Energy", !.id = "Energy"], [GoodRequest EXCEPT !.sector = "Energy"]}
==============================================================================
