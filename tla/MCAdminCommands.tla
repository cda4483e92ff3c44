--------------------------- MODULE MCAdminCommands ---------------------------
(***************************************************************************)
(* Small instances of AdminCommands for TLC.                               *)
(***************************************************************************)
EXTENDS AdminCommands, TLC

CONSTANTS application, link, account, incident

Named(names, t) == [name : names, target : {t}]
Everything == {Named({"approve", "reject"}, application), Named({"remove"}, link),
               Named({"adjust"}, account), Named({"correct"}, incident), Named({"list"}, link)}
IncidentCommands == {Named({"correct", "cancel"}, incident)}

Kinds == application :> "request" @@ link :> "link" @@ account :> "account"
           @@ incident :> "incident"

\* The n-th request of every web process would get the same id.
Ids == [n \in 1..MaxServed |-> <<"req", n>>]
Random == [r \in Requests |-> <<"uuid", r>>]
AllOps == {<<"req", n>> : n \in 1..MaxServed} \cup {<<"uuid", r>> : r \in Requests}

=============================================================================
