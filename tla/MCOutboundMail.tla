--------------------------- MODULE MCOutboundMail ---------------------------
(* Instances of OutboundMail for TLC: the settings change while mail is     *)
(* sent, and whatever can fail does while they stay.                        *)
EXTENDS OutboundMail

VARIABLE instance

mcvars == <<vars, instance>>

Server(host, password) == [host |-> host, password |-> password]
MCEnvUrl == Server("a", "secret of a")
MCBadEnvUrl == Server("none", None)
\* One URL an administrator types is of another server, one is no URL.
MCTypedUrl == {Server("b", "secret of b"), Server("none", None)}
MCTypedFrom == {"b@tavi"}
MCEnvFrom == "a@tavi"
\* No row, and the rows of installations without and with a URL of their own.
MCStoredBefore ==
  {None} \cup {[enabled |-> FALSE, smtpUrl |-> url, fromAddress |-> None] :
                 url \in {None, Server("b", "secret of b")}}

\* An instance has administrators who save, or failures while the API sends,
\* or failures while the worker delivers.
MCInit == Init /\ instance \in {"settings", "API", "worker"}
MCNext ==
  /\ Next
  /\ instance = "settings" =>
       /\ mishaps' = {} /\ \A n \in Notice : notice'[n] # None
       /\ \A x \in Mail \cup Notice : Len(log'[x]) >= Len(log[x])
  /\ instance = "API" => saves' = 0 /\ worker'.at = "idle"
  /\ instance = "worker" => saves' = 0 /\ \A m \in Mail : mail'[m] = NewMail
  /\ UNCHANGED instance
MCSpec == MCInit /\ [][MCNext]_mcvars
=============================================================================
