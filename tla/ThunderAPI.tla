------------------------------ MODULE ThunderAPI ------------------------------
(***************************************************************************)
(* External: Thunder's client enrollment service, as the daemon            *)
(* (driver.go), its CDI hook (clientconfig.go) and the operator            *)
(* (clients.go) use it.  An enrollment token is spent at most once, and    *)
(* the client it is exchanged for is an object of its own: revoking the    *)
(* token of a client that is already enrolled leaves the client alone.  A  *)
(* client is named here by the token it was exchanged for.                 *)
(***************************************************************************)
EXTENDS Deployment

VARIABLES token,          \* token[t]: the state of enrollment token t
          client          \* client[t]: the client t was exchanged for

thunderVars == <<token, client>>

TokenStates == {"none", "unspent", "spent", "revoked"}
ClientStates == {"none", "live", "revoked"}

ThunderTypeOK ==
    /\ token \in [Tokens -> TokenStates]
    /\ client \in [Tokens -> ClientStates]

ThunderInit ==
    /\ token = [t \in Tokens |-> "none"]
    /\ client = [t \in Tokens |-> "none"]

\* POST client enrollments: a fresh token, while the zone has capacity.
CreateClientEnrollment(t) ==
    /\ token[t] = "none"
    /\ token' = [token EXCEPT ![t] = "unspent"]
    /\ UNCHANGED client

NoCapacity == \A t \in Tokens : token[t] # "none"

\* Revoking a token twice, or one that is not found, is a success.
UnenrollClient(t) ==
    /\ token' = [token EXCEPT ![t] = "revoked"]
    /\ UNCHANGED client

RevokeThunderClient(t) ==
    /\ client' = [client EXCEPT ![t] = "revoked"]
    /\ UNCHANGED token

\* The exchange an unspent token allows; any other token is rejected.
ExchangeToken(t) ==
    /\ token[t] = "unspent"
    /\ token' = [token EXCEPT ![t] = "spent"]
    /\ client' = [client EXCEPT ![t] = "live"]
===============================================================================
