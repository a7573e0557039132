------------------------------ MODULE Approvals ------------------------------
(* The approval gate and the token authority of kyvon-policy: requests that  *)
(* wait for a human and one-time tokens, both with a lifetime measured on    *)
(* the wall clock, which may be set forwards and backwards at any moment.    *)
(* Both are library objects behind a mutex: each operation is one step. The  *)
(* gateway owns one of each and calls neither (see Gateway), so the callers  *)
(* here are unconstrained.                                                   *)
EXTENDS Integers, Sequences, RiskTiers

CONSTANTS
    Requests,        \* request ids; each is drawn once (UUID v4)
    Tokens,          \* token ids; likewise
    Targets,         \* server ids a request or a token names
    Scopes,          \* scopes other than the wildcard
    MaxClock,        \* bound: the wall clock shows 0..MaxClock
    APPROVAL_TTL_MS, \* lifetime of a request, in ticks of that clock
    TokenTtl         \* ttl_seconds of the authority, in ticks; may be negative

ASSUME ApprovalsAssumption ==
    /\ MaxClock \in Nat
    /\ APPROVAL_TTL_MS \in Nat \ {0}
    /\ TokenTtl \in Int
    /\ "*" \notin Scopes

VARIABLES
    wall,       \* now_ms()
    pending,    \* ApprovalGate::pending, a map from ids to requests
    issuedTokens, \* TokenAuthority::tokens, a map from ids to tokens
    verdicts,   \* per request, what resolve_request answered, in order
    listed,     \* what a get_pending at this very instant listed
    unlisted,   \* requests that existed and that a get_pending did not list
    drawn,      \* request and token ids handed out so far
    accepted,   \* per token, how often verify_and_consume accepted it
    refused     \* tokens it refused

gateVars == <<pending, verdicts, listed, unlisted>>
tokenVars == <<issuedTokens, accepted, refused>>
approvalVars == <<wall, drawn, gateVars, tokenVars>>

Clock == 0..MaxClock

(* The catalogue, get_kyvon_mcp_tools, by is_read_only.                      *)
ReadOnlyTools ==
    {"kyvon_server_list", "kyvon_server_get", "kyvon_server_health",
     "kyvon_server_capacity", "kyvon_site_list", "kyvon_site_get",
     "kyvon_site_metrics", "kyvon_site_logs", "kyvon_diagnose_site",
     "kyvon_topology_get", "kyvon_incident_list", "kyvon_changes_list"}
WriteTools ==
    {"kyvon_reload_nginx", "kyvon_restart_service", "kyvon_restart_container",
     "kyvon_deploy", "kyvon_rollback"}

TargetEnv == {"staging", "production"}
Lenient == {"staging", "development", "dev", "test"}

(* ApprovalGate::assess_operation_risk: a missing or unknown environment is  *)
(* treated as production, an unknown tool as High.                           *)
AssessOperationRisk(tool, env) ==
    CASE tool \in ReadOnlyTools -> Safe
      [] tool = "kyvon_reload_nginx" -> Low
      [] tool \in {"kyvon_restart_service", "kyvon_deploy"} ->
            IF env \in Lenient THEN Medium ELSE High
      [] tool \in {"kyvon_drain_workload", "kyvon_drop_database",
                   "kyvon_flush_firewall"} -> Critical
      [] OTHER -> High

Tools == {"kyvon_deploy", "kyvon_drop_database"}

ApprovalStatus == {"approved", "rejected", "expired"}

Request == [server : Targets, tool : Tools, tier : RiskTier,
            second : BOOLEAN, backup : BOOLEAN, created : Clock]

EphemeralToken == [server : Targets, scope : Scopes \cup {"*"}, expires : Nat]

ApprovalsInit ==
    /\ wall \in Clock
    /\ pending = [r \in {} |-> 0]
    /\ issuedTokens = [t \in {} |-> 0]
    /\ verdicts = [r \in Requests |-> <<>>]
    /\ listed = {}
    /\ unlisted = {}
    /\ drawn = {}
    /\ accepted = [t \in Tokens |-> 0]
    /\ refused = {}

Without(map, id) == [x \in DOMAIN map \ {id} |-> map[x]]
With(map, id, v) == [x \in DOMAIN map \cup {id} |-> IF x = id THEN v ELSE map[x]]

-----------------------------------------------------------------------------
(* Time passes, or the clock is set: the operating system's business.        *)
SetClock ==
    /\ \E c \in Clock \ {wall} : wall' = c
    /\ listed' = {}
    /\ UNCHANGED <<drawn, pending, verdicts, unlisted, tokenVars>>

-----------------------------------------------------------------------------
(* create_request: the proposal carries its tier; a critical one needs a     *)
(* second confirmation, and it, databases and deployments a verified backup. *)
CreateRequest(r, s, tool, env) ==
    LET tier == AssessOperationRisk(tool, env)
    IN /\ r \notin drawn
       /\ drawn' = drawn \cup {r}
       /\ pending' = With(pending, r,
             [server |-> s, tool |-> tool, tier |-> tier,
              second |-> tier = Critical,
              backup |-> tier = Critical \/ tool \in {"kyvon_drop_database", "kyvon_deploy"},
              created |-> wall])
       /\ UNCHANGED <<wall, verdicts, listed, unlisted, tokenVars>>

(* (0..APPROVAL_TTL_MS).contains(&age): half open, and a request from the    *)
(* future is as expired as an old one.                                       *)
InTime(req) == wall - req.created \in 0..(APPROVAL_TTL_MS - 1)

Status(req, approve) ==
    IF ~InTime(req) THEN "expired" ELSE IF approve THEN "approved" ELSE "rejected"

(* resolve_request removes the request whatever the answer is going to be;   *)
(* an id that is not pending is answered with None and changes nothing.      *)
ResolveRequest(r, approve) ==
    /\ r \in DOMAIN pending
    /\ pending' = Without(pending, r)
    /\ verdicts' = [verdicts EXCEPT ![r] = Append(@, Status(pending[r], approve))]
    /\ UNCHANGED <<wall, drawn, listed, unlisted, tokenVars>>

Retained == {r \in DOMAIN pending : InTime(pending[r])}

(* A listing that filters and forgets to remove.                             *)
GetPending_Filters ==
    /\ listed' = Retained
    /\ unlisted' = unlisted \cup ((drawn \cap Requests) \ Retained)
    /\ UNCHANGED <<wall, drawn, pending, verdicts, tokenVars>>

(* get_pending drops what has expired before it lists the rest.              *)
GetPending ==
    /\ pending' = [r \in Retained |-> pending[r]]
    /\ listed' = Retained
    /\ unlisted' = unlisted \cup ((drawn \cap Requests) \ Retained)
    /\ UNCHANGED <<wall, drawn, verdicts, tokenVars>>

-----------------------------------------------------------------------------
(* issue_token: a negative time to live is none at all.                      *)
IssueToken(t, s, scope) ==
    /\ t \notin drawn
    /\ drawn' = drawn \cup {t}
    /\ issuedTokens' = With(issuedTokens, t,
          [server |-> s, scope |-> scope,
           expires |-> wall + (IF TokenTtl > 0 THEN TokenTtl ELSE 0)])
    /\ UNCHANGED <<wall, gateVars, accepted, refused>>

(* EphemeralToken::is_valid, and what the retain of verify_and_consume keeps.*)
Unexpired == {t \in DOMAIN issuedTokens : wall < issuedTokens[t].expires}

Matches(tok, s, scope) == tok.server = s /\ tok.scope \in {scope, "*"}

(* Only a token that was accepted is consumed, and nothing is pruned.        *)
VerifyAndConsume_KeepsRefused(t, s, scope) ==
    LET ok == t \in Unexpired /\ Matches(issuedTokens[t], s, scope)
    IN /\ issuedTokens' = IF ok THEN Without(issuedTokens, t) ELSE issuedTokens
       /\ accepted' = IF ok THEN [accepted EXCEPT ![t] = @ + 1] ELSE accepted
       /\ refused' = IF ok THEN refused ELSE refused \cup {t}
       /\ UNCHANGED <<wall, drawn, gateVars>>

(* verify_and_consume: prune, take the token out of the map, then look at    *)
(* it. A token that does not match is spent all the same.                    *)
VerifyAndConsume(t, s, scope) ==
    LET ok == t \in Unexpired /\ Matches(issuedTokens[t], s, scope)
    IN /\ issuedTokens' = [x \in Unexpired \ {t} |-> issuedTokens[x]]
       /\ accepted' = IF ok THEN [accepted EXCEPT ![t] = @ + 1] ELSE accepted
       /\ refused' = IF ok THEN refused ELSE refused \cup {t}
       /\ UNCHANGED <<wall, drawn, gateVars>>

(* An id that was never handed out is an error, after the same pruning.      *)
VerifyUnknown ==
    /\ issuedTokens' = [x \in Unexpired |-> issuedTokens[x]]
    /\ UNCHANGED <<wall, drawn, gateVars, accepted, refused>>

-----------------------------------------------------------------------------
GateNext ==
    \/ SetClock
    \/ \E r \in Requests, s \in Targets, tool \in Tools, env \in TargetEnv :
          CreateRequest(r, s, tool, env)
    \/ \E r \in Requests, approve \in BOOLEAN : ResolveRequest(r, approve)
    \/ GetPending

(* A token may be presented for any server and scope, any number of times.   *)
TokenNext ==
    \/ SetClock
    \/ \E t \in Tokens, s \in Targets, scope \in Scopes \cup {"*"} : IssueToken(t, s, scope)
    \/ \E t \in drawn \cap Tokens, s \in Targets, scope \in Scopes :
          VerifyAndConsume(t, s, scope)
    \/ VerifyUnknown

ApprovalsSpec == ApprovalsInit /\ [][GateNext \/ TokenNext]_approvalVars

-----------------------------------------------------------------------------
ApprovalsTypeOK ==
    /\ wall \in Clock
    /\ drawn \subseteq Requests \cup Tokens
    /\ DOMAIN pending \subseteq drawn \cap Requests
    /\ \A r \in DOMAIN pending : pending[r] \in Request
    /\ DOMAIN issuedTokens \subseteq drawn \cap Tokens
    /\ \A t \in DOMAIN issuedTokens : issuedTokens[t] \in EphemeralToken
    /\ verdicts \in [Requests -> Seq(ApprovalStatus)]
    /\ listed \subseteq drawn \cap Requests
    /\ unlisted \subseteq drawn \cap Requests
    /\ accepted \in [Tokens -> Nat]
    /\ refused \subseteq drawn \cap Tokens

(* A request gets one verdict. What a listing left out is never approved     *)
(* afterwards, wherever the clock is set, and what it showed is not expired  *)
(* in the same instant (approvals.rs: resolve_request and get_pending each   *)
(* judge the age by themselves).                                             *)
ListingsAreBinding ==
    [][\A r \in Requests : verdicts'[r] # verdicts[r] =>
          /\ verdicts[r] = <<>>
          /\ r \in unlisted => verdicts'[r] # <<"approved">>
          /\ r \in listed => verdicts'[r] # <<"expired">>]_approvalVars

(* A token is accepted at most once and never after it was refused: neither  *)
(* a wrong server or scope nor a clock set back makes it good again          *)
(* (tokens.rs verify_and_consume).                                           *)
RefusalIsFinal ==
    [][\A t \in Tokens : accepted'[t] # accepted[t] =>
          accepted[t] = 0 /\ t \notin refused]_approvalVars
=============================================================================
