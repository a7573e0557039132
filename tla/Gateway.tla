------------------------------- MODULE Gateway -------------------------------
(* The MCP gateway: one message at a time from standard input, answered from  *)
(* the store the desktop writes at the same time. A message is abstracted to  *)
(* what the envelope rules and the tool schemas look at. The gateway owns a   *)
(* token authority and an approval gate and calls neither.                    *)
EXTENDS Metrics, Approvals

CONSTANTS
    STALE_AFTER_MS,  \* in ticks of the wall clock
    TagsOf,          \* the tags of each server's profile
    Messages         \* the messages a client sends

ASSUME GatewayAssumption ==
    /\ STALE_AFTER_MS \in Nat
    /\ DOMAIN TagsOf = Servers

VARIABLES
    role,      \* McpRole the handler was built with
    attached,  \* whether a backend is
    inflight,  \* the health call between its read and the look at the clock
    exchange   \* the last message and the reply to it

gatewayVars == <<role, attached, inflight, exchange>>

McpRole == {"observer", "developer", "operator", "administrator"}
CanWrite(r) == r # "observer"
CanDeployProduction(r) == r \in {"operator", "administrator"}

(* A text that is absent, or that says nothing.                              *)
NoText == ""

(* What is looked at in a JSON document: whether it parses, is an object and *)
(* says "2.0"; its method (NoText unless a string); whether its id           *)
(* is absent, a scalar or structured and its params absent, an object or     *)
(* something else; and for a tool call the name and the arguments, a map     *)
(* from names to typed values.                                               *)
MessageFields == {"json", "object", "version", "method", "id", "params", "tool", "args"}

ASSUME MessagesAssumption ==
    \A m \in Messages :
        /\ DOMAIN m = MessageFields
        /\ m.id \in {"absent", "scalar", "structured"}
        /\ m.params \in {"absent", "object", "other"}

Silent == [kind |-> "silent"]
Error(code) == [kind |-> "error", code |-> code]
Result(r) == [kind |-> "result", body |-> r]
ToolError(why) == [kind |-> "tool", ok |-> FALSE, why |-> why]
ToolOk(body) == [kind |-> "tool", ok |-> TRUE, body |-> body]

Nothing == [msg |-> [method |-> NoText], reply |-> Silent]
NoCall == [server |-> NoText, found |-> {}, stored |-> {}, ever |-> {}, known |-> FALSE]

(* main: database_path names a file, or a place to create one, and the store *)
(* opens; or the gateway runs without. It is built for an observer; the      *)
(* library takes any role.                                                   *)
GatewayInit ==
    /\ role \in McpRole
    /\ attached \in BOOLEAN
    /\ inflight = NoCall
    /\ exchange = Nothing

-----------------------------------------------------------------------------
(* Dropping every message that has no id.                                    *)
IsNotification_NoId(m) == m.json /\ m.object /\ m.id = "absent"

(* handle_message: a well-formed message without an id is not answered.      *)
IsNotification(m) ==
    /\ m.json /\ m.object /\ m.version /\ m.method # NoText
    /\ m.id = "absent" /\ m.params # "other"

(* The part of handle_rpc before the method is looked at; 0 is no error.     *)
EnvelopeError(m) ==
    IF ~m.json THEN -32700
    ELSE IF ~(m.object /\ m.version /\ m.method # NoText /\ m.id = "scalar") THEN -32600
    ELSE IF m.params = "other" THEN -32602 ELSE 0

(* tools/list: a role that cannot write is shown the read-only tools.        *)
Listed(r) == IF CanWrite(r) THEN ReadOnlyTools \cup WriteTools ELSE ReadOnlyTools

Required(tool) ==
    CASE tool = "kyvon_server_list" -> {}
      [] tool \in {"kyvon_site_get", "kyvon_site_metrics", "kyvon_site_logs",
                   "kyvon_diagnose_site"} -> {"server_id", "domain"}
      [] tool = "kyvon_restart_service" -> {"server_id", "service_name"}
      [] tool = "kyvon_restart_container" -> {"server_id", "container_id"}
      [] tool = "kyvon_deploy" -> {"server_id", "application", "version"}
      [] tool = "kyvon_rollback" -> {"server_id", "application"}
      [] OTHER -> {"server_id"}

Optional(tool) ==
    CASE tool = "kyvon_server_list" -> {"tag"}
      [] tool = "kyvon_site_logs" -> {"lines"}
      [] tool = "kyvon_changes_list" -> {"timeframe"}
      [] tool = "kyvon_deploy" -> {"environment"}
      [] OTHER -> {}

(* An argument is [type, v]; v is NoText for a string that is blank,         *)
(* oversized or has control characters. `lines` is the only integer.         *)
ValidArgument(name, a) ==
    IF name = "lines" THEN a.type = "integer" /\ a.v \in 1..1000
    ELSE a.type = "string" /\ a.v # NoText

(* validate_arguments *)
ValidArguments(tool, args) ==
    /\ Required(tool) \subseteq DOMAIN args
    /\ \A name \in DOMAIN args :
          name \in Required(tool) \cup Optional(tool) /\ ValidArgument(name, args[name])

(* The guards of dispatch_tool_call, in order; a write tool gets past none   *)
(* of them to the backend, whatever the role.                                *)
Refusal(m) ==
    IF m.tool \notin ReadOnlyTools \cup WriteTools THEN "unknown_tool"
    ELSE IF ~ValidArguments(m.tool, m.args) THEN "arguments"
    ELSE IF m.tool \in WriteTools /\ ~CanWrite(role) THEN "permission"
    ELSE IF m.tool \in WriteTools /\ ~CanDeployProduction(role) THEN "scope"
    ELSE IF m.tool \in WriteTools THEN "no_bridge"
    ELSE IF ~attached THEN "no_backend" ELSE NoText

(* The backend: ServerRepo::list and ServerRepo::get.                        *)
ListServers == live
GetServer(id) == {id} \cap live

(* kyvon_server_list with its tag filter, kyvon_server_get, and the tools    *)
(* this backend does not expose. A store that cannot be read is an error.    *)
ToolAnswer(m, fails) ==
    CASE Refusal(m) # NoText -> ToolError(Refusal(m))
      [] Refusal(m) = NoText /\ m.tool \in {"kyvon_server_list", "kyvon_server_get",
                                       "kyvon_server_health"} /\ fails -> ToolError("read")
      [] Refusal(m) = NoText /\ m.tool = "kyvon_server_list" /\ ~fails ->
            ToolOk(IF "tag" \in DOMAIN m.args
                   THEN {s \in ListServers : m.args["tag"].v \in TagsOf[s]} ELSE ListServers)
      [] Refusal(m) = NoText /\ m.tool = "kyvon_server_get" /\ ~fails ->
            ToolOk(GetServer(m.args["server_id"].v))
      [] OTHER -> ToolError("not_exposed")

(* handle_rpc: initialize, the empty lists and ping answer with a constant.  *)
Reply(m, fails) ==
    IF IsNotification(m) THEN Silent
    ELSE IF EnvelopeError(m) # 0 THEN Error(EnvelopeError(m))
    ELSE CASE m.method = "tools/list" -> Result(Listed(role))
           [] m.method = "tools/call" -> ToolAnswer(m, fails)
           [] m.method \in {"initialize", "resources/list", "prompts/list", "ping"} -> Result({})
           [] OTHER -> Error(-32601)

IsHealthCall(m) ==
    /\ ~IsNotification(m) /\ EnvelopeError(m) = 0
    /\ m.method = "tools/call" /\ m.tool = "kyvon_server_health"
    /\ Refusal(m) = NoText

(* handle_message, for everything but a health call whose read succeeds.     *)
Handle(m, fails) ==
    /\ inflight = NoCall
    /\ IsHealthCall(m) => fails
    /\ exchange' = [msg |-> m, reply |-> Reply(m, fails)]
    /\ UNCHANGED <<role, attached, inflight>>

(* kyvon_server_health reads the store (what else was true at that moment is *)
(* remembered for HealthIsHonest)...                                         *)
ReadHealth(m) ==
    /\ inflight = NoCall
    /\ IsHealthCall(m)
    /\ LET s == m.args["server_id"].v
       IN inflight' = [server |-> s, found |-> LatestPerMetric(s),
                       stored |-> {k \in DOMAIN samples : k.server = s},
                       ever |-> {x[1] : x \in {y \in recorded : y[1].server = s}} \ pruned,
                       known |-> s \in live]
    /\ exchange' = [msg |-> m, reply |-> Silent]
    /\ UNCHANGED <<role, attached>>

(* The oldest reading decides.                                               *)
Newest_Oldest(readings) == Min({k.ts : k \in readings})

Newest(readings) == Max({k.ts : k \in readings})

(* ... and then the clock: age_ms is negative for a host whose clock is      *)
(* ahead, and not stale then.                                                *)
AnswerHealth ==
    /\ inflight # NoCall
    /\ exchange' = [exchange EXCEPT !.reply = ToolOk(
          IF inflight.found = {} THEN [measured |-> FALSE, stale |-> FALSE]
          ELSE [measured |-> TRUE,
                stale |-> wall - Newest(inflight.found) > STALE_AFTER_MS])]
    /\ inflight' = NoCall
    /\ UNCHANGED <<role, attached>>

-----------------------------------------------------------------------------
(* Messages, while servers are deleted.                                      *)
ProtocolNext ==
    \/ /\ \E m \in Messages, fails \in BOOLEAN : Handle(m, fails)
       /\ UNCHANGED <<metricVars, approvalVars>>
    \/ /\ \E s \in Servers : ForgetServer(s)
       /\ UNCHANGED <<approvalVars, gatewayVars>>

AnyValue == CHOOSE v \in Values : TRUE

(* Health calls, while the desktop process goes on collecting (what was      *)
(* measured does not matter here), pruning and deleting.                     *)
HealthNext ==
    \/ /\ (\E m \in Messages : ReadHealth(m)) \/ AnswerHealth
       /\ UNCHANGED <<metricVars, approvalVars>>
    \/ /\ SetClock
       /\ UNCHANGED <<metricVars, gatewayVars>>
    \/ /\ \/ \E s \in Servers, t \in Time, ms \in (SUBSET MetricKeys) \ {{}} :
                InsertSamples(s, t, [m \in ms |-> AnyValue])
          \/ \E now \in Time : PruneRaw(now)
          \/ PruneStops
          \/ \E s \in Servers : ForgetServer(s)
       /\ UNCHANGED <<approvalVars, gatewayVars>>

-----------------------------------------------------------------------------
GatewayTypeOK ==
    /\ role \in McpRole
    /\ attached \in BOOLEAN
    /\ DOMAIN inflight = DOMAIN NoCall
    /\ inflight.found \cup inflight.stored \cup inflight.ever \subseteq Key
    /\ DOMAIN exchange = {"msg", "reply"}
    /\ exchange.reply.kind \in {"silent", "error", "result", "tool"}

Answered == exchange.reply.kind = "tool" /\ exchange.reply.ok

(* What an agent is told is earned: a message is left unanswered exactly     *)
(* when it is a well-formed notification (or its answer is still being       *)
(* computed), and a tool succeeds only if it is a read the role is listed,   *)
(* with the arguments its schema asks for, from an attached store; a tool    *)
(* the role is listed is not refused for want of permission, and a list that *)
(* was asked for a tag names no server without it (mcp_server.rs             *)
(* handle_message, dispatch_tool_call).                                      *)
RepliesAreEarned ==
    LET m == exchange.msg
    IN /\ exchange # Nothing =>
             (exchange.reply = Silent <=>
                \/ m.json /\ m.object /\ m.version /\ m.method # NoText /\ m.id = "absent"
                   /\ m.params \in {"absent", "object"}
                \/ inflight # NoCall)
       /\ Answered =>
             /\ attached
             /\ m.method = "tools/call" /\ m.id = "scalar"
             /\ m.tool \in Listed(role) \ WriteTools
             /\ ValidArguments(m.tool, m.args)
       /\ exchange.reply = ToolError("permission") => m.tool \notin Listed(role)
       /\ Answered /\ m.tool = "kyvon_server_list" /\ "tag" \in DOMAIN m.args =>
             \A s \in exchange.reply.body : m.args["tag"].v \in TagsOf[s]

(* Health is honest: "no telemetry has ever been recorded" is said only of a *)
(* server that is not in the inventory or whose recorded samples, if any,    *)
(* retention removed; and readings are called stale exactly when, at the     *)
(* read, the store held no sample of that server, of any metric, taken less  *)
(* than STALE_AFTER_MS before the clock of the answer (mcp_server.rs         *)
(* kyvon_server_health over latest_per_metric).                              *)
HealthIsHonest ==
    [][inflight # NoCall /\ inflight' = NoCall =>
          LET said == exchange'.reply.body
              fresh == {k \in inflight.stored : wall - k.ts <= STALE_AFTER_MS}
          IN /\ ~said.measured => ~inflight.known \/ inflight.ever = {}
             /\ said.measured => said.stale = (fresh = {})]_gatewayVars
=============================================================================
