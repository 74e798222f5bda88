------------------------------ MODULE Startup ------------------------------
(***************************************************************************)
(* The import of app.main by the workers of one deployment: the OpenAPI    *)
(* file (OpenApiFile), then, if FASTGEOAPI_WITH_MCP is set, the MCP server *)
(* built from that file, then the FastAPI application with the middleware  *)
(* of the configured authentication mode, and the readiness probe it       *)
(* serves.  Every worker reads the same configuration and the same file.   *)
(*                                                                         *)
(* A worker reads the file twice, at different times: create_mcp_server    *)
(* parses it to generate the MCP tools, and importing pygeoapi's own       *)
(* starlette_app parses it again into the document that /openapi serves.   *)
(* pygeoapi is imported once per process, by whoever builds the first      *)
(* sub-app; later builds reuse the document it read.                       *)
(***************************************************************************)
EXTENDS OpenApiFile

CONSTANT Configs     \* the configurations a deployment may be given

VARIABLES
    conf,      \* the configuration of this deployment
    stage,     \* where each worker is in app.main
    tools,     \* what the MCP server of a worker was generated from
    oapi,      \* the OpenAPI document pygeoapi holds in a worker
    mcp,       \* how the MCP mount of a worker admits callers
    gate,      \* the authentication middleware on a worker's pygeoapi mount
    clean      \* booted when the file was complete, and it was not deleted since

bootVars == <<stage, tools, oapi, mcp, gate, clean>>
vars == <<fileVars, conf, bootVars>>

Stage == {"down", "ensure", "spec", "client", "tools", "app", "serving"}
Document == {"unread", "nothing", "cut", "whole"}
McpAccess == {"off", "oidc", "open"}
Gate == {"none", "opa", "jwks", "apiKey"}

Flag == {"paths", "withMcp", "opa", "jwks", "apiKey", "key", "oidc", "anon"}
ASSUME ConfigsAssumption == Configs \subseteq [Flag -> BOOLEAN]

-----------------------------------------------------------------------------
StartupInit ==
    /\ FileInit
    /\ conf \in Configs
    /\ stage = [w \in Worker |-> "down"]
    /\ tools = [w \in Worker |-> "unread"]
    /\ oapi = [w \in Worker |-> "unread"]
    /\ mcp = [w \in Worker |-> "off"]
    /\ gate = [w \in Worker |-> "none"]
    /\ clean = [w \in Worker |-> FALSE]

Enter(w, s) == stage' = [stage EXCEPT ![w] = s]

\* (Slip) what is no YAML is handed on as text.
ParsedLenient(blocks) ==
    {IF blocks = Part THEN "whole" ELSE IF blocks = {} THEN "nothing" ELSE "text"}

\* What a YAML reader makes of the blocks in the file: an empty file is None, a
\* prefix may be a shorter document or a syntax error, and a file whose first
\* block is missing (zero bytes) cannot be read.
Parsed(blocks) ==
    {doc \in {"nothing", "cut", "whole", "error"} :
        \/ doc = "nothing" /\ blocks = {}
        \/ doc = "whole" /\ blocks = Part
        \/ doc = "cut" /\ blocks = {"head"}
        \/ doc = "error" /\ blocks \notin {{}, Part}}

\* The process ends with what it held in memory.
Forget(w) ==
    /\ Enter(w, "down")
    /\ tools' = [tools EXCEPT ![w] = "unread"]
    /\ oapi' = [oapi EXCEPT ![w] = "unread"]
    /\ mcp' = [mcp EXCEPT ![w] = "off"]
    /\ gate' = [gate EXCEPT ![w] = "none"]
    /\ clean' = [clean EXCEPT ![w] = FALSE]

\* The import of app.main raises, past ensure_openapi_file_exists.
Refuse(w) == Stop(w) /\ Forget(w)

-----------------------------------------------------------------------------
\* (Slip) a boot generates the file whether or not it is there.
BootForces(w) ==
    /\ stage[w] = "down"
    /\ conf["paths"]
    /\ Goto(w, "touch")
    /\ Enter(w, "ensure")
    /\ UNCHANGED <<present, parts, detached, abandoned>>
    /\ UNCHANGED <<conf, tools, oapi, mcp, gate, clean>>

\* A process is started; without PYGEOAPI_CONFIG and PYGEOAPI_OPENAPI it raises
\* PygeoapiEnvError before it looks at the file, and nothing has changed.
Boot(w) ==
    /\ stage[w] = "down"
    /\ conf["paths"]
    /\ Start(w)
    /\ Enter(w, "ensure")
    /\ clean' = [clean EXCEPT ![w] = Quiet /\ Whole]
    /\ UNCHANGED <<conf, tools, oapi, mcp, gate>>

\* A step of ensure_openapi_file_exists().
EnsureFile(w) ==
    /\ stage[w] = "ensure"
    /\ Ensure(w)
    /\ UNCHANGED <<conf, bootVars>>

\* It returns.
EnsureReturns(w) ==
    /\ stage[w] = "ensure"
    /\ gen[w] = "settled"
    /\ Enter(w, IF conf["withMcp"] THEN "spec" ELSE "app")
    /\ UNCHANGED <<fileVars, conf, tools, oapi, mcp, gate, clean>>

\* create_mcp_server: no file, no MCP, and the rest of its checks are skipped.
SpecMissing(w) ==
    /\ stage[w] = "spec"
    /\ ~present
    /\ Enter(w, "app")
    /\ UNCHANGED <<fileVars, conf, tools, oapi, mcp, gate, clean>>

\* create_mcp_server: yaml.safe_load and resolve_external_refs, which keeps
\* None and turns a document into another one.
LoadSpec(w) ==
    /\ stage[w] = "spec"
    /\ present
    /\ \E doc \in Parsed(parts) :
          IF doc = "error"
          THEN Refuse(w)
          ELSE /\ tools' = [tools EXCEPT ![w] = doc]
               /\ Enter(w, "client")
               /\ UNCHANGED <<fileVars, oapi, mcp, gate, clean>>
    /\ UNCHANGED conf

\* _build_pygeoapi_subapp imports pygeoapi, which reads the file unless this
\* process has imported it already.
Subapp(w, next) ==
    IF oapi[w] # "unread"
    THEN Enter(w, next) /\ UNCHANGED <<fileVars, tools, oapi, mcp, gate, clean>>
    ELSE \E doc \in (IF present THEN Parsed(parts) ELSE {"error"}) :
            IF doc = "error"
            THEN Refuse(w)
            ELSE /\ oapi' = [oapi EXCEPT ![w] = doc]
                 /\ Enter(w, next)
                 /\ UNCHANGED <<fileVars, tools, mcp, gate, clean>>

\* create_mcp_server: the httpx client over a raw sub-app.
BuildClient(w) ==
    /\ stage[w] = "client"
    /\ Subapp(w, "tools")
    /\ UNCHANGED conf

McpAuthenticated == conf["jwks"] /\ conf["oidc"]

\* (Slip) the guard trusts JWKS_ENABLED alone.
McpRefusedLoose == ~conf["jwks"] /\ ~conf["anon"]

\* (Slip) the opt-in is ignored.
McpRefusedStrict == ~McpAuthenticated

\* create_mcp_server: the fail-closed guard.
McpRefused == ~McpAuthenticated /\ ~conf["anon"]

\* create_mcp_server: the guard, configure_mcp_auth, and FastMCP.from_openapi,
\* which needs a document.
BuildMcp(w) ==
    /\ stage[w] = "tools"
    /\ IF McpRefused \/ tools[w] = "nothing"
       THEN Refuse(w)
       ELSE /\ mcp' = [mcp EXCEPT ![w] = IF McpAuthenticated THEN "oidc" ELSE "open"]
            /\ Enter(w, "app")
            /\ UNCHANGED <<fileVars, tools, oapi, gate, clean>>
    /\ UNCHANGED conf

\* (Slip) the OPA branch forgets the JWKS flag.
AuthModeOpaFirst ==
    IF conf["opa"] THEN IF conf["apiKey"] THEN "refused" ELSE "opa"
    ELSE IF conf["jwks"] THEN IF conf["apiKey"] THEN "refused" ELSE "jwks"
    ELSE IF conf["apiKey"] THEN IF conf["key"] THEN "apiKey" ELSE "refused"
    ELSE "none"

\* create_app: the if/elif chain over the three authentication flags.
AuthMode ==
    IF conf["opa"] THEN IF conf["apiKey"] \/ conf["jwks"] THEN "refused" ELSE "opa"
    ELSE IF conf["jwks"] THEN IF conf["apiKey"] THEN "refused" ELSE "jwks"
    ELSE IF conf["apiKey"] THEN IF conf["key"] THEN "apiKey" ELSE "refused"
    ELSE "none"

\* create_app: the sub-app, which imports pygeoapi unless the MCP client did.
AppSubapp(w) ==
    /\ stage[w] = "app"
    /\ oapi[w] = "unread"
    /\ Subapp(w, "app")
    /\ UNCHANGED conf

\* create_app: its middleware and the mount; from here on the worker serves.
CreateApp(w) ==
    /\ stage[w] = "app"
    /\ oapi[w] # "unread"
    /\ IF AuthMode = "refused"
       THEN Refuse(w)
       ELSE /\ gate' = [gate EXCEPT ![w] = AuthMode]
            /\ Enter(w, "serving")
            /\ UNCHANGED <<fileVars, tools, oapi, mcp, clean>>
    /\ UNCHANGED conf

\* A worker raises where the model does not say so (generation, the network,
\* a provider) or is killed; its supervisor starts another.
Crash(w) ==
    /\ MayStop
    /\ Refuse(w)
    /\ UNCHANGED conf

RemoveFile ==
    /\ Remove
    /\ clean' = [w \in Worker |-> FALSE]
    /\ UNCHANGED <<conf, stage, tools, oapi, mcp, gate>>

BootStep(w) ==
    \/ Boot(w) \/ EnsureFile(w) \/ EnsureReturns(w)
    \/ SpecMissing(w) \/ LoadSpec(w) \/ BuildClient(w) \/ BuildMcp(w)
    \/ AppSubapp(w) \/ CreateApp(w)

StartupNext == (\E w \in Worker : BootStep(w) \/ Crash(w)) \/ RemoveFile

StartupSpec == StartupInit /\ [][StartupNext]_vars

\* The operating system schedules every worker, and uvicorn's supervisor
\* restarts the ones that end.
FairStartupSpec == StartupSpec /\ \A w \in Worker : WF_vars(BootStep(w))

\* GET /readyz of a worker answers 200.
Readyz(w) == stage[w] = "serving" /\ present

-----------------------------------------------------------------------------
StartupTypeOK ==
    /\ FileTypeOK
    /\ conf \in Configs
    /\ stage \in [Worker -> Stage]
    /\ tools \in [Worker -> Document]
    /\ oapi \in [Worker -> Document]
    /\ mcp \in [Worker -> McpAccess]
    /\ gate \in [Worker -> Gate]
    /\ clean \in [Worker -> BOOLEAN]

\* The authentication modes the operator has asked for.
Enabled == {m \in Gate \ {"none"} : conf[m]}

\* A worker that serves guards pygeoapi with the mode the operator asked for,
\* and never with one of several: asking for two modes is refused, whichever
\* branch of create_app meets the conflict.
OneGate ==
    \A w \in Worker : stage[w] = "serving" =>
        Enabled = IF gate[w] = "none" THEN {} ELSE {gate[w]}

\* Someone without credentials reaches pygeoapi's operations through worker w,
\* directly or as MCP tools (the MCP client bypasses the gate).
ReachableByAnyone(w) ==
    stage[w] = "serving" /\ (gate[w] = "none" \/ mcp[w] = "open")

\* With an authentication mode enabled, pygeoapi is open to anyone only where
\* the operator opted in to unauthenticated MCP, and only through MCP.
OpenOnlyByChoice ==
    \A w \in Worker : ReachableByAnyone(w) /\ Enabled # {} =>
        gate[w] # "none" /\ conf["withMcp"] /\ conf["anon"]

\* A worker that boots when the file is complete and nobody is generating it
\* serves that document, as /openapi and as MCP tools, whatever other workers
\* do and however they fail meanwhile, unless the file is deleted under it.
CleanBootServesWhole ==
    \A w \in Worker : clean[w] /\ stage[w] = "serving" =>
        /\ oapi[w] = "whole"
        /\ conf["withMcp"] <=> mcp[w] # "off"
        /\ conf["withMcp"] => tools[w] = "whole"

\* The configurations README and tests present as valid.
Admissible ==
    /\ conf["paths"]
    /\ \A m, n \in Enabled : m = n
    /\ "apiKey" \in Enabled => conf["key"]
    /\ conf["withMcp"] => conf["anon"] \/ McpAuthenticated

AllServing == \A w \in Worker : stage[w] = "serving"

\* Without failures, the workers of a valid deployment all end up serving, for
\* good, although some may be refused on the way because they read the file
\* while another was writing it.
Converges == Admissible => <>[]AllServing

\* Without failures every race of booting workers, even of an invalid
\* deployment whose workers are refused and restarted over and over, ends with
\* the complete document on disk, for good.
FileSettles == conf["paths"] => <>[]Whole

\* No worker of an invalid deployment serves, except that deleting the file
\* between a worker's two looks at it makes that worker skip the checks of MCP
\* and serve without MCP.
ServesOnlyAdmissible ==
    \A w \in Worker : stage[w] = "serving" =>
        Admissible \/ (MayRemove /\ conf["withMcp"] /\ mcp[w] = "off")

\* docs/howto-guides.md:18: readyz answers 200 once the pygeoapi OpenAPI
\* document is available, 503 otherwise.
ReadyMeansDocument == \A w \in Worker : Readyz(w) => oapi[w] # "nothing"
=============================================================================
