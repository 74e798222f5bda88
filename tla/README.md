# A TLA+ model of fastgeoapi

fastgeoapi puts authentication, an MCP server and an enriched OpenAPI document
around pygeoapi. Most of its code is plumbing between libraries; what is its own,
and hard to test, is what several *processes* do at start-up with files they
share without a lock, and what several *requests* do in one event loop around
an identity provider that changes its mind, and what middleware does to a response
on its way out. These modules model that part,
check it with TLC on small instances, and prove the main results with TLAPS for
every value of the constants. Source paths below are relative to `src/`.

- [Inventory](#inventory) · [Modules](#modules) · [Runs](#runs) ·
  [Fairness](#fairness) · [Proofs](#proofs) · [Differences found](#differences-found) ·
  [What is assumed](#what-is-assumed) · [What is not modelled](#what-is-not-modelled) ·
  [Plan](#plan)

## Inventory

| part | state it keeps | operations | where it is hard |
|---|---|---|---|
| OpenAPI file generation (`app/utils/openapi_generator.py`) | the file `PYGEOAPI_OPENAPI`, shared by all workers | `ensure_openapi_file_exists`, once per worker, at import | check-then-act without a lock; the file is visible and empty while it is generated; a kill half-way leaves a file that exists |
| Start-up (`app/main.py`, `app/config/app.py`) | per worker: the MCP server and what it was generated from, pygeoapi's OpenAPI document, the middleware on the mount | module level, `create_mcp_server`, `_build_pygeoapi_subapp`, `create_app`, `/readyz` | the file is looked at three times, at different moments; seven flags read in two functions decide who reaches what |
| OAuth2 gate (`app/middleware/oauth2.py`, `app/auth/`) | per request: the provider tried next, the loop variable, the fetched keys | `Oauth2Middleware.__call__`, `JWKSAuthentication.authenticate`, `get_jwks`, `decode_token` | keys rotate, the endpoint fails and tokens expire or become valid between an await and its continuation |
| External reference resolver (`app/utils/openapi_resolver.py`) | per run: a memory cache; shared by all workers: the disk cache | `resolve_external_refs` and its helpers | unlocked cache files that are truncated, written and read in blocks; expiry; a document that changes during a run; circular references |
| Response middlewares (`app/middleware/pygeoapi.py`, `proxy.py`) | per request: the start message held back, the body gathered; one dictionary of headers for all | `OpenAPIResponder.send_with_security`, `ForwardedLinksMiddleware.dispatch` | two middlewares change the body after its length was announced; attributes are kept across awaits; a page is told from a document by a text anywhere in it; what is neither raises half-way |
| MCP authentication (`app/auth/mcp_auth_provider.py`) | one attribute of the one middleware object; tokens in FastMCP | `RFC6750CompliantAuthMiddleware.__call__`, `verify_token`, `configure_mcp_auth` | the attribute is shared by all requests, and a wrong answer makes a client delete its registration; a client's token refers to an upstream one that may end first |
| Lifespan and Lambda handler (`app/main.py`) | the MCP `httpx` client, made once at import | `combined_lifespan`, Mangum | a client closed once, in a process whose lifespan may run again; calls under way at a shutdown |
| Command line (`app/cli.py`) | a `.json` file beside the OpenAPI file | `openapi`, `run` | truncates before it knows it can write |
| pygeoapi integration (`app/pygeoapi/`), protocols (`app/interfaces/`), logging, errors | none of their own | pure functions of one request, type declarations | – |

How they interact: every worker process imports `app.main`. That calls
`ensure_openapi_file_exists`; then, with `FASTGEOAPI_WITH_MCP`,
`create_mcp_server` reads the file again, has `resolve_external_refs` inline the
remote schemas, builds a client over a pygeoapi sub-application *without*
middleware, and generates the MCP tools; then `create_app` mounts another
sub-application behind the middleware of the configured mode. Workers meet only
in the file system (the OpenAPI file, the reference cache). Then the server runs
`combined_lifespan`, and the event loop interleaves requests: inwards through
`OpenapiSecurityMiddleware`, the gate and `ForwardedLinksMiddleware` to pygeoapi,
and their responses outwards the same way. Requests to `/mcp` go through FastMCP's
OIDC proxy with fastgeoapi's verifier and its 401 answers, and reach pygeoapi
through the one client. Requests meet in the identity provider, in that client,
and in the attributes of middleware objects.

What makes each part correct:

- *File*: when no generation is under way the file holds the whole document,
  unless a writer stopped half-way; a boot never touches a file that is there.
- *Start-up*: exactly the gate that was asked for; nothing open to anyone that
  was not opted into; a worker that boots beside a complete file serves it; a
  valid deployment converges to all workers serving.
- *Gate*: a protected request reaches pygeoapi only with a token that is genuine
  and valid at that moment, by keys published since the request came; it is
  refused or redirected only for a reason; every request is answered.
- *Resolver*: a finished run has inlined everything the specification leads to and
  nothing else, met no circle, and used one version of each document; nothing that
  was replaced longer ago than the TTL and the time documents take from the server
  to their timestamp; a mixed document only after a race for the file; runs end.
- *Responses*: the server receives one start message that is true of the body
  after it, and no other request's; an OpenAPI document is secured unless its text
  has the marker of an HTML page; links are public behind a proxy; nothing is kept
  back.
- *Lifespan*: no orderly exit leaves the client open; nobody who waits for a call
  meets a closed client; calls nobody waits for do not hold up a shutdown.
- *MCP authentication*: a client loses its registration only after its own token
  was rejected, comes to a token if its user logs in, and is not served longer on
  the identity provider's word than was configured.

## Modules

| module | models | state and actions |
|---|---|---|
| `OpenApiFile` | `ensure_openapi_file_exists` by any number of workers | `present` and `parts` are the path and the blocks written so far. `Check` (exists), `Touch` (`write_text("")`), `Open` (truncate), `Generate`, `WriteHead`, `WriteTail` are the function's steps in order; `Stop` is an exception or a kill anywhere in it; `Remove` is an operator deleting the file, which *detaches* a writer that has it open. `gen` is the program counter. `abandoned` is a history variable: a writer of the present file stopped half-way. |
| `Startup` (extends it) | the import of `app.main` | `Boot`, `EnsureFile`, `EnsureReturns`, `SpecMissing`, `LoadSpec`, `BuildClient`, `BuildMcp`, `AppSubapp`, `CreateApp` follow the module from top to bottom, every one that may raise doing so through `Refuse`. `conf` holds the seven flags that decide. `Parsed` says what a reader makes of a half-written file. `clean` is a history variable. |
| `JwtTokens` | keys, tokens, configured checks | shared vocabulary of the next two |
| `Admission` | the promise of the gate, abstractly | `Arrive`, `Admit`, `Deny`, `Redirect`, `Leave` in one step each; `seen` records every answer the endpoint would have given since a request came, `since` when it came |
| `Oauth2Gate` | the middleware and its providers | one action per stretch of code between two awaits: `Receive`, `NoBearer`, `Fetch`, `EndpointAnswers`, `Resume`, `AskRedirect`, `Conclude`, `Respond`. `Verdict` is `decode_token`, in the order of its checks. `Rotate` and `Tick` are the outside world. `Admits` instantiates `Admission` with `outcome <- Outcome`. |
| `RefResolver` | `resolve_external_refs` by any number of workers | the recursion is the stack `todo`; `Keep`, `Resolve`, `Finish` walk it; `Lookup`, `Load` read a cache file in two blocks; `Fetch` is the server's answer, `Stamps` the timestamp taken when it has been transferred and parsed; `OpenCache`, `WriteHead`, `WriteTail` write the file. `Restart` ends a process; `Publish` and `Tick` are the server and the clock. `since`, `raced` and `slack`, the longest time from an answer to its timestamp, are history variables. |
| `ResponseStream` | what the server may see of responses, abstractly | `Begin`, `Continue`, `End`, `Fail`; contents are told apart by request, kind (a document with the marker of a page in its text is one), links and security sections, and different contents have different lengths |
| `ResponseChain` | the middleware on the pygeoapi mount | one action per message or await: `Gather`, `Rewrite`, `RewriteFails` are `dispatch`; `HoldStart`, `SecureDocument`, `PassPage`, `RejectBody`, `SendHeldBody` are `send_with_security`; `SendStart`, `SendBody` go past it. `held`, `sendTo` are a responder's attributes, `headers` the shared default argument. `stack` is what `create_app` has installed. `Promise` instantiates `ResponseStream`. |
| `Lifespan` | `combined_lifespan` under a server and under Mangum | `Import` makes the client; `Enter`, `Close`, `Leave` are the three parts of the generator; `Send`, `Return`, `Abandon`, `Forget` are calls; `Event` and `Accept` are how they come under either host; `EnterFails` is a lifespan that cannot be entered: a server exits, Mangum refuses the event and keeps the process; `Kill` is everything that ends a process at once |
| `McpAuth` | MCP authentication with its clients, OIDCProxy and the identity provider | `Verify`, `Refresh`, `Reject` are what happens to a request before the middleware, `Judge` is `__call__`, `Missing` and `Invalid` its two 401 answers and what a client does with each; `Ttl` is the configured lifetime. `rejected` is a history variable. |
| `MCStartup`, `MCOauth2Gate`, `MCRefResolver`, `MCResponseChain`, `MCLifespan`, `MCMcpAuth` | – | instances for TLC |
| `*Proofs` | – | theorems and their proofs |

A definition marked *(Slip)* is a plausible mistake in the definition that
follows it. No specification uses it: it is there to show that the properties
notice.

The refinements: `Startup` implements `OpenApiFile`'s specification `FileSpec`
over the same variables (what the rest of the boot does to the file is one of the
protocol's steps or none), `Oauth2Gate` implements `Admission`, and
`ResponseChain` implements `ResponseStream` through every stack.

## Runs

| run | configuration | bounds | distinct states | shows |
|---|---|---|---|---|
| `startup` | `MCStartup.cfg` | 2 workers; exceptions, kills, deletions; 4 configurations (REST only, JWKS+MCP, API key + opt-in MCP, MCP without OIDC) | 12 383 | the file guarantees hold through every interleaving of racing, dying and restarted boots, a refused configuration serves at most without MCP, and `Startup` implements `FileSpec` |
| `startup_live` | `MCStartupLive.cfg` | 2 workers, no failures, all 256 configurations | 56 544 | who serves and through which gate; valid deployments converge, and in any the file settles |
| `gate` | `MCOauth2Gate.cfg` | 2 requests, 3 keys of 2 algorithms, of which one is undeclared; key sets that declare one algorithm, none or two, or no answer; 3 tokens (expiring, not valid yet, of another issuer); 2 provider lists; 1 tick | 689 404 | the gate implements `Admission`, every step of a handler brings its request nearer to its answer, and every request is answered |
| `refs` | `MCRefResolver.cfg` | 2 workers, 1 document with 2 versions, 3 fragments of which one is never reached, in a chain or a circle, recursion limit 1, TTL 1 of 2 ticks, all failures | 1 083 241 | what a finished run has inlined, from which versions and how old, what comes out of the caches, and that runs end |
| `response` | `MCResponseChain.cfg` | 2 requests, 6 kinds of content, files of up to 2 pieces, the 6 stacks | 618 110 | responses arrive whole, true and transformed, and in a bounded number of messages, whatever is interleaved |
| `lifespan` | `MCLifespan.cfg` | 3 calls, server and Mangum, kills at any point | 968 | who may meet a closed client, and that shutdowns end |
| `mcp_auth` | `MCMcpAuth.cfg` | 2 clients, 4 settings (none, negative, 0, 2), upstream lifetime 1, default 3, 3 ticks, 1 restart | 1 282 934 | registrations, lifetimes, and that a client comes to a token |
| `ready_in_race` | `MCReadyInRace.cfg` | 2 workers, no failures | violated | see below |
| `sibling_ref` | `MCSiblingRef.cfg` | 1 worker | violated | see below |
| `marked_document` | `MCMarkedDocument.cfg` | 1 request | violated | see below |
| `lambda` | `MCLambda.cfg` | 2 calls under Mangum | violated | see below |
| `upstream_ends` | `MCUpstreamEnds.cfg` | 1 client, default lifetime | violated | see below |

Why these bounds are enough to meet the interesting cases. Two workers make every
race there is (one truncating under another, reading while another writes, dying
between another's steps); a third adds no new kind, and the proofs cover any number.
Files have two blocks because a partial file, a whole one and a mixed one then all
exist. Two requests are independent of each other in the code, and the instance
shows that they are. The clock needs one tick for a token to expire, or become
valid, between two awaits, and TTL + 1 for a cache entry to expire, which is also
enough for a document to take a tick to its timestamp and be read a TTL later. The
recursion limit of 1 lets the chain of 2 pass and the circle fail. Two responses are
enough to swap one for the other; two pieces give a first message that is not the
last. `rounds`, the lifespans a process has entered, counts to 2 because from the
second lifespan on all are alike. The lifetimes of MCP tokens differ so that taking
one for another shows within three ticks; the second client is the one whose token
may spoil the first one's answer. Every counter is capped in a guard (`MaxTime`,
`MaxVersion`) or by a finite program.

Deadlock is not checked: without failures start-up ends in serving workers, a
bounded clock and a bounded number of versions stop, and none of the runs relies
on something always being enabled. That the system does not get stuck where it
should go on is what `Converges`, `FileSettles`, `Answered` and `RunEnds` say.
`ResponseChain`, `Lifespan` and `McpAuth` have no such ends, and deadlock is checked
in their runs.

## Fairness

- `FairStartupSpec`: weak fairness of `BootStep(w)` for each worker: the
  operating system schedules every process, and a supervisor (uvicorn's, or the
  container platform) starts a worker again that ended. Only runs without kills
  use it: no code promises convergence under endless crashes.
- `Oauth2Gate!FairSpec`: weak fairness of `Handle(r)`: the event loop runs what is
  ready, and the HTTP client of `get_jwks` gives up after its timeout
  of 30 s, which is an answer here (`Unavailable`). Requests need not come.
- `RefResolver!FairSpec`: weak fairness of `Work(w)`: the same, with
  `httpx.get(..., timeout=30.0)`. Restarts, kills and publications are not fair.
- `ResponseChain!FairSpec`: weak fairness of `Relay(r)`, the steps of the event
  loop; it assumes that the server takes what it is sent. pygeoapi's threads may
  take for ever.
- `Lifespan!FairSpec`: weak fairness of `Close` and `Leave` only: a generator that
  can be resumed is. Calls and pygeoapi are not fair, so `ShutdownEnds` names the
  calls that somebody waits for as the one thing that may hold a shutdown up. It
  speaks of the lifespan's end: after it the interpreter still joins the executor
  threads in which `get_response` runs pygeoapi, which is not modelled.
- `McpAuth!FairSpec`: weak fairness of each client's `Step`: the event loop goes
  on, the client tries again, and its user logs in when a browser opens. Renewal,
  revocation, the clock and restarts are not fair.

## Proofs

All by TLAPS, for any finite or infinite sets of workers, requests, tokens, keys,
documents, references, calls and clients, and any bounds, from the assumptions
named in the modules (`SwitchAssumption`, `ConfigsAssumption`, `TokenAssumption`,
`ProviderAssumption`, `ResolverAssumption`, `AbsentAssumption`,
`StacksAssumption`, `HostsAssumption`, `McpAuthAssumption`), which only give
constants their types and keep the model values apart. In `ResponseChain` the
number of pieces is the definition `MaxPieces`; the kinds of content are fixed.

**`OpenApiFileProofs`.** `QuietFileIsWhole` is not inductive: it says nothing
while a generation is under way. `FileInv` adds that *every block missing from a
file nobody abandoned is owed by a worker that still has it to write*
(`MissingBlocksAreOwed`): a truncation wipes other workers' blocks, but the
truncating worker then owes all of them. When nobody is past the `exists()` test,
nobody owes anything, so nothing is missing (`QuietFileCorrect`).
`BootKeepsCorrect` is the action property.

**`StartupProofs`.** `BootInv` ties each worker's stage to its place in the file
protocol (`InStep`) and what it holds to the configuration (`Decided`), and gives
`OneGateCorrect` and `OpenOnlyByChoiceCorrect`. `StartupImplementsFile` maps every
step of the boot to a step of the file protocol or a stutter, which carries
`QuietFileIsWhole` over (`StartupFileCorrect`). `CleanBootCorrect` needs
`CleanInv`: while some worker is *clean* the file is quiet and whole, because a
later boot finds it there. `ServesOnlyAdmissibleCorrect` adds `Kept`: where nobody
deletes files, one that was opened or found is still there, so no worker skips the
checks of MCP. `SoleWorkerReady` proves the documented promise of `/readyz`, which
`ready_in_race` refutes, for one worker that does not fail: `SoleInv` says that
what a worker holds was read from a whole file, because nobody else is there to
have truncated it.

**`Oauth2GateProofs`.** `GateInv` says what a handler has established wherever it
can be suspended: the keys it holds were published since its request came
(`FetchHasToken`), and a token provider that is behind it had a reason
(`LastProvider`), which must still be one when the refusal is sent: a token that was
not valid yet may be by then, so `Deniable` looks back to `since`. With `VerdictCorrect`, which reduces the ordered checks of
`decode_token` to the conditions of `Admission`, each step is a step of
`Admission` or invisible (`GateImplementsAdmission`). `GateComesNearer` is the safe
half of *every request is answered*: `StepsLeft` counts the stretches of code a
handler may still go through, is positive while it is handled (`StepsLeftPositive`,
which needs `GateInv` to bound the provider tried next) and falls with each.

**`RefResolverProofs`.** `ResolverInv` locates each worker's document in its
memory cache and says that what was inlined is what is in memory, which is
`OneVersionPerRun`. `FreshCorrect` rests on `StampsHold`: every timestamp in a cache
file or in a worker's hands names a version that the server still gave at most
`slack` earlier, the longest that a document has been on its way to its timestamp.
So a timestamp within the TTL is a version that was replaced at most TTL + `slack`
ago, and no better can be said: nothing in the code bounds the way.
`MixedOnlyByRaceCorrect` rests on `RaceInv`: at a file nobody was in anybody's
way at, a writer is alone and finds what it has written, and a tail only ever
follows the head of the same write. With one worker nobody is ever in the way, so
nothing is mixed (`SoleWorkerNeverMixed`).

`GatheredInv` is about the walk itself. For each run it says that the specification
and every fragment inlined so far refer only to what was inlined, left in place or
is still on the stack; that all of it is reachable; and that of a set of fragments
that leads back to itself, once a member was inlined, another is still on the stack. When the stack is empty the first two make what was gathered
the least closed set, `Reachable` (`InlinesTheReachableCorrect`), and the third
leaves no circle (`NoCircleCorrect`): a circle keeps its own next item on the stack
until the recursion limit ends the run. `NoExternalRefLeftWithoutSiblings` is the
docstring's promise, which `sibling_ref` refutes, for documents without siblings of
`$ref`: a run that ends has inlined *every* external reference it can reach. That
it gave none up rests on `LeftMayStay` and on `GatheredInv`.

**`ResponseChainProofs`.** `Coherent(r)` says, for each phase of a request, how
what has been sent fits what is still to be sent: above all that an announced head
is that of the body in hand, and that a held start message is its own request's. A
step of one request leaves the others' conjuncts alone (`Framed`), because each
has a responder of its own; what the shared `headers` hold is used by nobody.
`Served` carries a content's security and links from the body over to what was
sent. `DocumentsAreSecured` speaks of any stack, and of every document but the ones
that `marked_document` is about. `ChainStreams` maps each step to one of `ResponseStream` or to a stutter:
gathering and holding back are invisible. `ChainComesToItsEnd` bounds what the
invisible steps may do: `MessagesLeft`, what is still to be read, held and sent, is
positive while a response is under way, falls with every step of its own, and is
untouched by other requests.

**`LifespanProofs`.** `IInv` adds to `LifespanInv` the two safety properties, which
are inductive with it. `ServerNextRequestWorks` proves the documented promise,
which `lambda` refutes for Mangum, for any deployment without it.

**`McpAuthProofs`.** `Timely` and `Judged` are inductive together: OIDCProxy's check
of its own token bounds the age of the identity provider's word (`KnownIsYoung`),
because that word is never older than the token. `RegistrationKeptCorrect` is
where the middleware's shared attribute could interfere: it is set and read
between two awaits.

**Only model-checked**: liveness (`Converges`, `FileSettles`, `Answered`,
`RunEnds`, `Delivered`, `ShutdownEnds`, `LogsIn`), which this prover cannot do. Of
`Answered` and `Delivered` everything but the fairness is proved: `ComesNearer` and
`ComesToItsEnd` leave only that the event loop resumes what can go on.

## Differences found

- `ready_in_race`: `docs/howto-guides.md:18` says `/readyz` answers 200 once the
  OpenAPI document is available. The code looks whether the path exists
  (`app/main.py:181`). With two workers and no failure at all, one finds the file
  the other has only created, imports pygeoapi, which reads an empty document,
  and is ready with it. `SoleWorkerReady` proves that it takes a second worker.
- `sibling_ref`: `resolve_external_refs` is documented to return a specification
  "with all external $refs resolved", but a reference is resolved only where
  `$ref` is the only key (`app/utils/openapi_resolver.py:284`). Without such
  references the promise is proved (`NoExternalRefLeftWithoutSiblings`).
- `marked_document`: the documented feature is "security-enhanced OpenAPI
  specifications" (`README.md:55`). `send_with_security` takes every body that
  contains `<!-- HTML` for a page (`app/middleware/pygeoapi.py:76`), so an OpenAPI
  document with that text in a title or description is sent on unchanged, without
  its security sections. `SecuredDocuments` is what does hold.
- `lambda`: `docs/mcp/index.md:92` promises that in stateless mode "the next
  request simply works, whether or not the process was suspended, resumed, or
  rebuilt". Mangum (`app/main.py:475`) runs the lifespan around every event, and
  the first one to end closes the client that was made once at import: the second
  event of a process that Lambda keeps fails.
- `upstream_ends`: `docs/mcp/configuration.md:180-184` says every request
  re-validates the upstream token against the identity provider, so that a revoked
  session fails immediately. The verifier accepts every upstream token without
  asking (`app/auth/mcp_auth_provider.py:97`).

Met on the way, without a run of its own: behind a proxy a response without a
content-type (a redirect) raises `KeyError` in `dispatch` (`RewriteFails`);
GeoJSON is not among the rewritten media types although
`docs/getting-started.md:525` calls links dynamic (`Listed`); OPA's refusal of
`.../openapi` is no document and ends as an error of the server (`RejectBody`); a
remote schema with a date that YAML parses makes `json.dump` raise a `TypeError`,
which `except OSError` (`app/utils/openapi_resolver.py:101`) lets through
(`WriteHead`, `WriteTail`); the TTL of the reference cache counts from the writing
of the entry, not from the server's answer (`Stamps`); `get_jwks` is documented as
"Get cached or new JWKS." (`app/auth/auth_jwks.py:40`), but its cache decorator is
commented out and every authenticated request fetches (`Fetch`).

## What is assumed

- Two workers generate the same text: they read the same configuration. A write
  goes to the file in blocks; two blocks stand for any number.
- Readers of a partial file: an empty one is `None` to YAML; one cut after its
  beginning may be a shorter document or an error; one whose beginning is missing
  is an error (`Parsed` in `Startup`).
- pygeoapi reads its OpenAPI document once per process, when its module is first
  imported. FastMCP cannot build from `None`.
- authlib verifies the signature before claims, and the times last: the expiry, then
  `nbf` and `iat`, which a token's `nbf` stands for together. A provider
  that redirects is one that `AuthInterface` allows; the repository's own
  provider never does.
- In `RefResolver` the server's answer is of one instant, and so is the timestamp,
  which comes any time later; what a fragment refers to does not depend on the
  version; a document is never `null`; recursion is counted in inlined fragments;
  blocks of different writes parse only by accident, as one document if they are of
  one version and as a mixed one otherwise.
- The documents that reach `send_with_security` come in one body message: pygeoapi
  makes them, and a file on that path does not exist. So its sending of the start
  message before *each* body message is not reached (`PiecesLeft`, proved). Request
  bodies, `HEAD` and websockets are left out.
- Mangum runs a lifespan around each event, uvicorn one per process, and waits for
  its connections before it resumes the lifespan; when the lifespan cannot be
  entered, uvicorn exits and Mangum refuses the event. Neither is the repository's
  code. What an exiting process left open (`lost`) the operating system takes back.
  Whether FastMCP lets an application begin again is not modelled: a refusal fails
  the event as the closed client does.
- In `McpAuth`, OIDCProxy checks its own token and looks up the upstream one before
  it calls the verifier; whether it refreshes an upstream token that is over is a
  free choice (`refreshes`), since the repository does not decide it. A client that
  is told `invalid_token` deletes its registration, as the module's docstring says
  of mcp-remote. The answer `insufficient_scope` is not reached, because the
  verifier grants the scopes the middleware requires.

## What is not modelled

- The contents of documents, wording, logging: data no property is about.
- `app/pygeoapi/api`, `interfaces`, exceptions, logging: functions of one request
  without state, or declarations. Of `starlette_app.py`, `get_response` is in
  `ResponseChain`; what pygeoapi computes is not.
- The well-known routes, their aliases without a slash and
  `MCPMountRootRewriteMiddleware`: a fixed table and a change of one path.
- Consent modes, the normalised audience of client assertions and the consent pages
  of FastMCP: one string mapped to another, or another program.
- OPA's middleware and policies, the IAM stack, Docker, scripts, documentation:
  other programs and data. `Startup` models when the OPA gate is mounted.
- The API key middleware itself: third-party; `Startup` models when it is mounted
  and that it is refused without a key.
- The `openapi` command: every example and deployment in the repository names a
  `.yml` file, so the command writes a file of its own that nothing else opens,
  once, in one process. Where `PYGEOAPI_OPENAPI` ended in `.json` it would be the
  workers' file, with JSON from one writer and YAML from the others; `OpenApiFile`
  rests on all writers writing the same text and does not speak about that.
- The composition of `Startup` with `RefResolver`: a failing resolution is one of
  the failures that end a boot (`Crash`), and its result a document like another.

## Plan

All of it is built, in this order:

1. `OpenApiFile`, `OpenApiFileProofs`: what all workers share at boot.
2. `Startup`, composed with it; refinement of `FileSpec`.
3. `JwtTokens`, `Admission`, `Oauth2Gate`; refinement of `Admission`.
4. `RefResolver`: the other state that workers share.
5. `ResponseStream`, `ResponseChain`: responses on their way out; refinement.
6. `Lifespan`: the MCP client's life under either host.
7. `McpAuth`: tokens, their lifetimes and the answers to the ones that fail.

Left, should the code come to need it: the `openapi` command as a further writer of
`OpenApiFile`, with blocks that remember their writer.
