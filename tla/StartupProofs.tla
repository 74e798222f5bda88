--------------------------- MODULE StartupProofs ---------------------------
(***************************************************************************)
(* Proofs about Startup for any set of workers and any set of              *)
(* configurations.                                                         *)
(***************************************************************************)
EXTENDS Startup, OpenApiFileProofs

USE DEF Part, Opened, Writing, GenState, fileVars
USE DEF vars, bootVars, Stage, Document, McpAccess, Gate

-----------------------------------------------------------------------------
(* A worker that is down is not in ensure_openapi_file_exists, and one past  *)
(* it has returned from it.                                                  *)
InStep ==
    \A w \in Worker :
        /\ stage[w] = "down" <=> gen[w] = "stopped"
        /\ stage[w] \notin {"down", "ensure"} => gen[w] = "settled"

(* What a worker holds was decided by the configuration.                     *)
Decided ==
    \A w \in Worker :
        /\ stage[w] # "down" => conf["paths"]
        /\ stage[w] = "down" => oapi[w] = "unread"
        /\ stage[w] = "serving" => gate[w] = AuthMode /\ AuthMode # "refused"
        /\ mcp[w] # "off" =>
              /\ conf["withMcp"] /\ ~McpRefused
              /\ mcp[w] = "open" <=> ~McpAuthenticated
        /\ stage[w] \in {"spec", "client", "tools"} => conf["withMcp"]

BootInv == StartupTypeOK /\ InStep /\ Decided

LEMMA ParsedType ==
  ASSUME NEW blocks \in SUBSET Part
  PROVE  Parsed(blocks) \subseteq Document \cup {"error"}
  BY DEF Parsed

LEMMA AuthModeType == AuthMode \in Gate \cup {"refused"}
  BY DEF AuthMode

LEMMA BootInitInv == StartupInit => BootInv
<1>. SUFFICES ASSUME StartupInit PROVE BootInv
  OBVIOUS
<1>1. FileTypeOK
  BY FileInitInv DEF StartupInit, FileInv
<1>2. StartupTypeOK
  BY <1>1 DEF StartupInit, StartupTypeOK
<1>3. InStep /\ Decided
  BY DEF StartupInit, FileInit, InStep, Decided
<1>. QED  BY <1>2, <1>3 DEF BootInv

(* Ending a worker, at whatever point, leaves the others as they are.        *)
LEMMA RefuseInv ==
  ASSUME BootInv, NEW w \in Worker, Refuse(w), UNCHANGED conf
  PROVE  BootInv'
<1>. USE DEF BootInv, StartupTypeOK, Refuse, Stop, Forget, Enter, Goto
<1>1. FileTypeOK'
  BY DEF FileTypeOK, Linked
<1>2. StartupTypeOK'
  BY <1>1
<1>3. InStep'
  BY DEF InStep, FileTypeOK
<1>4. Decided'
  BY DEF Decided, AuthMode, McpRefused, McpAuthenticated
<1>. QED  BY <1>2, <1>3, <1>4

(* A step of a worker that neither ends it nor touches the file.             *)
LEMMA SubappInv ==
  ASSUME BootInv, UNCHANGED conf, NEW w \in Worker, NEW next \in {"tools", "app"},
         Subapp(w, next), stage[w] \in {"client", "app"},
         next = "tools" => stage[w] = "client"
  PROVE  BootInv'
<1>1. CASE Refuse(w)
  BY <1>1, RefuseInv
<1>2. CASE /\ Enter(w, next)
           /\ \/ UNCHANGED oapi
              \/ \E doc \in Document : oapi' = [oapi EXCEPT ![w] = doc]
           /\ UNCHANGED <<fileVars, tools, mcp, gate, clean>>
  <2>1. StartupTypeOK'
    BY <1>2 DEF BootInv, StartupTypeOK, FileTypeOK, Enter
  <2>2. InStep'
    BY <1>2 DEF BootInv, StartupTypeOK, InStep, Enter
  <2>3. Decided'
    BY <1>2 DEF BootInv, StartupTypeOK, Decided, Enter, AuthMode, McpRefused,
                McpAuthenticated
  <2>. QED  BY <2>1, <2>2, <2>3 DEF BootInv
<1>3. parts \in SUBSET Part
  BY DEF BootInv, StartupTypeOK, FileTypeOK
<1>4. \A doc \in (IF present THEN Parsed(parts) ELSE {"error"}) :
         doc \in Document \/ doc = "error"
  BY <1>3, ParsedType
<1>. QED  BY <1>1, <1>2, <1>4 DEF Subapp

LEMMA BootStepInv ==
  ASSUME BootInv, NEW w \in Worker, BootStep(w)
  PROVE  BootInv'
<1>. USE DEF BootInv
<1>f. FileTypeOK
  BY DEF StartupTypeOK
<1>1. CASE Boot(w)
  <2>1. StartupTypeOK'
    BY <1>1 DEF Boot, Start, Goto, Enter, StartupTypeOK, FileTypeOK, Quiet, Whole
  <2>2. InStep'
    BY <1>1, <1>f DEF Boot, Start, Goto, Enter, StartupTypeOK, FileTypeOK, InStep
  <2>3. Decided'
    BY <1>1 DEF Boot, Enter, StartupTypeOK, Decided, AuthMode, McpRefused,
                McpAuthenticated
  <2>. QED  BY <2>1, <2>2, <2>3
<1>2. CASE EnsureFile(w)
  <2>1. FileTypeOK'
    BY <1>2, <1>f DEF EnsureFile, Ensure, Check, Touch, Open, Generate, WriteHead,
       WriteTail, WriteBlock, Truncate, Goto, FileTypeOK
  <2>2. gen'[w] # "stopped" /\ \A v \in Worker \ {w} : gen'[v] = gen[v]
    BY <1>2, <1>f DEF EnsureFile, Ensure, Check, Touch, Open, Generate, WriteHead,
       WriteTail, Goto, FileTypeOK
  <2>3. StartupTypeOK'
    BY <1>2, <2>1 DEF EnsureFile, StartupTypeOK
  <2>4. InStep'
    BY <1>2, <2>2 DEF EnsureFile, InStep
  <2>5. Decided'
    BY <1>2 DEF EnsureFile, Decided, AuthMode, McpRefused, McpAuthenticated
  <2>. QED  BY <2>3, <2>4, <2>5
<1>3. CASE EnsureReturns(w)
  <2>1. StartupTypeOK'
    BY <1>3 DEF EnsureReturns, Enter, StartupTypeOK, FileTypeOK
  <2>2. InStep'
    BY <1>3 DEF EnsureReturns, Enter, StartupTypeOK, InStep
  <2>3. Decided'
    BY <1>3 DEF EnsureReturns, Enter, StartupTypeOK, Decided, AuthMode, McpRefused,
                McpAuthenticated
  <2>. QED  BY <2>1, <2>2, <2>3
<1>4. CASE SpecMissing(w)
  <2>1. StartupTypeOK'
    BY <1>4 DEF SpecMissing, Enter, StartupTypeOK, FileTypeOK
  <2>2. InStep'
    BY <1>4 DEF SpecMissing, Enter, StartupTypeOK, InStep
  <2>3. Decided'
    BY <1>4 DEF SpecMissing, Enter, StartupTypeOK, Decided, AuthMode, McpRefused,
                McpAuthenticated
  <2>. QED  BY <2>1, <2>2, <2>3
<1>5. CASE LoadSpec(w)
  <2>1. PICK doc \in Parsed(parts) :
           IF doc = "error"
           THEN Refuse(w)
           ELSE /\ tools' = [tools EXCEPT ![w] = doc]
                /\ Enter(w, "client")
                /\ UNCHANGED <<fileVars, oapi, mcp, gate, clean>>
    BY <1>5 DEF LoadSpec
  <2>2. CASE doc = "error"
    BY <2>1, <2>2, <1>5, RefuseInv DEF LoadSpec
  <2>3. CASE doc # "error"
    <3>1. doc \in Document
      BY <2>3, <1>f, ParsedType DEF FileTypeOK
    <3>2. StartupTypeOK'
      <4>1. /\ stage' = [stage EXCEPT ![w] = "client"]
            /\ tools' = [tools EXCEPT ![w] = doc]
            /\ UNCHANGED <<fileVars, conf, oapi, mcp, gate, clean>>
        BY <1>5, <2>1, <2>3 DEF LoadSpec, Enter
      <4>2. FileTypeOK'
        BY <4>1, <1>f DEF FileTypeOK
      <4>. QED  BY <4>1, <4>2, <3>1 DEF StartupTypeOK
    <3>3. InStep'
      BY <1>5, <2>1, <2>3 DEF LoadSpec, Enter, StartupTypeOK, InStep
    <3>4. Decided'
      BY <1>5, <2>1, <2>3 DEF LoadSpec, Enter, StartupTypeOK, Decided, AuthMode,
         McpRefused, McpAuthenticated
    <3>. QED  BY <3>2, <3>3, <3>4
  <2>. QED  BY <2>2, <2>3
<1>6. CASE BuildClient(w)
  BY <1>6, SubappInv DEF BuildClient
<1>7. CASE BuildMcp(w)
  <2>1. CASE McpRefused \/ tools[w] = "nothing"
    BY <1>7, <2>1, RefuseInv DEF BuildMcp
  <2>2. CASE ~(McpRefused \/ tools[w] = "nothing")
    <3>1. StartupTypeOK'
      <4>1. /\ stage' = [stage EXCEPT ![w] = "app"]
            /\ mcp' = [mcp EXCEPT ![w] = IF McpAuthenticated THEN "oidc" ELSE "open"]
            /\ UNCHANGED <<fileVars, conf, tools, oapi, gate, clean>>
        BY <1>7, <2>2 DEF BuildMcp, Enter
      <4>2. FileTypeOK'
        BY <4>1, <1>f DEF FileTypeOK
      <4>. QED  BY <4>1, <4>2 DEF StartupTypeOK
    <3>2. InStep'
      BY <1>7, <2>2 DEF BuildMcp, Enter, StartupTypeOK, InStep
    <3>3. Decided'
      BY <1>7, <2>2 DEF BuildMcp, Enter, StartupTypeOK, Decided, AuthMode,
         McpRefused, McpAuthenticated
    <3>. QED  BY <3>1, <3>2, <3>3
  <2>. QED  BY <2>1, <2>2
<1>8. CASE AppSubapp(w)
  BY <1>8, SubappInv DEF AppSubapp
<1>9. CASE CreateApp(w)
  <2>1. CASE AuthMode = "refused"
    BY <1>9, <2>1, RefuseInv DEF CreateApp
  <2>2. CASE AuthMode # "refused"
    <3>1. AuthMode \in Gate
      BY <2>2, AuthModeType
    <3>2. StartupTypeOK'
      <4>1. /\ stage' = [stage EXCEPT ![w] = "serving"]
            /\ gate' = [gate EXCEPT ![w] = AuthMode]
            /\ UNCHANGED <<fileVars, conf, tools, oapi, mcp, clean>>
        BY <1>9, <2>2 DEF CreateApp, Enter
      <4>2. FileTypeOK'
        BY <4>1, <1>f DEF FileTypeOK
      <4>. QED  BY <4>1, <4>2, <3>1 DEF StartupTypeOK
    <3>3. InStep'
      BY <1>9, <2>2 DEF CreateApp, Enter, StartupTypeOK, InStep
    <3>4. AuthMode' = AuthMode
      BY <1>9 DEF CreateApp, AuthMode
    <3>5. Decided'
      BY <1>9, <2>2, <3>4 DEF CreateApp, Enter, StartupTypeOK, Decided,
         McpRefused, McpAuthenticated
    <3>. QED  BY <3>2, <3>3, <3>5
  <2>. QED  BY <2>1, <2>2
<1>. QED
  BY <1>1, <1>2, <1>3, <1>4, <1>5, <1>6, <1>7, <1>8, <1>9 DEF BootStep

LEMMA BootNextInv == BootInv /\ [StartupNext]_vars => BootInv'
<1>. SUFFICES ASSUME BootInv, [StartupNext]_vars PROVE BootInv'
  OBVIOUS
<1>1. ASSUME NEW w \in Worker, BootStep(w) PROVE BootInv'
  BY <1>1, BootStepInv
<1>2. ASSUME NEW w \in Worker, Crash(w) PROVE BootInv'
  BY <1>2, RefuseInv DEF Crash
<1>3. CASE RemoveFile
  <2>1. FileTypeOK'
    BY <1>3 DEF RemoveFile, Remove, BootInv, StartupTypeOK, FileTypeOK
  <2>2. StartupTypeOK'
    BY <1>3, <2>1 DEF RemoveFile, BootInv, StartupTypeOK
  <2>3. InStep'
    BY <1>3 DEF RemoveFile, Remove, BootInv, InStep
  <2>4. Decided'
    BY <1>3 DEF RemoveFile, BootInv, Decided, AuthMode, McpRefused, McpAuthenticated
  <2>. QED  BY <2>2, <2>3, <2>4 DEF BootInv
<1>4. CASE UNCHANGED vars
  BY <1>4 DEF BootInv, StartupTypeOK, FileTypeOK, InStep, Decided, AuthMode,
     McpRefused, McpAuthenticated, fileVars
<1>. QED  BY <1>1, <1>2, <1>3, <1>4 DEF StartupNext

(* Type correctness, and what each worker serves follows from the            *)
(* configuration.                                                            *)
THEOREM StartupInvariant == StartupSpec => []BootInv
  BY BootInitInv, BootNextInv, PTL DEF StartupSpec

-----------------------------------------------------------------------------
(* A serving worker guards pygeoapi with exactly the mode asked for.         *)
THEOREM OneGateCorrect == StartupSpec => []OneGate
<1>1. BootInv => OneGate
  <2>. SUFFICES ASSUME BootInv, NEW w \in Worker, stage[w] = "serving"
                PROVE  Enabled = IF gate[w] = "none" THEN {} ELSE {gate[w]}
    BY DEF OneGate
  <2>1. gate[w] = AuthMode /\ AuthMode # "refused"
    BY DEF BootInv, Decided
  <2>2. /\ "opa" \in Enabled <=> conf["opa"]
        /\ "jwks" \in Enabled <=> conf["jwks"]
        /\ "apiKey" \in Enabled <=> conf["apiKey"]
        /\ Enabled \subseteq {"opa", "jwks", "apiKey"}
    BY DEF Enabled
  <2>. QED  BY <2>1, <2>2 DEF AuthMode
<1>. QED  BY <1>1, StartupInvariant, PTL

(* With an authentication mode enabled, pygeoapi is open to anyone only by   *)
(* the operator's opt-in.                                                    *)
THEOREM OpenOnlyByChoiceCorrect == StartupSpec => []OpenOnlyByChoice
<1>1. BootInv /\ OneGate => OpenOnlyByChoice
  <2>. SUFFICES ASSUME BootInv, OneGate, NEW w \in Worker, ReachableByAnyone(w),
                       Enabled # {}
                PROVE  gate[w] # "none" /\ conf["withMcp"] /\ conf["anon"]
    BY DEF OpenOnlyByChoice
  <2>1. gate[w] # "none"
    BY DEF OneGate, ReachableByAnyone
  <2>2. mcp[w] = "open"
    BY <2>1 DEF ReachableByAnyone
  <2>. QED  BY <2>1, <2>2 DEF BootInv, Decided, McpRefused
<1>. QED  BY <1>1, StartupInvariant, OneGateCorrect, PTL

-----------------------------------------------------------------------------
(* The boots of a deployment use the file as OpenApiFile says: what is       *)
(* proved of the file holds of every deployment.                             *)
THEOREM StartupImplementsFile == StartupSpec => FileSpec
<1>1. StartupInit => FileInit
  BY DEF StartupInit
<1>2. BootInv /\ [StartupNext]_vars => [FileNext]_fileVars
  <2>. SUFFICES ASSUME BootInv, [StartupNext]_vars PROVE [FileNext]_fileVars
    OBVIOUS
  <2>1. ASSUME NEW w \in Worker, Refuse(w), MayStop \/ gen[w] = "settled"
        PROVE  FileNext
    BY <2>1 DEF Refuse, FileNext
  <2>2. ASSUME NEW w \in Worker, BootStep(w) PROVE [FileNext]_fileVars
    <3>1. CASE Boot(w) \/ EnsureFile(w)
      BY <3>1 DEF Boot, EnsureFile, FileNext
    <3>2. CASE EnsureReturns(w) \/ SpecMissing(w)
      BY <3>2 DEF EnsureReturns, SpecMissing
    <3>3. CASE LoadSpec(w)
      BY <3>3, <2>1 DEF LoadSpec, BootInv, InStep
    <3>4. CASE BuildClient(w)
      BY <3>4, <2>1 DEF BuildClient, Subapp, BootInv, InStep
    <3>5. CASE BuildMcp(w)
      BY <3>5, <2>1 DEF BuildMcp, BootInv, InStep
    <3>6. CASE AppSubapp(w)
      BY <3>6, <2>1 DEF AppSubapp, Subapp, BootInv, InStep
    <3>7. CASE CreateApp(w)
      BY <3>7, <2>1 DEF CreateApp, BootInv, InStep
    <3>. QED  BY <2>2, <3>1, <3>2, <3>3, <3>4, <3>5, <3>6, <3>7 DEF BootStep
  <2>3. ASSUME NEW w \in Worker, Crash(w) PROVE FileNext
    BY <2>3, <2>1 DEF Crash
  <2>4. CASE RemoveFile
    BY <2>4 DEF RemoveFile, FileNext
  <2>5. CASE UNCHANGED vars
    BY <2>5
  <2>. QED  BY <2>2, <2>3, <2>4, <2>5 DEF StartupNext
<1>. QED  BY <1>1, <1>2, StartupInvariant, PTL DEF StartupSpec, FileSpec

(* After any race of booting workers the file is complete, unless one of     *)
(* them stopped half-way and nobody truncated the file after it.             *)
THEOREM StartupFileCorrect == StartupSpec => []QuietFileIsWhole
  BY StartupImplementsFile, QuietFileCorrect, PTL
-----------------------------------------------------------------------------
(* What a worker that booted on a complete file holds at each stage, and why *)
(* it could not be otherwise: the file has stayed as it was.                 *)
CleanFile == (\E w \in Worker : clean[w]) => Quiet /\ Whole

CleanWorker(w) ==
    /\ oapi[w] \in {"unread", "whole"}
    /\ stage[w] \in {"tools", "serving"} => oapi[w] = "whole"
    /\ stage[w] \in {"client", "tools"} => tools[w] = "whole"
    /\ stage[w] \in {"app", "serving"} /\ conf["withMcp"] =>
          mcp[w] # "off" /\ tools[w] = "whole"

CleanInv == CleanFile /\ \A w \in Worker : clean[w] => CleanWorker(w)

(* A complete file that nobody is generating stays so while workers boot,    *)
(* run and end.                                                              *)
LEMMA QuietWholeStable ==
  ASSUME FileTypeOK, Quiet, Whole, NEW w \in Worker, Start(w) \/ Ensure(w) \/ Stop(w)
  PROVE  Quiet' /\ Whole'
  BY DEF FileTypeOK, Quiet, Whole, Start, Ensure, Check, Touch, Open, Generate,
         WriteHead, WriteTail, Stop, Goto

(* A complete file is read as the complete document.                         *)
LEMMA WholeIsReadWhole ==
  ASSUME Whole, NEW doc \in Parsed(parts)
  PROVE  doc = "whole"
  BY DEF Whole, Parsed

LEMMA RefuseClean ==
  ASSUME BootInv, CleanInv, NEW w \in Worker, Refuse(w), UNCHANGED conf
  PROVE  CleanInv'
<1>. USE DEF BootInv, StartupTypeOK, Refuse, Forget, Enter
<1>1. \A v \in Worker : clean'[v] => v # w /\ clean[v]
  OBVIOUS
<1>2. CleanFile'
  BY <1>1, QuietWholeStable DEF CleanInv, CleanFile
<1>3. \A v \in Worker : clean'[v] => CleanWorker(v)'
  BY <1>1 DEF CleanInv, CleanWorker
<1>. QED  BY <1>2, <1>3 DEF CleanInv

LEMMA BootStepClean ==
  ASSUME BootInv, CleanInv, NEW w \in Worker, BootStep(w)
  PROVE  CleanInv'
<1>. USE DEF BootInv, StartupTypeOK
<1>o. ASSUME UNCHANGED <<fileVars, conf, clean>>,
             \A v \in Worker \ {w} : UNCHANGED <<stage[v], tools[v], oapi[v], mcp[v]>>,
             clean[w] => CleanWorker(w)'
      PROVE  CleanInv'
  BY <1>o DEF CleanInv, CleanFile, CleanWorker, Quiet, Whole
<1>1. CASE Boot(w)
  <2>1. \A v \in Worker \ {w} : clean'[v] => clean[v]
    BY <1>1 DEF Boot
  <2>2. clean'[w] => Quiet /\ Whole
    BY <1>1 DEF Boot
  <2>3. CleanFile'
    BY <1>1, <2>1, <2>2, QuietWholeStable DEF Boot, CleanInv, CleanFile
  <2>4. oapi[w] = "unread"
    BY <1>1 DEF Boot, Decided
  <2>5. \A v \in Worker : clean'[v] => CleanWorker(v)'
    BY <1>1, <2>1, <2>4 DEF Boot, Enter, CleanInv, CleanWorker
  <2>. QED  BY <2>3, <2>5 DEF CleanInv
<1>2. CASE EnsureFile(w)
  <2>1. CleanFile'
    BY <1>2, QuietWholeStable DEF EnsureFile, CleanInv, CleanFile
  <2>2. \A v \in Worker : clean'[v] => CleanWorker(v)'
    BY <1>2 DEF EnsureFile, CleanInv, CleanWorker
  <2>. QED  BY <2>1, <2>2 DEF CleanInv
<1>3. CASE EnsureReturns(w)
  BY <1>3, <1>o DEF EnsureReturns, Enter, CleanInv, CleanWorker
<1>4. CASE SpecMissing(w)
  <2>1. ~clean[w]
    BY <1>4 DEF SpecMissing, CleanInv, CleanFile, Whole
  <2>. QED  BY <1>4, <1>o, <2>1 DEF SpecMissing, Enter
<1>5. CASE LoadSpec(w)
  <2>1. PICK doc \in Parsed(parts) :
           IF doc = "error"
           THEN Refuse(w)
           ELSE /\ tools' = [tools EXCEPT ![w] = doc]
                /\ Enter(w, "client")
                /\ UNCHANGED <<fileVars, oapi, mcp, gate, clean>>
    BY <1>5 DEF LoadSpec
  <2>2. CASE doc = "error"
    BY <2>1, <2>2, <1>5, RefuseClean DEF LoadSpec
  <2>3. CASE doc # "error"
    <3>1. clean[w] => doc = "whole"
      BY WholeIsReadWhole DEF CleanInv, CleanFile
    <3>. QED  BY <1>5, <2>1, <2>3, <3>1, <1>o DEF LoadSpec, Enter, CleanInv, CleanWorker
  <2>. QED  BY <2>2, <2>3
<1>s. ASSUME NEW next \in {"tools", "app"}, Subapp(w, next), UNCHANGED conf,
             next = "tools" => stage[w] = "client",
             next = "app" => stage[w] = "app"
      PROVE  CleanInv'
  <2>1. CASE oapi[w] # "unread"
    BY <1>s, <1>o, <2>1 DEF Subapp, Enter, CleanInv, CleanWorker
  <2>2. CASE oapi[w] = "unread"
    <3>1. PICK doc \in (IF present THEN Parsed(parts) ELSE {"error"}) :
             IF doc = "error"
             THEN Refuse(w)
             ELSE /\ oapi' = [oapi EXCEPT ![w] = doc]
                  /\ Enter(w, next)
                  /\ UNCHANGED <<fileVars, tools, mcp, gate, clean>>
      BY <1>s, <2>2 DEF Subapp
    <3>2. CASE doc = "error"
      BY <3>1, <3>2, <1>s, RefuseClean
    <3>3. CASE doc # "error"
      <4>1. clean[w] => doc = "whole"
        <5>1. clean[w] => Whole
          BY DEF CleanInv, CleanFile
        <5>2. doc \in Parsed(parts)
          BY <3>3
        <5>. QED  BY <5>1, <5>2, WholeIsReadWhole
      <4>. QED  BY <1>s, <3>1, <3>3, <4>1, <1>o DEF Enter, CleanInv, CleanWorker
    <3>. QED  BY <3>2, <3>3
  <2>. QED  BY <2>1, <2>2
<1>6. CASE BuildClient(w)
  BY <1>6, <1>s DEF BuildClient
<1>7. CASE BuildMcp(w)
  <2>1. CASE McpRefused \/ tools[w] = "nothing"
    BY <1>7, <2>1, RefuseClean DEF BuildMcp
  <2>2. CASE ~(McpRefused \/ tools[w] = "nothing")
    BY <1>7, <2>2, <1>o DEF BuildMcp, Enter, CleanInv, CleanWorker
  <2>. QED  BY <2>1, <2>2
<1>8. CASE AppSubapp(w)
  BY <1>8, <1>s DEF AppSubapp
<1>9. CASE CreateApp(w)
  <2>1. CASE AuthMode = "refused"
    BY <1>9, <2>1, RefuseClean DEF CreateApp
  <2>2. CASE AuthMode # "refused"
    BY <1>9, <2>2, <1>o DEF CreateApp, Enter, CleanInv, CleanWorker
  <2>. QED  BY <2>1, <2>2
<1>. QED
  BY <1>1, <1>2, <1>3, <1>4, <1>5, <1>6, <1>7, <1>8, <1>9 DEF BootStep

(* A worker that boots on a complete file serves the complete document, as   *)
(* /openapi and as MCP tools, whatever the other workers do meanwhile.       *)
THEOREM CleanBootCorrect == StartupSpec => []CleanBootServesWhole
<1>1. StartupInit => CleanInv
  BY DEF StartupInit, CleanInv, CleanFile
<1>2. BootInv /\ CleanInv /\ [StartupNext]_vars => CleanInv'
  <2>. SUFFICES ASSUME BootInv, CleanInv, [StartupNext]_vars PROVE CleanInv'
    OBVIOUS
  <2>1. ASSUME NEW w \in Worker, BootStep(w) PROVE CleanInv'
    BY <2>1, BootStepClean
  <2>2. ASSUME NEW w \in Worker, Crash(w) PROVE CleanInv'
    BY <2>2, RefuseClean DEF Crash
  <2>3. CASE RemoveFile
    BY <2>3 DEF RemoveFile, CleanInv, CleanFile
  <2>4. CASE UNCHANGED vars
    BY <2>4 DEF CleanInv, CleanFile, CleanWorker, Quiet, Whole
  <2>. QED  BY <2>1, <2>2, <2>3, <2>4 DEF StartupNext
<1>3. BootInv /\ CleanInv => CleanBootServesWhole
  BY DEF BootInv, Decided, CleanInv, CleanWorker, CleanBootServesWhole
<1>. QED  BY <1>1, <1>2, <1>3, StartupInvariant, PTL DEF StartupSpec
-----------------------------------------------------------------------------
(* Types of start-up, whatever the workers and their configurations.         *)
THEOREM StartupTypeCorrect == StartupSpec => []StartupTypeOK
<1>1. BootInv => StartupTypeOK
  BY DEF BootInv
<1>. QED  BY <1>1, StartupInvariant, PTL

(* Unless somebody deletes it, the file is there for who has opened or found *)
(* it, and a worker that was to have MCP has it.                             *)
Kept ==
    ~MayRemove =>
        \A w \in Worker :
            /\ gen[w] \notin {"stopped", "check", "touch"} => present
            /\ stage[w] \in {"app", "serving"} /\ conf["withMcp"] => mcp[w] # "off"

LEMMA RefuseKept ==
  ASSUME BootInv, Kept, NEW w \in Worker, Refuse(w), UNCHANGED conf
  PROVE  Kept'
  BY DEF BootInv, StartupTypeOK, FileTypeOK, Kept, Refuse, Stop, Forget, Enter, Goto

LEMMA SubappKept ==
  ASSUME BootInv, Kept, UNCHANGED conf, NEW w \in Worker, NEW next \in {"tools", "app"},
         Subapp(w, next), next = "app" => stage[w] = "app"
  PROVE  Kept'
<1>1. CASE Refuse(w)
  BY <1>1, RefuseKept
<1>2. CASE Enter(w, next) /\ UNCHANGED <<fileVars, mcp>>
  BY <1>2 DEF BootInv, StartupTypeOK, Kept, Enter
<1>. QED  BY <1>1, <1>2 DEF Subapp

LEMMA BootStepKept ==
  ASSUME BootInv, Kept, NEW w \in Worker, BootStep(w)
  PROVE  Kept'
<1>. USE DEF BootInv, StartupTypeOK, FileTypeOK
<1>1. CASE Boot(w)
  BY <1>1 DEF Boot, Start, Goto, Enter, Kept
<1>2. CASE EnsureFile(w)
  BY <1>2 DEF EnsureFile, Ensure, Check, Touch, Open, Truncate, Generate, WriteHead,
              WriteTail, Goto, Kept
<1>3. CASE EnsureReturns(w)
  BY <1>3 DEF EnsureReturns, Enter, Kept
<1>4. CASE SpecMissing(w)
  <2>1. gen[w] = "settled"
    BY <1>4 DEF SpecMissing, InStep
  <2>. QED  BY <1>4, <2>1 DEF SpecMissing, Enter, Kept
<1>5. CASE LoadSpec(w)
  <2>1. CASE Refuse(w)
    BY <1>5, <2>1, RefuseKept DEF LoadSpec
  <2>2. CASE Enter(w, "client") /\ UNCHANGED <<fileVars, mcp>>
    BY <1>5, <2>2 DEF LoadSpec, Enter, Kept
  <2>. QED  BY <1>5, <2>1, <2>2 DEF LoadSpec
<1>6. CASE BuildClient(w)
  BY <1>6, SubappKept DEF BuildClient
<1>7. CASE BuildMcp(w)
  <2>1. CASE McpRefused \/ tools[w] = "nothing"
    BY <1>7, <2>1, RefuseKept DEF BuildMcp
  <2>2. CASE ~(McpRefused \/ tools[w] = "nothing")
    BY <1>7, <2>2 DEF BuildMcp, Enter, Kept
  <2>. QED  BY <2>1, <2>2
<1>8. CASE AppSubapp(w)
  BY <1>8, SubappKept DEF AppSubapp
<1>9. CASE CreateApp(w)
  <2>1. CASE AuthMode = "refused"
    BY <1>9, <2>1, RefuseKept DEF CreateApp
  <2>2. CASE AuthMode # "refused"
    BY <1>9, <2>2 DEF CreateApp, Enter, Kept
  <2>. QED  BY <2>1, <2>2
<1>. QED
  BY <1>1, <1>2, <1>3, <1>4, <1>5, <1>6, <1>7, <1>8, <1>9 DEF BootStep

(* No worker of an invalid deployment serves, unless the file was deleted    *)
(* between its looks at it, and then it serves without MCP.                  *)
THEOREM ServesOnlyAdmissibleCorrect == StartupSpec => []ServesOnlyAdmissible
<1>1. StartupInit => Kept
  BY DEF StartupInit, FileInit, Kept
<1>2. BootInv /\ Kept /\ [StartupNext]_vars => Kept'
  <2>. SUFFICES ASSUME BootInv, Kept, [StartupNext]_vars PROVE Kept'
    OBVIOUS
  <2>1. ASSUME NEW w \in Worker, Crash(w) PROVE Kept'
    BY <2>1, RefuseKept DEF Crash
  <2>2. CASE RemoveFile
    BY <2>2 DEF RemoveFile, Remove, Kept
  <2>3. CASE UNCHANGED vars
    BY <2>3 DEF Kept
  <2>. QED  BY <2>1, <2>2, <2>3, BootStepKept DEF StartupNext
<1>3. BootInv /\ Kept => ServesOnlyAdmissible
  <2>. SUFFICES ASSUME BootInv, Kept, NEW w \in Worker, stage[w] = "serving"
                PROVE  Admissible \/ (MayRemove /\ conf["withMcp"] /\ mcp[w] = "off")
    BY DEF ServesOnlyAdmissible
  <2>1. conf["paths"] /\ AuthMode # "refused" /\ (mcp[w] # "off" => ~McpRefused)
    BY DEF BootInv, Decided
  <2>2. /\ \A m, n \in Enabled : m = n
        /\ "apiKey" \in Enabled => conf["key"]
    BY <2>1 DEF Enabled, AuthMode
  <2>3. \/ conf["withMcp"] => conf["anon"] \/ McpAuthenticated
        \/ MayRemove /\ conf["withMcp"] /\ mcp[w] = "off"
    BY <2>1 DEF BootInv, StartupTypeOK, Kept, McpRefused
  <2>. QED  BY <2>1, <2>2, <2>3 DEF Admissible
<1>. QED  BY <1>1, <1>2, <1>3, StartupInvariant, PTL DEF StartupSpec
-----------------------------------------------------------------------------
(* Why only a race makes a worker ready without a document.                  *)
Sole == ~MayStop /\ \A v, w \in Worker : v = w

(* The one worker reads the file when it has returned from writing it.       *)
SoleInv ==
    /\ ~abandoned
    /\ \A w \in Worker : oapi[w] \in {"unread", "whole"} /\ tools[w] \in {"unread", "whole"}

LEMMA SoleReadsWhole ==
  ASSUME Sole, BootInv, SoleInv, QuietFileIsWhole, NEW w \in Worker,
         gen[w] = "settled", present, NEW doc \in Parsed(parts)
  PROVE  doc = "whole"
<1>1. Quiet
  BY DEF Sole, Quiet
<1>. QED  BY <1>1, WholeIsReadWhole DEF SoleInv, QuietFileIsWhole

LEMMA RefuseSole ==
  ASSUME BootInv, SoleInv, NEW w \in Worker, Refuse(w), gen[w] = "settled"
  PROVE  SoleInv'
<1>1. ~abandoned'
  BY DEF Refuse, Stop, Linked, SoleInv
<1>. QED  BY <1>1 DEF Refuse, Forget, BootInv, StartupTypeOK, SoleInv

LEMMA SubappSole ==
  ASSUME Sole, BootInv, SoleInv, QuietFileIsWhole, NEW w \in Worker, NEW next,
         Subapp(w, next), gen[w] = "settled"
  PROVE  SoleInv'
<1>1. CASE Refuse(w)
  BY <1>1, RefuseSole
<1>2. CASE oapi[w] # "unread" /\ UNCHANGED <<fileVars, tools, oapi>>
  BY <1>2 DEF SoleInv
<1>3. CASE \E doc \in (IF present THEN Parsed(parts) ELSE {"error"}) :
              /\ doc # "error" /\ oapi' = [oapi EXCEPT ![w] = doc]
              /\ UNCHANGED <<fileVars, tools>>
  <2>1. PICK doc \in Parsed(parts) :
           present /\ oapi' = [oapi EXCEPT ![w] = doc] /\ UNCHANGED <<fileVars, tools>>
    BY <1>3
  <2>2. doc = "whole"
    BY <2>1, SoleReadsWhole
  <2>. QED  BY <2>1, <2>2 DEF SoleInv, BootInv, StartupTypeOK
<1>. QED  BY <1>1, <1>2, <1>3 DEF Subapp

LEMMA BootStepSole ==
  ASSUME Sole, BootInv, SoleInv, QuietFileIsWhole, NEW w \in Worker, BootStep(w)
  PROVE  SoleInv'
<1>. USE DEF BootInv, StartupTypeOK
<1>1. CASE Boot(w)
  BY <1>1 DEF Boot, Start, SoleInv
<1>2. CASE EnsureFile(w)
  BY <1>2 DEF EnsureFile, Ensure, Check, Touch, Open, Truncate, Generate, WriteHead,
              WriteTail, SoleInv
<1>3. CASE EnsureReturns(w) \/ SpecMissing(w)
  BY <1>3 DEF EnsureReturns, SpecMissing, SoleInv
<1>4. CASE LoadSpec(w)
  <2>1. gen[w] = "settled"
    BY <1>4 DEF LoadSpec, InStep
  <2>2. PICK doc \in Parsed(parts) :
           IF doc = "error"
           THEN Refuse(w)
           ELSE tools' = [tools EXCEPT ![w] = doc] /\ UNCHANGED <<fileVars, oapi>>
    BY <1>4 DEF LoadSpec
  <2>3. doc = "whole"
    BY <1>4, <2>1, SoleReadsWhole DEF LoadSpec
  <2>. QED  BY <2>2, <2>3 DEF SoleInv
<1>5. CASE BuildClient(w)
  BY <1>5, SubappSole DEF BuildClient, InStep
<1>6. CASE BuildMcp(w)
  <2>1. CASE Refuse(w)
    BY <1>6, <2>1, RefuseSole DEF BuildMcp, InStep
  <2>2. CASE UNCHANGED <<fileVars, tools, oapi>>
    BY <2>2 DEF SoleInv
  <2>. QED  BY <1>6, <2>1, <2>2 DEF BuildMcp
<1>7. CASE AppSubapp(w)
  BY <1>7, SubappSole DEF AppSubapp, InStep
<1>8. CASE CreateApp(w)
  <2>1. CASE Refuse(w)
    BY <1>8, <2>1, RefuseSole DEF CreateApp, InStep
  <2>2. CASE UNCHANGED <<fileVars, tools, oapi>>
    BY <2>2 DEF SoleInv
  <2>. QED  BY <1>8, <2>1, <2>2 DEF CreateApp
<1>. QED
  BY <1>1, <1>2, <1>3, <1>4, <1>5, <1>6, <1>7, <1>8 DEF BootStep

(* The documentation of /readyz is true of a deployment of one worker that   *)
(* does not fail while it generates, however often the file is deleted.      *)
THEOREM SoleWorkerReady ==
  ASSUME ~MayStop, \A v, w \in Worker : v = w
  PROVE  StartupSpec => []ReadyMeansDocument
<1>. Sole
  BY DEF Sole
<1>1. StartupInit => SoleInv
  BY DEF StartupInit, FileInit, SoleInv
<1>2. BootInv /\ QuietFileIsWhole /\ SoleInv /\ [StartupNext]_vars => SoleInv'
  <2>. SUFFICES ASSUME BootInv, QuietFileIsWhole, SoleInv, [StartupNext]_vars PROVE SoleInv'
    OBVIOUS
  <2>1. CASE RemoveFile
    BY <2>1 DEF RemoveFile, Remove, SoleInv
  <2>2. CASE UNCHANGED vars
    BY <2>2 DEF SoleInv
  <2>. QED  BY <2>1, <2>2, BootStepSole DEF StartupNext, Crash
<1>3. SoleInv => ReadyMeansDocument
  BY DEF SoleInv, ReadyMeansDocument
<1>. QED  BY <1>1, <1>2, <1>3, StartupInvariant, StartupFileCorrect, PTL DEF StartupSpec

=============================================================================
