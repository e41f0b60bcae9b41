------------------------------- MODULE Startup -------------------------------
(***************************************************************************)
(* From the configuration to a runtime: what the command checks before it  *)
(* opens anything for good, and SecureRuntime.create(), which opens the    *)
(* workspace, registers the tools and closes what it opened when a step    *)
(* fails.  An embedding program calls create() alone, with tools of its    *)
(* own or the built-in ones.                                               *)
(***************************************************************************)
EXTENDS Naturals, Sequences, SequencesExt

CONSTANTS
  Configs,   \* configurations, see the comment on Issues
  Supplies,  \* sequences of tools an embedding program brings
  Valid,     \* names register() takes, of tools with scopes
  None

VARIABLES
  caller,    \* "cli" or "library"
  config,
  supplied,  \* options.tools, or None
  pc,        \* where the start is, "created" or "failed"
  handles,   \* file handles of the workspace: the command's "probe", the tool's "root"
  registry,  \* names registered
  audit,     \* the dispatcher: "none", "open" or "closed"
  told       \* what is reported of a failure: fields and areas of the configuration

startVars == <<caller, config, supplied, pc, handles, registry, audit, told>>

Init ==
  /\ caller \in {"cli", "library"} /\ config \in Configs
  /\ supplied \in IF caller = "cli" THEN {None} ELSE Supplies \cup {None}
  /\ pc = "start" /\ handles = {} /\ registry = {} /\ audit = "none" /\ told = {}

Goto(next) == pc' = next /\ UNCHANGED told
Fail(areas) == pc' = "failed" /\ told' = areas
Checked == UNCHANGED <<caller, config, supplied, handles, registry, audit>>
-----------------------------------------------------------------------------
\* A configuration has a transport, audit.maxPending, an http block ("none", with the
\* resource's path "mcp" or with "other"), an api block or not, whether a workspace was
\* chosen, the allowed tools, and the places that are wrong by themselves.  The blocks
\* are compared with each other only when nothing else is wrong but a URL.
Refined == {"http.jwksUrl", "api.url"}
Issues(c) ==
  c.wrong \cup {path \in {"audit.maxPending", "http", "http.resource"} :
    /\ c.wrong \subseteq Refined
    /\ \/ path = "audit.maxPending" /\ c.transport = "http" /\ c.maxPending < 3
       \/ path = "http" /\ c.transport = "http" /\ c.http = "none"
       \/ path = "http.resource" /\ c.http = "other"}

\* Only names of the schema's own fields are told; the rest is "config".
Fields == Refined \cup {"transport", "workspace", "limits.timeoutMs", "audit.maxPending",
                        "http", "http.resource"}
Diagnostic(issues) == {IF path \in Fields THEN path ELSE "config" : path \in issues}

\* The command's first checks: the version of Node, the arguments, the file.
Arguments ==
  /\ pc = "start" /\ caller = "cli"
  /\ \/ \E area \in {"version", "arguments", "config"} : Fail({area})
     \/ Goto("parse")
  /\ Checked

Parse ==
  /\ pc = "parse"
  /\ IF Issues(config) = {} THEN Goto("probe") ELSE Fail(Diagnostic(Issues(config)))
  /\ Checked

\* The workspace is opened to see whether it can be, and closed again.
Probe ==
  /\ pc = "probe" /\ handles = {}
  /\ IF "documents_read" \notin config.allowed THEN Goto("available") /\ UNCHANGED handles
     ELSE \/ Fail({"workspace"}) /\ UNCHANGED handles
          \/ config.workspace /\ Goto("probe") /\ handles' = {"probe"}
  /\ UNCHANGED <<caller, config, supplied, registry, audit>>

EndProbe ==
  /\ pc = "probe" /\ handles = {"probe"} /\ handles' = {}
  /\ Goto("available") \/ Fail({"workspace"})
  /\ UNCHANGED <<caller, config, supplied, registry, audit>>

BuiltIn == {"documents_read", "policy_status"} \cup (IF config.api THEN {"api_read"} ELSE {})
Available ==
  /\ pc = "available"
  /\ IF config.allowed \subseteq BuiltIn THEN Goto("create") ELSE Fail({"allowedTools"})
  /\ Checked
-----------------------------------------------------------------------------
\* create(): the version again for an embedding program, and the constructor, which
\* parses the configuration before it makes the dispatcher.
Construct ==
  /\ pc = (IF caller = "cli" THEN "create" ELSE "start")
  /\ \/ caller = "library" /\ Fail({"version"}) /\ UNCHANGED audit
     \/ IF Issues(config) = {} THEN Goto("documents") /\ audit' = "open"
        ELSE Fail(Issues(config)) /\ UNCHANGED audit
  /\ UNCHANGED <<caller, config, supplied, handles, registry>>

\* createDocumentTool(): the workspace may have gone since it was looked at.
OpenDocuments ==
  /\ pc = "documents"
  /\ IF supplied = None /\ "documents_read" \in config.allowed
     THEN \/ Goto("close") /\ UNCHANGED <<handles, registry>>
          \/ Goto("register") /\ handles' = {"root"} /\ registry' = {"documents_read"}
     ELSE Goto("register") /\ UNCHANGED <<handles, registry>>
  /\ UNCHANGED <<caller, config, supplied, audit>>

\* register() of each tool, which may stop at a name that is not valid or taken.
Accepted(tools) == \A i \in 1..Len(tools) :
  tools[i] \in Valid /\ \A j \in 1..(i - 1) : tools[j] # tools[i]
Register ==
  /\ pc = "register"
  /\ IF supplied = None
     THEN Goto("compare")
          /\ registry' = registry \cup (BuiltIn \ {"documents_read"})
     ELSE IF Accepted(supplied) THEN Goto("compare") /\ registry' = ToSet(supplied)
     ELSE Goto("close") /\ UNCHANGED registry
  /\ UNCHANGED <<caller, config, supplied, handles, audit>>

\* Every allowed tool must be registered.
Compare ==
  /\ pc = "compare"
  /\ Goto(IF config.allowed \subseteq registry THEN "created" ELSE "close")
  /\ Checked

\* The runtime is closed; when the handle's close fails, the audit stays.
Close ==
  /\ pc = "close" /\ Fail({"startup"})
  /\ handles' = {}
  /\ audit' = "closed" \/ (handles # {} /\ UNCHANGED audit)
  /\ UNCHANGED <<caller, config, supplied, registry>>

Next ==
  \/ Arguments \/ Parse \/ Probe \/ EndProbe \/ Available
  \/ Construct \/ OpenDocuments \/ Register \/ Compare \/ Close

Spec == Init /\ [][Next]_startVars
-----------------------------------------------------------------------------
\* A start leaves open the root of the documents tool and nothing else, and that only in
\* a runtime whose configuration agrees with itself and whose allowed tools are all
\* there; one that fails leaves nothing open, and the command then names no more than
\* fields of the schema (runtime.ts:57-97, cli.ts:69-97, startup-diagnostics.ts:49-79).
StartsWholeOrNotAtAll ==
  /\ pc = "created" =>
       /\ Issues(config) = {} /\ config.allowed \subseteq registry /\ audit = "open"
       /\ handles = IF supplied = None /\ "documents_read" \in config.allowed
                    THEN {"root"} ELSE {}
  /\ pc = "failed" =>
       /\ handles = {} /\ told # {}
       /\ audit = "open" => "documents_read" \in registry
       /\ caller = "cli" => told \cap config.wrong \subseteq Fields
=============================================================================
