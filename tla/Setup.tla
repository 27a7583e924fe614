-------------------------------- MODULE Setup --------------------------------
(***************************************************************************)
(* The way of a configuration: `oak setup` (cmd_setup.py, manifest.py,     *)
(* manifest.json) writes three files one after another; the user edits     *)
(* oak.yaml, sets environment variables and installs extras; the loader    *)
(* (yaml_config.py) reads the file, builds the backends section by section *)
(* and calls configure() (configure.py).  Wizard and loader are processes  *)
(* of their own.  Names of environment variables are model values; what    *)
(* the three files say beside names, kinds and extras is left out, and so  *)
(* is the output directory's confirmation.                                 *)
(***************************************************************************)
EXTENDS Naturals

CONSTANTS
    UrlNames,   \* names a user types for the variables with Redis URLs
    E2BKey, StasoKey,   \* ... and with API keys
    Picks,      \* bound: the selections made in the wizard
    MaxChanges, \* bound: runs of the wizard and edits
    Nothing

VARIABLES
    disk,       \* oak.yaml, pyproject_snippet.toml, .env.example
    writing,    \* what the running wizard has yet to write
    changes,
    config,     \* the _Config singleton
    loading,    \* configure_from_yaml()'s locals while it runs, NotLoading else
    outcome     \* of configure_from_yaml(), if it has just ended

vars == <<disk, writing, changes, config, loading, outcome>>

Names == UrlNames \cup {E2BKey, StasoKey}
Extras == {"e2b", "redis", "staso", "openhands"}
Files == {"yaml", "pyproject", "env"}

Section(kind, ref) == [kind |-> kind, ref |-> ref]

-----------------------------------------------------------------------------
(* The wizard's five questions. *)

Workspaces == {Section("local", Nothing), Section("e2b", E2BKey)}
StateStores == {Section("in_memory", Nothing), Section("custom", Nothing)}
               \cup {Section("redis", n) : n \in UrlNames}
Traces == {Section("none", Nothing), Section("staso", StasoKey)}

\* redis_shared is offered with a Redis state store only; who picks it and
\* does not want the same client is asked for another name.
Leases(store) ==
    {Section(k, Nothing) : k \in {"in_memory", "none", "custom"}}
    \cup {Section("redis_separate", n) : n \in UrlNames}
    \cup (IF store.kind = "redis" THEN {Section("redis_shared", store.ref)} ELSE {})

Selections ==
    UNION {[workspace : Workspaces, state_store : {store}, lease : Leases(store),
            tracing : Traces] : store \in StateStores}

(* What it renders of them. *)

\* _lease_block(): both Redis choices become kind redis.
LeaseBlock(lease) ==
    IF lease.kind \in {"redis_shared", "redis_separate"}
    THEN Section("redis", lease.ref)
    ELSE lease

OakYaml(sel) ==
    [workspace |-> sel.workspace, state_store |-> sel.state_store,
     lease |-> LeaseBlock(sel.lease), tracing |-> sel.tracing,
     framework |-> Section("openhands", Nothing)]

\* Mutant: redis_separate has no extra, like redis_shared.
SelectedExtrasOfStore(sel) ==
    {"openhands", sel.workspace.kind, sel.state_store.kind, sel.tracing.kind} \cap Extras

\* _gather_extras(): the store brings the extra that redis_shared needs.
SelectedExtras(sel) ==
    {x \in Extras :
        \/ x \in {"openhands", sel.workspace.kind, sel.state_store.kind, sel.tracing.kind}
        \/ x = "redis" /\ sel.lease.kind = "redis_separate"}

\* _gather_env(): redis_shared brings no variable of its own.
SelectedNames(sel) ==
    LET named == {sel.workspace, sel.state_store, sel.tracing}
                 \cup (IF sel.lease.kind = "redis_separate" THEN {sel.lease} ELSE {})
    IN  {section.ref : section \in named} \ {Nothing}

\* Nothing is no name, no section's name and nothing that the wizard writes.
ASSUME SetupAssumption ==
    /\ Nothing \notin Names
    /\ Nothing # "state_store"
    /\ \A sel \in Selections :
          Nothing \notin {OakYaml(sel)} \cup {OakYaml(sel)[s] : s \in DOMAIN OakYaml(sel)}

Bundle(sel) ==
    [yaml |-> OakYaml(sel), pyproject |-> SelectedExtras(sel), env |-> SelectedNames(sel)]

File(content, sel) == [content |-> content, of |-> sel]
NoFile == File(Nothing, Nothing)

-----------------------------------------------------------------------------
(* The loader, in a deployment d: the environment variables that are set,   *)
(* the extras that are installed, and whether my_package.module is there.   *)

Ok == "ok"
OakConfigError == "OakConfigError"

\* _env()
Unset(name, d) == name = Nothing \/ name \notin d.env

\* _resolve_factory() and the call: an error of the factory's own goes through.
CustomError(d) ==
    CASE d.factories = "missing" -> OakConfigError
      [] d.factories = "raises" -> "factory"
      [] d.factories = "works" -> Ok

RedisError(section, d) ==
    IF Unset(section.ref, d) \/ "redis" \notin d.installed THEN OakConfigError ELSE Ok

\* _validate_workspace()
WorkspaceError(section, d) ==
    IF section.kind = "local" \/ (section.kind = "e2b" /\ ~Unset(section.ref, d))
    THEN Ok
    ELSE OakConfigError

\* _build_state_store()
StateStoreError(section, d) ==
    CASE section.kind = "in_memory" -> Ok
      [] section.kind = "redis" -> RedisError(section, d)
      [] section.kind = "postgres" -> "NotImplementedError"
      [] section.kind = "custom" -> CustomError(d)
      [] OTHER -> OakConfigError

\* _build_lease(); a ttl_seconds that is not numeric counts as a kind of its
\* own, "ttl".
LeaseError(section, d) ==
    CASE section.kind \in {"none", "in_memory"} -> Ok
      [] section.kind = "redis" -> RedisError(section, d)
      [] section.kind = "custom" -> CustomError(d)
      [] OTHER -> OakConfigError

\* _build_trace(): an extra that is missing raises StasoTraceSource's own
\* ImportError.
TraceError(section, d) ==
    CASE section.kind = "none" -> Ok
      [] section.kind = "staso" ->
            (IF Unset(section.ref, d) THEN OakConfigError
             ELSE IF "staso" \notin d.installed THEN "ImportError" ELSE Ok)
      [] section.kind = "otlp" -> "NotImplementedError"
      [] OTHER -> OakConfigError

\* Cannot be read or parsed, or has another version; or a section is missing
\* or no mapping.
Malformed(yaml) == yaml = Nothing \/ \E s \in DOMAIN yaml : yaml[s] = Nothing

Backend(kind, client) == [kind |-> kind, client |-> client]
NoBackend == Backend("none", Nothing)

-----------------------------------------------------------------------------
Unconfigured ==
    [state_store |-> NoBackend, lease |-> NoBackend, trace |-> "none",
     reconstructor |-> "default", notice |-> "default"]

\* redis_clients: which section made the client of a variable.
NoClients == [n \in UrlNames |-> Nothing]

NotLoading ==
    [at |-> "none", yaml |-> Nothing, of |-> Nothing, in |-> Nothing, found |-> Unconfigured,
     clients |-> NoClients, state_store |-> NoBackend, lease |-> NoBackend]

Init ==
    /\ disk = [f \in Files |-> NoFile]
    /\ writing = [files |-> {}, of |-> Nothing]
    /\ changes = 0
    /\ config = Unconfigured
    /\ loading = NotLoading
    /\ outcome = "none"

\* run_setup(), the questions answered and an overwrite confirmed.
RunSetup(sel) ==
    /\ writing.files = {}
    /\ changes < MaxChanges
    /\ changes' = changes + 1
    /\ writing' = [files |-> Files, of |-> sel]
    /\ outcome' = "none"
    /\ UNCHANGED <<disk, config, loading>>

\* write_bundle(): oak.yaml, then the pyproject snippet, then .env.example.
NextFile ==
    IF "yaml" \in writing.files THEN "yaml"
    ELSE IF "pyproject" \in writing.files THEN "pyproject" ELSE "env"

WriteFile ==
    /\ writing.files # {}
    /\ disk' = [disk EXCEPT ![NextFile] = File(Bundle(writing.of)[NextFile], writing.of)]
    /\ writing' = [writing EXCEPT !.files = @ \ {NextFile}]
    /\ outcome' = "none"
    /\ UNCHANGED <<changes, config, loading>>

\* The disk is full or the wizard is killed: the file at hand is cut off.
BreakOff ==
    /\ writing.files # {}
    /\ \E torn \in BOOLEAN :
           disk' = IF torn THEN [disk EXCEPT ![NextFile] = NoFile] ELSE disk
    /\ writing' = [writing EXCEPT !.files = {}]
    /\ outcome' = "none"
    /\ UNCHANGED <<changes, config, loading>>

\* oak.yaml by hand: a section is dropped or gets a kind the wizard has not.
Edit(s, kind) ==
    /\ writing.files = {}
    /\ disk["yaml"].content # Nothing
    /\ changes < MaxChanges
    /\ changes' = changes + 1
    /\ disk' = [disk EXCEPT !["yaml"] =
                   File([@.content EXCEPT ![s] =
                            IF kind = "dropped" THEN Nothing ELSE Section(kind, Nothing)],
                        Nothing)]
    /\ outcome' = "none"
    /\ UNCHANGED <<writing, config, loading>>

\* "Next steps" 2 and 3, taken from the files as they are: all of it, or one
\* thing forgotten.
Deployments ==
    LET listed(file) == IF disk[file] = NoFile THEN {} ELSE disk[file].content
        whole == [env |-> listed("env"), installed |-> listed("pyproject"),
                  factories |-> "works"]
    IN  {[whole EXCEPT !.factories = f] : f \in {"missing", "works", "raises"}}
        \cup {[whole EXCEPT !.env = @ \ {n}] : n \in whole.env}
        \cup {[whole EXCEPT !.installed = @ \ {x}] : x \in whole.installed}

-----------------------------------------------------------------------------
(* configure_from_yaml(), section by section. *)

\* It reads the file; found remembers the configuration it starts from.
Load(d) ==
    LET yaml == disk["yaml"].content IN
    /\ loading.at = "none"
    /\ IF Malformed(yaml)
       THEN outcome' = OakConfigError /\ UNCHANGED loading
       ELSE /\ outcome' = "none"
            /\ loading' = [NotLoading EXCEPT !.at = "workspace", !.yaml = yaml,
                                  !.of = disk["yaml"].of, !.in = d, !.found = config]
    /\ UNCHANGED <<disk, writing, changes, config>>

\* A section that raises ends the load: what was built before it is dropped.
SectionStep(section, error, built) ==
    /\ loading.at = section
    /\ \/ error = Ok /\ loading' = built /\ outcome' = "none"
       \/ error # Ok /\ loading' = NotLoading /\ outcome' = error
    /\ UNCHANGED <<disk, writing, changes>>

\* Nothing is made of the workspace section.
ValidateWorkspace ==
    /\ SectionStep("workspace", WorkspaceError(loading.yaml.workspace, loading.in),
                   [loading EXCEPT !.at = "state_store"])
    /\ UNCHANGED config

\* redis_clients.get(), and a new client where there is none.
ClientOf(section) ==
    LET name == loading.yaml[section].ref
    IN  IF loading.yaml[section].kind # "redis" THEN Nothing
        ELSE <<IF loading.clients[name] = Nothing THEN section ELSE loading.clients[name], name>>

WithStateStore ==
    LET client == ClientOf("state_store")
    IN  [loading EXCEPT
            !.at = "lease",
            !.state_store = Backend(loading.yaml.state_store.kind, client),
            !.clients = [n \in UrlNames |->
                            IF client = <<"state_store", n>> THEN "state_store" ELSE @[n]]]

\* Mutant: the store is applied as it is built.
BuildStateStoreApplied ==
    LET error == StateStoreError(loading.yaml.state_store, loading.in) IN
    /\ SectionStep("state_store", error, WithStateStore)
    /\ config' = IF error = Ok
                 THEN [config EXCEPT !.state_store = WithStateStore.state_store] ELSE config

BuildStateStore ==
    /\ SectionStep("state_store", StateStoreError(loading.yaml.state_store, loading.in),
                   WithStateStore)
    /\ UNCHANGED config

\* Mutant: the lease makes a client of its own.
BuildLeaseUncached ==
    /\ SectionStep("lease", LeaseError(loading.yaml.lease, loading.in),
                   [loading EXCEPT
                       !.at = "tracing",
                       !.lease = Backend(loading.yaml.lease.kind,
                                         <<"lease", loading.yaml.lease.ref>>)])
    /\ UNCHANGED config

\* The last section with clients: that the lease's is kept too is left out.
BuildLease ==
    /\ SectionStep("lease", LeaseError(loading.yaml.lease, loading.in),
                   [loading EXCEPT
                       !.at = "tracing",
                       !.lease = Backend(loading.yaml.lease.kind, ClientOf("lease"))])
    /\ UNCHANGED config

BuildTrace ==
    /\ SectionStep("tracing", TraceError(loading.yaml.tracing, loading.in),
                   [loading EXCEPT !.at = "configure"])
    /\ UNCHANGED config

\* configure() with what was built: the reconstructor is reset, the notices
\* are not.
Apply ==
    /\ loading.at = "configure"
    /\ config' = [state_store |-> loading.state_store, lease |-> loading.lease,
                  trace |-> loading.yaml.tracing.kind, reconstructor |-> "default",
                  notice |-> config.notice]
    /\ loading' = NotLoading
    /\ outcome' = Ok
    /\ UNCHANGED <<disk, writing, changes>>

LoadSteps == ValidateWorkspace \/ BuildStateStore \/ BuildLease \/ BuildTrace \/ Apply

\* The application calls configure() with a reconstructor, with or without
\* notices of its own.
Configure ==
    /\ loading.at = "none"
    /\ \E notice \in {config.notice, "own"} :
           config' = [Unconfigured EXCEPT !.reconstructor = "own", !.notice = notice]
    /\ outcome' = "none"
    /\ UNCHANGED <<disk, writing, changes, loading>>

\* _effective_state_store(): the default is made at the first use and kept.
UseStateStore ==
    /\ loading.at = "none"
    /\ config.state_store.kind = "none"
    /\ config' = [config EXCEPT !.state_store = Backend("in_memory", Nothing)]
    /\ outcome' = "none"
    /\ UNCHANGED <<disk, writing, changes, loading>>

EditedKinds == {"dropped", "redis", "e2b", "staso", "custom", "postgres", "otlp", "ttl"}

Next ==
    \/ \E sel \in Selections \cap Picks : RunSetup(sel)
    \/ WriteFile \/ BreakOff
    \/ \E s \in {"workspace", "state_store", "lease", "tracing", "framework"},
          kind \in EditedKinds : Edit(s, kind)
    \/ \E d \in Deployments : Load(d)
    \/ LoadSteps
    \/ Configure \/ UseStateStore

Spec == Init /\ [][Next]_vars

-----------------------------------------------------------------------------
LoadEnds == loading.at # "none" /\ loading'.at = "none"

\* The deployment follows to the letter what the wizard's run that wrote
\* oak.yaml puts into the other two files.
FollowedThrough ==
    /\ loading.of # Nothing
    /\ loading.in = [env |-> Bundle(loading.of).env, installed |-> Bundle(loading.of).pyproject,
                     factories |-> "works"]

(***************************************************************************)
(* "The menu is restricted to backends configure_from_yaml can construct   *)
(* on its own": whatever is picked, no section of the oak.yaml raises      *)
(* where the extras and the variables of the other two files are there.    *)
(***************************************************************************)
WizardBundlesLoad == [][LoadEnds /\ FollowedThrough => outcome' = Ok]_vars

(***************************************************************************)
(* "Missing env vars fail fast": a load ends well only where every         *)
(* variable that any section names is set; one that fails, by whichever    *)
(* error and after whatever sections were built, leaves the configuration  *)
(* it started from.                                                        *)
(***************************************************************************)
LoadFailsFast ==
    [][LoadEnds =>
           LET yaml == loading.yaml IN
           IF outcome' = Ok
           THEN {yaml[s].ref : s \in DOMAIN yaml} \ {Nothing} \subseteq loading.in.env
           ELSE config' = loading.found]_vars

(***************************************************************************)
(* The state store and the lease use one Redis client exactly when one     *)
(* variable was chosen for both, by redis_shared or by typing it twice,    *)
(* although oak.yaml calls both kind redis and the loader makes them in    *)
(* two steps.                                                              *)
(***************************************************************************)
SharedAsChosen ==
    [][LET sel == loading.of IN
       /\ LoadEnds /\ outcome' = Ok
       /\ sel # Nothing
       /\ sel.state_store.kind = "redis"
       /\ sel.lease.kind \in {"redis_shared", "redis_separate"}
       => ((config'.lease.client = config'.state_store.client)
            <=> (sel.lease.ref = sel.state_store.ref))]_vars
=============================================================================
