---------------------------- MODULE Setup_proofs ----------------------------
(***************************************************************************)
(* The promises about a configuration, for any names: a file on disk is as *)
(* the wizard rendered it from one selection, or a hand or a crash has     *)
(* been on it; a variable is named only by a kind that resolves it; and a  *)
(* load has passed, and built, what lies behind the section it is at.      *)
(***************************************************************************)
EXTENDS Setup, TLAPS

(* A file that names its run says what that run rendered: files are written
   one by one, torn and edited, and what was torn or edited names no run. *)
AsRendered(f) ==
    disk[f].of # Nothing =>
        /\ disk[f].of \in Selections
        /\ disk[f].content = Bundle(disk[f].of)[f]

FilesInv ==
    /\ DOMAIN disk = Files
    /\ \A f \in Files : AsRendered(f)
    /\ writing = [files |-> writing.files, of |-> writing.of]
    /\ writing.files \subseteq Files
    /\ writing.files # {} => writing.of \in Selections

(* The kinds that name a variable, for each section. *)
Naming ==
    {<<"workspace", "e2b">>, <<"state_store", "redis">>, <<"lease", "redis">>,
     <<"tracing", "staso">>}

Sections == {"workspace", "state_store", "lease", "tracing", "framework"}

Shaped(yaml) ==
    /\ DOMAIN yaml = Sections
    /\ \A s \in Sections :
          yaml[s] # Nothing /\ yaml[s].ref # Nothing => <<s, yaml[s].kind>> \in Naming

YamlInv == disk["yaml"].content # Nothing => Shaped(disk["yaml"].content)

(* A running load has left the configuration alone, and its yaml is one that
   was on disk. *)
Loads ==
    loading.at # "none" =>
        /\ config = loading.found
        /\ Shaped(loading.yaml)
        /\ \A s \in Sections : loading.yaml[s] # Nothing
        /\ loading.of # Nothing => loading.of \in Selections /\ loading.yaml = OakYaml(loading.of)

(* What is behind the section it is at raised nothing. *)
Passed ==
    /\ loading.at \in {"state_store", "lease", "tracing", "configure"}
          => WorkspaceError(loading.yaml.workspace, loading.in) = Ok
    /\ loading.at \in {"lease", "tracing", "configure"}
          => StateStoreError(loading.yaml.state_store, loading.in) = Ok
    /\ loading.at \in {"tracing", "configure"}
          => LeaseError(loading.yaml.lease, loading.in) = Ok
    /\ loading.at = "configure" => TraceError(loading.yaml.tracing, loading.in) = Ok

(* Where Redis was chosen for both: which section made which client. *)
BothRedis(sel) ==
    /\ sel # Nothing
    /\ sel.state_store.kind = "redis"
    /\ sel.lease.kind \in {"redis_shared", "redis_separate"}

Clients ==
    BothRedis(loading.of) =>
        LET of == loading.of IN
        /\ loading.at \in {"workspace", "state_store"} => loading.clients = NoClients
        /\ loading.at \in {"lease", "tracing", "configure"} =>
              /\ loading.state_store.client = <<"state_store", of.state_store.ref>>
              /\ loading.clients = [n \in UrlNames |->
                                       IF n = of.state_store.ref THEN "state_store" ELSE Nothing]
        /\ loading.at \in {"tracing", "configure"} =>
              loading.lease.client =
                  <<IF of.lease.ref = of.state_store.ref THEN "state_store" ELSE "lease",
                    of.lease.ref>>

LoadInv == DOMAIN loading = DOMAIN NotLoading /\ Loads /\ Passed /\ Clients

IInv == FilesInv /\ YamlInv /\ LoadInv

-----------------------------------------------------------------------------
(* The invariant holds at the start and in every step. *)

(* No file is there and no wizard runs. *)
LEMMA InitIInv == Init => IInv
  BY DEF Init, IInv, FilesInv, YamlInv, LoadInv, Loads, Passed, Clients, BothRedis, NotLoading,
         AsRendered, NoFile, File, Files

(* The file the wizard writes next is one of those it has yet to write. *)
LEMMA NextFileIsLeft ==
  ASSUME FilesInv, writing.files # {}
  PROVE  NextFile \in writing.files /\ NextFile \in Files
  BY DEF FilesInv, NextFile, Files

(* A step that changes one file, to what a run rendered or to something that
   names no run, keeps the rest of them. *)
LEMMA OneFileChanges ==
  ASSUME FilesInv, NEW g \in Files, NEW new, disk' = [disk EXCEPT ![g] = new],
         new.of # Nothing => new.of \in Selections /\ new.content = Bundle(new.of)[g]
  PROVE  DOMAIN disk' = Files /\ \A f \in Files : AsRendered(f)'
<1>1. DOMAIN disk' = Files
  BY DEF FilesInv
<1>2. ASSUME NEW f \in Files PROVE AsRendered(f)'
  <2>1. CASE f = g
    <3>1. disk'[f] = new
      BY <2>1 DEF FilesInv
    <3> QED
      BY <3>1, <2>1 DEF AsRendered
  <2>2. CASE f # g
    <3>1. disk'[f] = disk[f]
      BY <2>2 DEF FilesInv
    <3> QED
      BY <3>1 DEF AsRendered, FilesInv
  <2> QED
    BY <2>1, <2>2
<1> QED
  BY <1>1, <1>2

(* The wizard, its crash, the editor and the loader keep the files as they
   were rendered. *)
LEMMA NextFilesInv == FilesInv /\ [Next]_vars => FilesInv'
<1> SUFFICES ASSUME FilesInv, [Next]_vars PROVE FilesInv'
  OBVIOUS
<1>1. ASSUME NEW sel \in Selections, RunSetup(sel) PROVE FilesInv'
  BY <1>1 DEF FilesInv, RunSetup, AsRendered
<1>2. CASE WriteFile
  <2>1. NextFile \in Files /\ writing.of \in Selections
    BY <1>2, NextFileIsLeft DEF FilesInv, WriteFile
  <2> DEFINE new == File(Bundle(writing.of)[NextFile], writing.of)
  <2>2. new.of = writing.of /\ new.content = Bundle(writing.of)[NextFile]
    BY DEF File
  <2>3. disk' = [disk EXCEPT ![NextFile] = new]
    BY <1>2 DEF WriteFile
  <2> HIDE DEF new
  <2>4. DOMAIN disk' = Files /\ \A f \in Files : AsRendered(f)'
    BY <2>1, <2>2, <2>3, OneFileChanges
  <2>5. writing' = [files |-> writing.files \ {NextFile}, of |-> writing.of]
    BY <1>2 DEF WriteFile, FilesInv
  <2> QED
    BY <2>1, <2>4, <2>5 DEF FilesInv
<1>3. CASE BreakOff
  <2>1. NextFile \in Files
    BY <1>3, NextFileIsLeft DEF BreakOff
  <2>2. NoFile.of = Nothing
    BY DEF NoFile, File
  <2>3. PICK torn \in BOOLEAN :
           disk' = IF torn THEN [disk EXCEPT ![NextFile] = NoFile] ELSE disk
    BY <1>3 DEF BreakOff
  <2>4. ASSUME torn PROVE DOMAIN disk' = Files /\ \A f \in Files : AsRendered(f)'
    BY <2>1, <2>2, <2>3, <2>4, OneFileChanges
  <2>5. DOMAIN disk' = Files /\ \A f \in Files : AsRendered(f)'
    BY <2>3, <2>4 DEF FilesInv, AsRendered
  <2>6. writing' = [files |-> {}, of |-> writing.of]
    BY <1>3 DEF BreakOff, FilesInv
  <2> QED
    BY <2>5, <2>6 DEF FilesInv
<1>4. ASSUME NEW s, NEW kind, Edit(s, kind) PROVE FilesInv'
  <2>1. PICK content : disk' = [disk EXCEPT !["yaml"] = File(content, Nothing)]
    BY <1>4 DEF Edit
  <2>2. File(content, Nothing).of = Nothing
    BY DEF File
  <2>3. DOMAIN disk' = Files /\ \A f \in Files : AsRendered(f)'
    BY <2>1, <2>2, OneFileChanges DEF Files
  <2> QED
    BY <1>4, <2>3 DEF FilesInv, Edit
<1>5. CASE UNCHANGED <<disk, writing>>
  BY <1>5 DEF FilesInv, AsRendered
<1>6. ASSUME NEW d, Load(d) PROVE FilesInv'
  BY <1>5, <1>6 DEF Load
<1>7. CASE LoadSteps
  BY <1>5, <1>7 DEF LoadSteps, SectionStep, ValidateWorkspace, BuildStateStore, BuildLease,
                    BuildTrace, Apply
<1>8. CASE Configure \/ UseStateStore \/ UNCHANGED vars
  BY <1>5, <1>8 DEF Configure, UseStateStore, vars
<1> QED
  BY <1>1, <1>2, <1>3, <1>4, <1>6, <1>7, <1>8 DEF Next

(* A selection has a workspace, a store, a lease and a tracing backend, and
   redis_shared only with the name of a Redis store. *)
LEMMA SelectionParts ==
  ASSUME NEW sel \in Selections
  PROVE  /\ sel.workspace \in Workspaces /\ sel.state_store \in StateStores
         /\ sel.tracing \in Traces /\ sel.lease \in Leases(sel.state_store)
<1>1. PICK store \in StateStores :
         sel \in [workspace : Workspaces, state_store : {store}, lease : Leases(store),
                  tracing : Traces]
  BY DEF Selections
<1> QED
  BY <1>1

(* What the wizard renders names variables by the right kinds. *)
LEMMA OakYamlShaped == ASSUME NEW sel \in Selections PROVE Shaped(OakYaml(sel))
<1>1. /\ sel.workspace \in Workspaces /\ sel.state_store \in StateStores
      /\ sel.tracing \in Traces /\ sel.lease \in Leases(sel.state_store)
  BY SelectionParts
<1>2. sel.workspace.ref = Nothing \/ sel.workspace.kind = "e2b"
  BY <1>1 DEF Workspaces, Section
<1>3. sel.state_store.ref = Nothing \/ sel.state_store.kind = "redis"
  BY <1>1 DEF StateStores, Section
<1>4. LeaseBlock(sel.lease).ref = Nothing \/ LeaseBlock(sel.lease).kind = "redis"
  BY <1>1 DEF Leases, LeaseBlock, Section
<1>5. sel.tracing.ref = Nothing \/ sel.tracing.kind = "staso"
  BY <1>1 DEF Traces, Section
<1>6. Section("openhands", Nothing).ref = Nothing
  BY DEF Section
<1> QED
  BY <1>2, <1>3, <1>4, <1>5, <1>6 DEF Shaped, OakYaml, Sections, Naming

(* So does what an editor makes of it. *)
LEMMA NextYamlInv == FilesInv /\ YamlInv /\ [Next]_vars => YamlInv'
<1> SUFFICES ASSUME FilesInv, YamlInv, [Next]_vars PROVE YamlInv'
  OBVIOUS
<1>0. FilesInv'
  BY NextFilesInv
<1>1. CASE disk'["yaml"].of # Nothing
  BY <1>0, <1>1, OakYamlShaped DEF YamlInv, FilesInv, AsRendered, Bundle, Files
<1>2. CASE UNCHANGED disk["yaml"]
  BY <1>2 DEF YamlInv
<1>3. ASSUME NEW s \in Sections, NEW kind, Edit(s, kind) PROVE YamlInv'
  <2> DEFINE old == disk["yaml"].content
             section == IF kind = "dropped" THEN Nothing ELSE Section(kind, Nothing)
             new == [old EXCEPT ![s] = section]
  <2>1. disk'["yaml"] = File(new, Nothing)
    BY <1>3 DEF Edit, FilesInv, Files
  <2>2. disk'["yaml"].content = new
    BY <2>1 DEF File
  <2>3. Shaped(old)
    BY <1>3 DEF Edit, YamlInv
  <2>4. section # Nothing => section.ref = Nothing
    BY DEF Section
  <2> HIDE DEF old, section
  <2>5. Shaped(new)
    BY <2>3, <2>4 DEF Shaped
  <2> QED
    BY <2>2, <2>5 DEF YamlInv
<1>4. CASE WriteFile
  <2>1. NextFile \in Files
    BY <1>4, NextFileIsLeft DEF WriteFile
  <2>2. NextFile = "yaml" => disk'["yaml"].content = Bundle(writing.of)["yaml"]
    BY <1>4 DEF WriteFile, File, FilesInv, Files
  <2>3. NextFile # "yaml" => UNCHANGED disk["yaml"]
    BY <1>4, <2>1 DEF WriteFile, FilesInv, Files
  <2>4. writing.of \in Selections
    BY <1>4 DEF WriteFile, FilesInv
  <2> QED
    BY <1>2, <2>2, <2>3, <2>4, OakYamlShaped DEF YamlInv, Bundle
<1>5. CASE BreakOff
  <2>1. UNCHANGED disk["yaml"] \/ disk'["yaml"] = NoFile
    BY <1>5 DEF BreakOff, FilesInv, Files
  <2> QED
    BY <1>2, <2>1 DEF YamlInv, NoFile, File
<1>6. CASE UNCHANGED disk
  BY <1>2, <1>6
<1>7. ASSUME NEW sel, RunSetup(sel) PROVE YamlInv'
  BY <1>6, <1>7 DEF RunSetup
<1>8. ASSUME NEW d, Load(d) PROVE YamlInv'
  BY <1>6, <1>8 DEF Load
<1>9. CASE LoadSteps
  BY <1>6, <1>9 DEF LoadSteps, SectionStep, ValidateWorkspace, BuildStateStore, BuildLease,
                    BuildTrace, Apply
<1>10. CASE Configure \/ UseStateStore \/ UNCHANGED vars
  BY <1>6, <1>10 DEF Configure, UseStateStore, vars
<1> QED
  BY <1>3, <1>4, <1>5, <1>7, <1>8, <1>9, <1>10 DEF Next, Sections

(* A selection with Redis for both names two variables of UrlNames. *)
LEMMA BothRedisNames ==
  ASSUME NEW sel \in Selections, BothRedis(sel)
  PROVE  /\ sel.state_store.ref \in UrlNames /\ sel.lease.ref \in UrlNames
         /\ OakYaml(sel).state_store = Section("redis", sel.state_store.ref)
         /\ OakYaml(sel).lease = Section("redis", sel.lease.ref)
<1>1. sel.state_store \in StateStores /\ sel.lease \in Leases(sel.state_store)
  BY SelectionParts
<1>2. PICK n \in UrlNames : sel.state_store = Section("redis", n)
  BY <1>1 DEF BothRedis, StateStores, Section
<1>3. sel.state_store.ref = n
  BY <1>2 DEF Section
<1>4. sel.lease.ref \in UrlNames
  BY <1>1, <1>3 DEF BothRedis, Leases, Section
<1>5. OakYaml(sel).lease = Section("redis", sel.lease.ref)
  BY DEF BothRedis, OakYaml, LeaseBlock
<1> QED
  BY <1>2, <1>3, <1>4, <1>5 DEF OakYaml

(* The loader's locals: a load takes what is on disk, a section adds what it
   built, an end clears them. *)
LEMMA NextLoadInv == IInv /\ [Next]_vars => LoadInv'
<1> SUFFICES ASSUME IInv, [Next]_vars PROVE LoadInv'
  OBVIOUS
<1> USE DEF IInv
<1>1. CASE UNCHANGED <<config, loading>>
  BY <1>1 DEF LoadInv, Loads, Passed, Clients
<1>2. CASE loading' = NotLoading
  BY <1>2 DEF LoadInv, Loads, Passed, Clients, BothRedis, NotLoading
<1>3. ASSUME NEW d, Load(d) PROVE LoadInv'
  <2>1. CASE Malformed(disk["yaml"].content)
    BY <1>1, <1>3, <2>1 DEF Load
  <2>2. CASE ~Malformed(disk["yaml"].content)
    <3>1. /\ DOMAIN loading' = DOMAIN NotLoading /\ loading'.at = "workspace"
          /\ loading'.yaml = disk["yaml"].content /\ loading'.of = disk["yaml"].of
          /\ loading'.found = config' /\ loading'.clients = NoClients
      BY <1>3, <2>2 DEF Load, NotLoading
    <3>2. Shaped(loading'.yaml) /\ \A s \in Sections : loading'.yaml[s] # Nothing
      BY <2>2, <3>1 DEF Malformed, YamlInv, Shaped
    <3>3. loading'.of # Nothing
            => loading'.of \in Selections /\ loading'.yaml = OakYaml(loading'.of)
      BY <3>1 DEF FilesInv, AsRendered, Files, Bundle
    <3> QED
      BY <3>1, <3>2, <3>3 DEF LoadInv, Loads, Passed, Clients
  <2> QED
    BY <2>1, <2>2
<1>4. CASE ValidateWorkspace
  <2>1. SUFFICES ASSUME loading' = [loading EXCEPT !.at = "state_store"],
                        WorkspaceError(loading.yaml.workspace, loading.in) = Ok
                 PROVE  LoadInv'
    BY <1>2, <1>4 DEF ValidateWorkspace, SectionStep
  <2>2. loading.at = "workspace" /\ UNCHANGED config
    BY <1>4 DEF ValidateWorkspace, SectionStep
  <2> QED
    BY <2>1, <2>2 DEF LoadInv, Loads, Passed, Clients, NotLoading
<1>5. CASE BuildStateStore
  <2>1. SUFFICES ASSUME loading' = WithStateStore,
                        StateStoreError(loading.yaml.state_store, loading.in) = Ok
                 PROVE  LoadInv'
    BY <1>2, <1>5 DEF BuildStateStore, SectionStep
  <2>2. loading.at = "state_store" /\ UNCHANGED config
    BY <1>5 DEF BuildStateStore, SectionStep
  <2>3. /\ DOMAIN loading' = DOMAIN NotLoading /\ loading'.at = "lease"
        /\ loading'.yaml = loading.yaml /\ loading'.of = loading.of
        /\ loading'.in = loading.in /\ loading'.found = loading.found
        /\ loading'.state_store = Backend(loading.yaml.state_store.kind, ClientOf("state_store"))
        /\ loading'.clients = [n \in UrlNames |->
               IF ClientOf("state_store") = <<"state_store", n>>
               THEN "state_store" ELSE loading.clients[n]]
    BY <2>1 DEF WithStateStore, LoadInv, NotLoading
  <2>4. Loads' /\ Passed'
    BY <2>1, <2>2, <2>3 DEF LoadInv, Loads, Passed
  <2>5. ASSUME BothRedis(loading.of) PROVE Clients'
    <3> DEFINE ref == loading.of.state_store.ref
    <3>1. loading.of \in Selections /\ loading.yaml = OakYaml(loading.of)
      BY <2>2, <2>5 DEF LoadInv, Loads, BothRedis
    <3>2. ref \in UrlNames /\ loading.yaml.state_store = Section("redis", ref)
      BY <2>5, <3>1, BothRedisNames
    <3>3. loading.clients = NoClients
      BY <2>2, <2>5 DEF LoadInv, Clients
    <3>4. ClientOf("state_store") = <<"state_store", ref>>
      BY <3>2, <3>3 DEF ClientOf, Section, NoClients
    <3>5. loading'.state_store.client = <<"state_store", ref>>
      BY <2>3, <3>4 DEF Backend
    <3>6. loading'.clients = [n \in UrlNames |-> IF n = ref THEN "state_store" ELSE Nothing]
      BY <2>3, <3>3, <3>4 DEF NoClients
    <3> QED
      BY <2>3, <3>5, <3>6 DEF Clients
  <2>6. Clients'
    BY <2>3, <2>5 DEF Clients
  <2> QED
    BY <2>3, <2>4, <2>6 DEF LoadInv
<1>6. CASE BuildLease
  <2>1. SUFFICES ASSUME loading' = [loading EXCEPT
                                       !.at = "tracing",
                                       !.lease = Backend(loading.yaml.lease.kind, ClientOf("lease"))],
                        LeaseError(loading.yaml.lease, loading.in) = Ok
                 PROVE  LoadInv'
    BY <1>2, <1>6 DEF BuildLease, SectionStep
  <2>2. loading.at = "lease" /\ UNCHANGED config
    BY <1>6 DEF BuildLease, SectionStep
  <2>3. /\ DOMAIN loading' = DOMAIN NotLoading /\ loading'.at = "tracing"
        /\ loading'.yaml = loading.yaml /\ loading'.of = loading.of
        /\ loading'.in = loading.in /\ loading'.found = loading.found
        /\ loading'.state_store = loading.state_store /\ loading'.clients = loading.clients
        /\ loading'.lease = Backend(loading.yaml.lease.kind, ClientOf("lease"))
    BY <2>1 DEF LoadInv, NotLoading
  <2>4. Loads' /\ Passed'
    BY <2>1, <2>2, <2>3 DEF LoadInv, Loads, Passed
  <2>5. ASSUME BothRedis(loading.of) PROVE Clients'
    <3> DEFINE of == loading.of
    <3>1. of \in Selections /\ loading.yaml = OakYaml(of)
      BY <2>2, <2>5 DEF LoadInv, Loads, BothRedis
    <3>2. of.lease.ref \in UrlNames /\ loading.yaml.lease = Section("redis", of.lease.ref)
      BY <2>5, <3>1, BothRedisNames
    <3>3. /\ loading.state_store.client = <<"state_store", of.state_store.ref>>
          /\ loading.clients = [n \in UrlNames |->
                                  IF n = of.state_store.ref THEN "state_store" ELSE Nothing]
      BY <2>2, <2>5 DEF LoadInv, Clients
    <3>4. loading.clients[of.lease.ref] =
             IF of.lease.ref = of.state_store.ref THEN "state_store" ELSE Nothing
      BY <3>2, <3>3
    <3>5. ClientOf("lease") =
             <<IF of.lease.ref = of.state_store.ref THEN "state_store" ELSE "lease", of.lease.ref>>
      BY <3>2, <3>4, SetupAssumption DEF ClientOf, Section
    <3> QED
      BY <2>3, <3>3, <3>5 DEF Clients, Backend
  <2>6. Clients'
    BY <2>3, <2>5 DEF Clients
  <2> QED
    BY <2>3, <2>4, <2>6 DEF LoadInv
<1>7. CASE BuildTrace
  <2>1. SUFFICES ASSUME loading' = [loading EXCEPT !.at = "configure"],
                        TraceError(loading.yaml.tracing, loading.in) = Ok
                 PROVE  LoadInv'
    BY <1>2, <1>7 DEF BuildTrace, SectionStep
  <2>2. loading.at = "tracing" /\ UNCHANGED config
    BY <1>7 DEF BuildTrace, SectionStep
  <2> QED
    BY <2>1, <2>2 DEF LoadInv, Loads, Passed, Clients, NotLoading
<1>8. CASE Apply
  BY <1>2, <1>8 DEF Apply
<1>9. CASE (\E sel \in Selections : RunSetup(sel)) \/ WriteFile \/ BreakOff
           \/ (\E s \in Sections, kind \in EditedKinds : Edit(s, kind)) \/ UNCHANGED vars
  BY <1>1, <1>9 DEF RunSetup, WriteFile, BreakOff, Edit, vars
<1>10. CASE Configure \/ UseStateStore
  <2>1. loading.at = "none" /\ UNCHANGED loading
    BY <1>10 DEF Configure, UseStateStore
  <2> QED
    BY <2>1 DEF LoadInv, Loads, Passed, Clients
<1> QED
  BY <1>3, <1>4, <1>5, <1>6, <1>7, <1>8, <1>9, <1>10 DEF Next, LoadSteps, Sections

(* Files as they were rendered, a load that has passed and built what it has. *)
THEOREM FilesAsRendered == Spec => []IInv
<1>1. IInv /\ [Next]_vars => IInv'
  BY NextFilesInv, NextYamlInv, NextLoadInv DEF IInv
<1> QED
  BY <1>1, InitIInv, PTL DEF Spec

-----------------------------------------------------------------------------
(* A bundle loads in a deployment that follows it. *)

Follows(sel, d) ==
    d.env = SelectedNames(sel) /\ d.installed = SelectedExtras(sel) /\ d.factories = "works"

(* The variable of the chosen workspace is one of the three files' own. *)
LEMMA WorkspaceLoads ==
  ASSUME NEW sel \in Selections, NEW d, Follows(sel, d)
  PROVE  WorkspaceError(sel.workspace, d) = Ok
<1>1. CASE sel.workspace.kind = "local"
  BY <1>1 DEF WorkspaceError
<1>2. CASE sel.workspace = Section("e2b", E2BKey)
  <2>1. sel.workspace.ref = E2BKey /\ sel.workspace.kind = "e2b" /\ E2BKey # Nothing
    BY <1>2, SetupAssumption DEF Section, Names
  <2>2. E2BKey \in d.env
    BY <2>1 DEF Follows, SelectedNames
  <2> QED
    BY <2>1, <2>2 DEF WorkspaceError, Unset
<1> QED
  BY <1>1, <1>2, SelectionParts DEF Workspaces, Section

(* So is the variable of a Redis store, and its extra is installed. *)
LEMMA StateStoreLoads ==
  ASSUME NEW sel \in Selections, NEW d, Follows(sel, d)
  PROVE  StateStoreError(sel.state_store, d) = Ok
<1>1. CASE sel.state_store.kind = "in_memory"
  BY <1>1 DEF StateStoreError
<1>2. CASE sel.state_store.kind = "custom"
  BY <1>2 DEF StateStoreError, CustomError, Follows
<1>3. CASE \E n \in UrlNames : sel.state_store = Section("redis", n)
  <2>1. PICK n \in UrlNames : sel.state_store = Section("redis", n)
    BY <1>3
  <2>2. sel.state_store.ref = n /\ sel.state_store.kind = "redis" /\ n # Nothing
    BY <2>1, SetupAssumption DEF Section, Names
  <2>3. n \in d.env /\ "redis" \in d.installed
    BY <2>2 DEF Follows, SelectedNames, SelectedExtras, Extras
  <2>4. RedisError(sel.state_store, d) = Ok
    BY <2>2, <2>3 DEF RedisError, Unset
  <2> QED
    BY <2>2, <2>4 DEF StateStoreError
<1> QED
  BY <1>1, <1>2, <1>3, SelectionParts DEF StateStores, Section

(* A lease that shares the store's client finds the store's variable and
   extra; one with a variable of its own brings both. *)
LEMMA LeaseLoads ==
  ASSUME NEW sel \in Selections, NEW d, Follows(sel, d)
  PROVE  LeaseError(LeaseBlock(sel.lease), d) = Ok
<1>0. sel.state_store \in StateStores /\ sel.lease \in Leases(sel.state_store)
  BY SelectionParts
<1>1. CASE sel.lease.kind \in {"none", "in_memory"}
  BY <1>1 DEF LeaseError, LeaseBlock
<1>2. CASE sel.lease.kind = "custom"
  BY <1>2 DEF LeaseError, LeaseBlock, CustomError, Follows
<1>3. CASE \E n \in UrlNames : sel.lease = Section("redis_separate", n)
  <2>1. PICK n \in UrlNames : sel.lease = Section("redis_separate", n)
    BY <1>3
  <2>2. /\ sel.lease.kind = "redis_separate" /\ sel.lease.ref = n /\ n # Nothing
        /\ LeaseBlock(sel.lease) = Section("redis", n)
    BY <2>1, SetupAssumption DEF Section, Names, LeaseBlock
  <2>3. n \in d.env /\ "redis" \in d.installed
    BY <2>2 DEF Follows, SelectedNames, SelectedExtras, Extras
  <2>4. RedisError(Section("redis", n), d) = Ok
    BY <2>2, <2>3 DEF RedisError, Unset, Section
  <2> QED
    BY <2>2, <2>4 DEF LeaseError, Section
<1>4. CASE /\ sel.state_store.kind = "redis"
           /\ sel.lease = Section("redis_shared", sel.state_store.ref)
  <2>1. PICK n \in UrlNames : sel.state_store = Section("redis", n)
    BY <1>0, <1>4 DEF StateStores, Section
  <2>2. /\ sel.state_store.ref = n /\ n # Nothing
        /\ LeaseBlock(sel.lease) = Section("redis", n)
    BY <1>4, <2>1, SetupAssumption DEF Section, Names, LeaseBlock
  <2>3. n \in d.env /\ "redis" \in d.installed
    BY <1>4, <2>2 DEF Follows, SelectedNames, SelectedExtras, Extras
  <2>4. RedisError(Section("redis", n), d) = Ok
    BY <2>2, <2>3 DEF RedisError, Unset, Section
  <2> QED
    BY <2>2, <2>4 DEF LeaseError, Section
<1> QED
  BY <1>0, <1>1, <1>2, <1>3, <1>4 DEF Leases, Section

(* Tracing with staso finds its variable and its extra. *)
LEMMA TraceLoads ==
  ASSUME NEW sel \in Selections, NEW d, Follows(sel, d)
  PROVE  TraceError(sel.tracing, d) = Ok
<1>1. CASE sel.tracing.kind = "none"
  BY <1>1 DEF TraceError
<1>2. CASE sel.tracing = Section("staso", StasoKey)
  <2>1. sel.tracing.ref = StasoKey /\ sel.tracing.kind = "staso" /\ StasoKey # Nothing
    BY <1>2, SetupAssumption DEF Section, Names
  <2>2. StasoKey \in d.env /\ "staso" \in d.installed
    BY <2>1 DEF Follows, SelectedNames, SelectedExtras, Extras
  <2>3. ~Unset(sel.tracing.ref, d)
    BY <2>1, <2>2 DEF Unset
  <2> QED
    BY <2>1, <2>2, <2>3 DEF TraceError
<1> QED
  BY <1>1, <1>2, SelectionParts DEF Traces, Section

-----------------------------------------------------------------------------
(* The three promises. *)

(* How a load ends: by the configure() call, or at a section that raises and
   leaves the configuration alone. *)
LEMMA HowLoadsEnd ==
  ASSUME IInv, [Next]_vars, LoadEnds
  PROVE  \/ Apply
         \/ /\ UNCHANGED config
            /\ outcome' # Ok
            /\ outcome' \in {WorkspaceError(loading.yaml.workspace, loading.in),
                             StateStoreError(loading.yaml.state_store, loading.in),
                             LeaseError(loading.yaml.lease, loading.in),
                             TraceError(loading.yaml.tracing, loading.in)}
<1>1. ~UNCHANGED loading
  BY DEF LoadEnds
<1>2. ASSUME NEW d, Load(d) PROVE FALSE
  BY <1>2 DEF Load, LoadEnds
<1>3. LoadSteps
  BY <1>1, <1>2 DEF Next, RunSetup, WriteFile, BreakOff, Edit, Configure, UseStateStore, vars
<1>4. ASSUME NEW section, NEW error, NEW built,
             SectionStep(section, error, built), built.at # "none"
      PROVE  outcome' = error /\ error # Ok
  BY <1>4 DEF SectionStep, LoadEnds
<1>5. CASE ValidateWorkspace
  <2>1. [loading EXCEPT !.at = "state_store"].at # "none"
    BY DEF IInv, LoadInv, NotLoading
  <2> QED
    BY <1>4, <1>5, <2>1 DEF ValidateWorkspace
<1>6. CASE BuildStateStore
  <2>1. WithStateStore.at # "none"
    BY DEF IInv, LoadInv, NotLoading, WithStateStore
  <2> QED
    BY <1>4, <1>6, <2>1 DEF BuildStateStore
<1>7. CASE BuildLease
  <2>1. [loading EXCEPT !.at = "tracing",
                        !.lease = Backend(loading.yaml.lease.kind, ClientOf("lease"))].at # "none"
    BY DEF IInv, LoadInv, NotLoading
  <2> QED
    BY <1>4, <1>7, <2>1 DEF BuildLease
<1>8. CASE BuildTrace
  <2>1. [loading EXCEPT !.at = "configure"].at # "none"
    BY DEF IInv, LoadInv, NotLoading
  <2> QED
    BY <1>4, <1>8, <2>1 DEF BuildTrace
<1> QED
  BY <1>3, <1>5, <1>6, <1>7, <1>8 DEF LoadSteps

(* Whatever is picked in the wizard, and however often it was broken off, run
   again and its files edited before: the extras and the variables that two
   of its files name are enough to load the third. *)
THEOREM WizardBundlesLoadAlways == Spec => WizardBundlesLoad
<1>1. ASSUME IInv, [Next]_vars, LoadEnds, FollowedThrough PROVE outcome' = Ok
  <2> DEFINE sel == loading.of
             yaml == loading.yaml
             d == loading.in
  <2>1. sel \in Selections /\ yaml = OakYaml(sel)
    BY <1>1 DEF IInv, LoadInv, Loads, LoadEnds, FollowedThrough
  <2>2. Follows(sel, d)
    BY <1>1 DEF Follows, FollowedThrough, Bundle
  <2>3. /\ yaml.workspace = sel.workspace /\ yaml.state_store = sel.state_store
        /\ yaml.lease = LeaseBlock(sel.lease) /\ yaml.tracing = sel.tracing
    BY <2>1 DEF OakYaml
  <2> HIDE DEF sel, yaml, d
  <2>4. /\ WorkspaceError(yaml.workspace, d) = Ok
        /\ StateStoreError(yaml.state_store, d) = Ok
        /\ LeaseError(yaml.lease, d) = Ok
        /\ TraceError(yaml.tracing, d) = Ok
    BY <2>1, <2>2, <2>3, WorkspaceLoads, StateStoreLoads, LeaseLoads, TraceLoads
  <2>5. Apply
    BY <1>1, <2>4, HowLoadsEnd DEF yaml, d
  <2> QED
    BY <2>5 DEF Apply
<1>2. IInv /\ [Next]_vars => [LoadEnds /\ FollowedThrough => outcome' = Ok]_vars
  BY <1>1
<1> QED
  BY <1>2, FilesAsRendered, PTL DEF Spec, WizardBundlesLoad

(* A section that raises nothing has its variable. *)
LEMMA NamedIsSet ==
  ASSUME NEW yaml, NEW d, Shaped(yaml), \A s \in Sections : yaml[s] # Nothing,
         WorkspaceError(yaml.workspace, d) = Ok, StateStoreError(yaml.state_store, d) = Ok,
         LeaseError(yaml.lease, d) = Ok, TraceError(yaml.tracing, d) = Ok
  PROVE  {yaml[s].ref : s \in DOMAIN yaml} \ {Nothing} \subseteq d.env
<1>0. SUFFICES ASSUME NEW s \in Sections, yaml[s].ref # Nothing PROVE yaml[s].ref \in d.env
  BY DEF Shaped
<1>1. <<s, yaml[s].kind>> \in Naming
  BY <1>0 DEF Shaped
<1> USE DEF Naming, Unset, RedisError, Ok, OakConfigError
<1>2. CASE s = "workspace"
  BY <1>0, <1>1, <1>2 DEF WorkspaceError
<1>3. CASE s = "state_store"
  <2>1. yaml.state_store.kind = "redis"
    BY <1>1, <1>3
  <2>2. RedisError(yaml.state_store, d) = Ok
    BY <2>1 DEF StateStoreError
  <2> QED
    BY <1>3, <2>2
<1>4. CASE s = "lease"
  <2>1. yaml.lease.kind = "redis"
    BY <1>1, <1>4
  <2>2. RedisError(yaml.lease, d) = Ok
    BY <2>1 DEF LeaseError
  <2> QED
    BY <1>4, <2>2
<1>5. CASE s = "tracing"
  <2>1. yaml.tracing.kind = "staso"
    BY <1>1, <1>5
  <2>2. ~Unset(yaml.tracing.ref, d)
    BY <2>1 DEF TraceError
  <2> QED
    BY <1>5, <2>2
<1> QED
  BY <1>1, <1>2, <1>3, <1>4, <1>5

(* Whatever the file and the deployment: a load that ends well has found every
   variable the file names, and one that does not has changed nothing. *)
THEOREM LoadFailsFastAlways == Spec => LoadFailsFast
<1> DEFINE Promise ==
      LoadEnds =>
         LET yaml == loading.yaml IN
         IF outcome' = Ok
         THEN {yaml[s].ref : s \in DOMAIN yaml} \ {Nothing} \subseteq loading.in.env
         ELSE config' = loading.found
<1>1. ASSUME IInv, [Next]_vars PROVE Promise
  <2>1. SUFFICES ASSUME LoadEnds
                 PROVE  IF outcome' = Ok
                        THEN {loading.yaml[s].ref : s \in DOMAIN loading.yaml} \ {Nothing}
                               \subseteq loading.in.env
                        ELSE config' = loading.found
    OBVIOUS
  <2>2. /\ config = loading.found /\ Shaped(loading.yaml)
        /\ \A s \in Sections : loading.yaml[s] # Nothing
    BY <1>1, <2>1 DEF IInv, LoadInv, Loads, LoadEnds
  <2>3. CASE Apply
    <3>1. loading.at = "configure" /\ outcome' = Ok
      BY <2>3 DEF Apply
    <3>2. /\ WorkspaceError(loading.yaml.workspace, loading.in) = Ok
          /\ StateStoreError(loading.yaml.state_store, loading.in) = Ok
          /\ LeaseError(loading.yaml.lease, loading.in) = Ok
          /\ TraceError(loading.yaml.tracing, loading.in) = Ok
      BY <1>1, <3>1 DEF IInv, LoadInv, Passed
    <3> QED
      BY <2>2, <3>1, <3>2, NamedIsSet
  <2>4. CASE UNCHANGED config /\ outcome' # Ok
    BY <2>2, <2>4
  <2> QED
    BY <1>1, <2>1, <2>3, <2>4, HowLoadsEnd
<1>2. IInv /\ [Next]_vars => [Promise]_vars
  BY <1>1
<1> QED
  BY <1>2, FilesAsRendered, PTL DEF Spec, LoadFailsFast

(* The wizard's choice of a shared or a separate client is what the loader
   builds: the way over oak.yaml, where both are kind redis, loses nothing. *)
THEOREM SharedAsChosenAlways == Spec => SharedAsChosen
<1> DEFINE sel == loading.of
           shared == config'.lease.client = config'.state_store.client
           same == sel.lease.ref = sel.state_store.ref
<1>1. ASSUME IInv, [Next]_vars, LoadEnds, outcome' = Ok, BothRedis(sel) PROVE shared <=> same
  <2>1. Apply
    BY <1>1, HowLoadsEnd
  <2>2. loading.at = "configure"
    BY <2>1 DEF Apply
  <2>3. /\ config'.lease.client = loading.lease.client
        /\ config'.state_store.client = loading.state_store.client
    BY <2>1 DEF Apply
  <2>4. /\ loading.state_store.client = <<"state_store", sel.state_store.ref>>
        /\ loading.lease.client =
              <<IF sel.lease.ref = sel.state_store.ref THEN "state_store" ELSE "lease",
                sel.lease.ref>>
    BY <1>1, <2>2 DEF IInv, LoadInv, Clients
  <2> QED
    BY <2>3, <2>4
<1> DEFINE Promise ==
      /\ LoadEnds /\ outcome' = Ok
      /\ sel # Nothing
      /\ sel.state_store.kind = "redis"
      /\ sel.lease.kind \in {"redis_shared", "redis_separate"}
      => (shared <=> same)
<1>2. ASSUME IInv, [Next]_vars PROVE Promise
  BY <1>1, <1>2 DEF BothRedis
<1>3. IInv /\ [Next]_vars => [Promise]_vars
  BY <1>2
<1> QED
  BY <1>3, FilesAsRendered, PTL DEF Spec, SharedAsChosen
=============================================================================
