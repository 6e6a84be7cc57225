---- MODULE Sync ----
(***************************************************************************)
(* WorkflowOperations.sync and syncDir of packages/core/src/workflows.ts:  *)
(* processes that start by bringing the workflows of a directory to the    *)
(* server, several at once, each reading the version there before it       *)
(* writes.  A definition is its lines that matter, each a field, its value *)
(* and whether it is nested in another.                                    *)
(***************************************************************************)
EXTENDS Naturals, Sequences, FiniteSetsExt

CONSTANTS
  Processes,
  Workflows,           \* names of workflows
  Versions,
  NestedFields,        \* whether a step of a definition has a version of its own
  MaxFiles,            \* bound: the files of a directory
  MaxBoots             \* bound: the times processes start

ASSUME SyncAssumption == NestedFields \in BOOLEAN /\ MaxFiles \in Nat /\ MaxBoots \in Nat

VARIABLES
  files,               \* files each process has still to sync
  sync,                \* where the sync of the first of them is
  synced,              \* what the last sync of each process told, if it ended
  stored,              \* the definition the server has of each workflow, or none
  boots,               \* history: the times processes started
  held                 \* history: what was stored while each last sync was out

syncVars == <<files, sync, synced, stored, boots, held>>

-----------------------------------------------------------------------------
(* Definitions.                                                            *)

Line(field, value, nested) == [field |-> field, value |-> value, nested |-> nested]

Definition(n, v) == <<Line("name", n, FALSE), Line("version", v, FALSE)>>
WithStep(n, u, v) ==
  <<Line("name", n, FALSE), Line("version", u, TRUE), Line("version", v, FALSE)>>

Definitions ==
  UNION {{Definition(n, v): v \in Versions}: n \in Workflows}
  \cup IF ~NestedFields THEN {}
       ELSE UNION {UNION {{WithStep(n, u, v): u \in Versions}: v \in Versions}: n \in Workflows}

\* A file may lack what extractWorkflowMeta asks for.
Files == Definitions \cup {<<Line("name", n, FALSE)>>: n \in Workflows} \cup {<<>>}

\* The value at the first of some lines of a definition, or none.
FirstOf(yaml, lines) == IF lines = {} THEN <<>> ELSE <<yaml[Min(lines)].value>>

\* The first line that starts with the field, however far it is indented.
extractYAMLField(yaml, field) == FirstOf(yaml, {i \in DOMAIN yaml: yaml[i].field = field})

\* The version of the definition itself.
VersionOf(yaml) ==
  FirstOf(yaml, {i \in DOMAIN yaml: yaml[i].field = "version" /\ ~yaml[i].nested})

\* extractWorkflowMeta throws without a name or a version.
MetaMissing(yaml) == extractYAMLField(yaml, "name") = <<>> \/ extractYAMLField(yaml, "version") = <<>>

\* Mutant: a definition that is there is taken for the same.
SameVersionIfAny(existing, yaml) == existing # <<>>

SameVersion(existing, yaml) ==
  existing # <<>> /\ extractYAMLField(existing, "version") = extractYAMLField(yaml, "version")

-----------------------------------------------------------------------------

NoSync == [action |-> "none", yaml |-> <<>>]

SyncInit ==
  /\ files = [p \in Processes |-> <<>>]
  /\ sync = [p \in Processes |-> "none"]
  /\ synced = [p \in Processes |-> NoSync]
  /\ stored = [n \in Workflows |-> <<>>]
  /\ boots = 0
  /\ held = [p \in Processes |-> {}]

Yaml(p) == Head(files[p])
Named(p) == extractYAMLField(Yaml(p), "name")[1]

\* A process starts, with a directory of workflows.
Boot(p) ==
  /\ files[p] = <<>> /\ boots < MaxBoots
  /\ \E n \in 1..MaxFiles: \E dir \in [1..n -> Files]: files' = [files EXCEPT ![p] = dir]
  /\ boots' = boots + 1
  /\ synced' = [synced EXCEPT ![p] = NoSync]
  /\ UNCHANGED <<sync, stored, held>>

\* The sync of a file ends: syncDir goes on to the next, or throws.
Ends(p, action) ==
  /\ files' = [files EXCEPT ![p] = IF action = "thrown" THEN <<>> ELSE Tail(@)]
  /\ sync' = [sync EXCEPT ![p] = "none"]
  /\ synced' = [synced EXCEPT ![p] = [action |-> action, yaml |-> Yaml(p)]]

\* sync, up to its first request.
SyncCalled(p) ==
  /\ files[p] # <<>> /\ sync[p] = "none"
  /\ IF MetaMissing(Yaml(p))
     THEN Ends(p, "thrown") /\ UNCHANGED held
     ELSE /\ sync' = [sync EXCEPT ![p] = "getDefinition"]
          /\ held' = [held EXCEPT ![p] = {stored[Named(p)]}]
          /\ synced' = [synced EXCEPT ![p] = NoSync]
          /\ UNCHANGED files
  /\ UNCHANGED <<stored, boots>>

\* The server answers with what it has: the same version, or one to replace.
DefinitionRead(p) ==
  /\ sync[p] = "getDefinition"
  /\ LET existing == stored[Named(p)] IN
     IF SameVersion(existing, Yaml(p)) THEN Ends(p, "unchanged")
     ELSE /\ sync' = [sync EXCEPT ![p] = IF existing = <<>> THEN "create" ELSE "update"]
          /\ UNCHANGED <<files, synced>>
  /\ UNCHANGED <<stored, boots, held>>

\* The server stores what create sends, whatever it has by now.
Stored(n, yaml) ==
  /\ stored' = [stored EXCEPT ![n] = yaml]
  /\ held' = [q \in Processes |->
                IF sync[q] # "none" /\ Named(q) = n THEN held[q] \cup {yaml} ELSE held[q]]

Created(p) ==
  /\ sync[p] \in {"create", "update"}
  /\ Stored(Named(p), Yaml(p))
  /\ Ends(p, IF sync[p] = "create" THEN "created" ELSE "updated")
  /\ UNCHANGED boots

\* A request is refused or lost, a create perhaps after the server ran it.
SyncFails(p) ==
  /\ sync[p] # "none"
  /\ \/ UNCHANGED <<stored, held>>
     \/ sync[p] \in {"create", "update"} /\ Stored(Named(p), Yaml(p))
  /\ Ends(p, "thrown")
  /\ UNCHANGED boots

SyncNext ==
  \E p \in Processes: Boot(p) \/ SyncCalled(p) \/ DefinitionRead(p) \/ Created(p) \/ SyncFails(p)

SyncSpec == SyncInit /\ [][SyncNext]_syncVars

-----------------------------------------------------------------------------
(* Properties.                                                             *)

\* A process that is told its workflow is synced had the server hold the
\* version of its file at some moment of the call, whoever else was syncing;
\* told "created" there was none at some moment, and told "updated" another
\* one ("The version field acts as a change guard", sync).
SyncedWhileCalled ==
  \A p \in Processes: synced[p].action \in {"unchanged", "created", "updated"} =>
    LET versions == {VersionOf(yaml): yaml \in held[p]} IN
    /\ VersionOf(synced[p].yaml) \in versions
    /\ synced[p].action = "created" => <<>> \in held[p]
    /\ synced[p].action = "updated" => versions \ {<<>>, VersionOf(synced[p].yaml)} # {}

=============================================================================
