------------------------------ MODULE SchemaUpdate ------------------------------
(***************************************************************************)
(* How the schema of a Realm file is brought up to date while several      *)
(* processes and threads have the file open (shared_realm.cpp,             *)
(* object_store.cpp, realm_coordinator.cpp, RLMRealm.mm).                  *)
(*                                                                         *)
(* Each process has one version of the application's code, its             *)
(* configuration: a schema, a schema version and maybe a migration block.  *)
(* A thread opens a Realm instance under the lock of the binding           *)
(* (initLock).  The first instance of a process compares the file with the *)
(* schema of the configuration and changes the file; the others take the   *)
(* schema of one that is open.  The coordinator of a process caches the    *)
(* schema of the file with the range of versions it is good for.  The file *)
(* itself is a sequence of snapshots, to which whoever has the write lock  *)
(* appends.                                                                *)
(***************************************************************************)
EXTENDS Schemas

CONSTANTS Processes,
          Realms,          \* the instances, one per thread
          ProcessOf,       \* ProcessOf[r]: the process of instance r
          Configs,         \* the versions of the application's code
          VersionOf,       \* VersionOf[c]: config.schema_version
          TargetOf,        \* TargetOf[c]: the classes, with their properties
          HasMigration,    \* the configurations with a migration block
          Modes,           \* the schema modes to look at
          UsesAfterError,  \* an instance is used after reading threw
          NoSchema,        \* no schema
          MaxSnapshots     \* bound: the snapshots of the file

ASSUME ProcessOfAssumption == ProcessOf \in [Realms -> Processes]
ASSUME ConfigAssumption ==
  /\ \A c \in Configs : VersionOf[c] \in Nat
  /\ HasMigration \subseteq Configs
  /\ Modes \subseteq {"Automatic", "Additive"}
  /\ UsesAfterError \in BOOLEAN
  /\ MaxSnapshots \in Nat

\* A schema that is valid has no two properties of one name (validate).
PropNames == UNION {UNION {Names(TargetOf[c][k]) : k \in DOMAIN TargetOf[c]} : c \in Configs}
Kinds ==
  UNION {UNION {{TargetOf[c][k][i].kind : i \in DOMAIN TargetOf[c][k]} :
                  k \in DOMAIN TargetOf[c]} : c \in Configs}
ASSUME TargetAssumption ==
  \A c \in Configs : \A k \in DOMAIN TargetOf[c] :
    LET props == TargetOf[c][k]
    IN /\ props \in Seq([name : PropNames, kind : Kinds])
       /\ \A i, j \in DOMAIN props : props[i].name = props[j].name => i = j

VARIABLES
  file,         \* the snapshots
  mode,         \* config.schema_mode, the same everywhere
  config,       \* config[p]: the configuration of process p
  cache,        \* cache[p]: the schema cache of its coordinator: the snapshot
                \* the schema was read from (0: none), its version, and the
                \* range of snapshots it is good for
  pc,           \* pc[r]: what the thread of r is doing
  group,        \* group[r]: the snapshot m_group reads, 0 without one
  schema,       \* schema[r]: m_schema
  version,      \* version[r]: m_schema_version
  transaction,  \* transaction[r]: m_schema_transaction_version
  newSchema,    \* newSchema[r]: the snapshot m_new_schema is of, 0 without one
  actual        \* actual[r]: what the required changes were computed from

realmVars == <<pc, group, schema, version, transaction, newSchema, actual>>
vars == <<file, mode, config, cache, realmVars>>

Latest == Len(file)
Target(r) == TargetOf[config[ProcessOf[r]]]
Wanted(r) == VersionOf[config[ProcessOf[r]]]
Cache(r) == cache[ProcessOf[r]]

\* The schema of a configuration before it knows any column.
Fresh(r) ==
  [c \in DOMAIN Target(r) |->
     [i \in DOMAIN Target(r)[c] |->
        [name |-> Target(r)[c][i].name, kind |-> Target(r)[c][i].kind, column |-> 0]]]

---------------------------------------------------------------------------------
(* Where a thread can be. *)

\* Under initLock, from the construction to the end of the update.
Opening ==
  {"constructed", "aligning", "waiting", "rechecked", "satisfied", "updating", "updated", "finishing"}

\* Between a change of the snapshot and cache_new_schema.
Uncached == {"rechecked", "satisfied", "updated", "advanced", "begun", "written"}

\* In a write transaction.
Writing == {"rechecked", "updating", "begun", "writing"}

\* In the binding's map of Realms, RLMCacheRealm.
Cached == {"open", "advanced", "begun", "writing", "written"}

Locations == {"closed"} \cup Opening \cup Cached

Siblings(r) == {q \in Realms \ {r} : ProcessOf[q] = ProcessOf[r]}

LockFree == \A r \in Realms : pc[r] \notin Writing

---------------------------------------------------------------------------------
(* The schema cache of a coordinator. *)

EmptyCache == [snapshot |-> 0, version |-> NotVersioned, min |-> 0, max |-> 0]

\* The schema read from the snapshot t, with the version v.
CacheSchema(k, v, t) ==
  IF t < k.max \/ DOMAIN file[t].tables = {} \/ v = NotVersioned THEN k
  ELSE [snapshot |-> t, version |-> v, min |-> t, max |-> t]

AdvanceCache(k, previous, next) ==
  IF k.snapshot = 0 \/ next < k.min THEN k
  ELSE [k EXCEPT !.min = IF previous < @ THEN previous ELSE @,
                 !.max = IF next > @ THEN next ELSE @]

\* Mutation of ClearCache: only the version is set.
ClearCacheKeepsSchema(k, v) == [k EXCEPT !.version = v]

ClearCache(k, v) == [k EXCEPT !.snapshot = 0, !.version = v]

\* The coordinator goes with the last instance of its process.
Left(caches, r) ==
  IF \A q \in Siblings(r) : pc[q] = "closed"
  THEN [caches EXCEPT ![ProcessOf[r]] = EmptyCache]
  ELSE caches

---------------------------------------------------------------------------------
(* The log between two snapshots. *)

Between(i, j) == UNION {file[k].log : k \in i + 1 .. j}

\* The validator refuses to advance over a removed or renamed column.
Refused(i, j) == "erase" \in Between(i, j)

\* Advancing over a change of the tables calls the schema change handler; a
\* change of the number in the metadata table is not one.
Told(i, j) == Between(i, j) # {}

---------------------------------------------------------------------------------
Init ==
  /\ file = <<[version |-> NotVersioned, tables |-> <<>>, migrated |-> <<>>, log |-> {}]>>
  /\ mode \in Modes
  /\ config \in [Processes -> Configs]
  /\ cache = [p \in Processes |-> EmptyCache]
  /\ pc = [r \in Realms |-> "closed"]
  /\ group = [r \in Realms |-> 0]
  /\ schema = [r \in Realms |-> NoSchema]
  /\ version = [r \in Realms |-> NotVersioned]
  /\ transaction = [r \in Realms |-> 0]
  /\ newSchema = [r \in Realms |-> 0]
  /\ actual = [r \in Realms |-> NoSchema]

\* The instance is released: by its owner, or because opening it threw.
Gone(r) ==
  /\ pc' = [pc EXCEPT ![r] = "closed"]
  /\ group' = [group EXCEPT ![r] = 0]
  /\ schema' = [schema EXCEPT ![r] = NoSchema]
  /\ version' = [version EXCEPT ![r] = NotVersioned]
  /\ transaction' = [transaction EXCEPT ![r] = 0]
  /\ newSchema' = [newSchema EXCEPT ![r] = 0]
  /\ actual' = [actual EXCEPT ![r] = NoSchema]

\* The update is over: the snapshot is released (invalidate) and the binding
\* caches the instance.
Opened(r, s) ==
  /\ pc' = [pc EXCEPT ![r] = "open"]
  /\ group' = [group EXCEPT ![r] = 0]
  /\ schema' = [schema EXCEPT ![r] = s]
  /\ actual' = [actual EXCEPT ![r] = NoSchema]

---------------------------------------------------------------------------------
(* Opening: the construction. *)

CanOpen(r) == pc[r] = "closed" /\ \A q \in Siblings(r) : pc[q] \notin Opening

\* The coordinator knows the schema: the file is not read.
OpenFromCache(r) ==
  /\ CanOpen(r)
  /\ Cache(r).snapshot # 0
  /\ pc' = [pc EXCEPT ![r] = "aligning"]
  /\ schema' = [schema EXCEPT ![r] = SchemaFromGroup(file[Cache(r).snapshot].tables)]
  /\ version' = [version EXCEPT ![r] = Cache(r).version]
  /\ transaction' = [transaction EXCEPT ![r] = Cache(r).max]
  /\ UNCHANGED <<file, mode, config, cache, group, newSchema, actual>>

OpenFromFile(r) ==
  /\ CanOpen(r)
  /\ Cache(r).snapshot = 0
  /\ pc' = [pc EXCEPT ![r] = "constructed"]
  /\ group' = [group EXCEPT ![r] = Latest]
  /\ schema' = [schema EXCEPT ![r] = SchemaFromGroup(file[Latest].tables)]
  /\ version' = [version EXCEPT ![r] = file[Latest].version]
  /\ transaction' = [transaction EXCEPT ![r] = Latest]
  /\ UNCHANGED <<file, mode, config, cache, newSchema, actual>>

\* The constructor caches what it read and ends its read transaction.
CacheConstructed(r) ==
  /\ pc[r] = "constructed"
  /\ cache' = [cache EXCEPT ![ProcessOf[r]] =
                 CacheSchema(@, version[r], transaction[r])]
  /\ pc' = [pc EXCEPT ![r] = "aligning"]
  /\ group' = [group EXCEPT ![r] = 0]
  /\ UNCHANGED <<file, mode, config, schema, version, transaction, newSchema, actual>>

---------------------------------------------------------------------------------
(* Opening: the schema. *)

\* Mutation of Verdict: an older version is not refused.
VerdictAnyVersion(r, v, changes) ==
  IF Wanted(r) = v /\ NoChanges(changes) THEN "no"
  ELSE IF mode = "Automatic" THEN "yes"
  ELSE IF ~ValidAdditive(changes) THEN "throws"
  ELSE IF changes.tables # {} \/ ~NoProperties(changes) \/ Wanted(r) # v THEN "yes" ELSE "no"

\* What schema_change_needs_write_transaction answers when the file is known to
\* have the version v.
Verdict(r, v, changes) ==
  IF Wanted(r) = v /\ NoChanges(changes) THEN "no"
  ELSE IF mode = "Automatic"
  THEN IF Wanted(r) < v /\ v # NotVersioned THEN "throws" ELSE "yes"
  ELSE IF ~ValidAdditive(changes) THEN "throws"
  ELSE IF changes.tables # {} \/ ~NoProperties(changes) \/ Wanted(r) # v THEN "yes" ELSE "no"

\* The schema is there already: set_schema.
SetSchema(r, reference) == CopyTableColumns(Fresh(r), reference)

\* Another thread of the process has an instance: its schema is taken
\* (set_schema_subset), if the file has it.
AlignWithThread(r) ==
  /\ pc[r] = "aligning"
  /\ \E q \in Siblings(r) :
       /\ pc[q] \in Cached
       /\ LET changes == Compare(schema[r], schema[q])
              fits == IF mode = "Automatic" THEN NoMigrationRequired(changes)
                      ELSE ValidAdditive(changes)
          IN IF fits
             THEN /\ Opened(r, CopyTableColumns(schema[q], schema[r]))
                  /\ UNCHANGED <<file, mode, config, cache, version, transaction, newSchema>>
             ELSE /\ Gone(r)
                  /\ cache' = Left(cache, r)
                  /\ UNCHANGED <<file, mode, config>>

\* The first instance of the process: update_schema up to the write
\* transaction. get_full_schema begins to read the latest snapshot, and reads
\* its schema unless the one at hand is of that very snapshot.
AlignWithFile(r) ==
  LET fresh == transaction[r] # Latest
      known == IF fresh THEN file[Latest].version ELSE version[r]
      seen == IF fresh THEN SchemaFromGroup(file[Latest].tables) ELSE schema[r]
      kept == IF fresh THEN [cache EXCEPT ![ProcessOf[r]] =
                               CacheSchema(@, known, Latest)]
              ELSE cache
      verdict == Verdict(r, known, Compare(seen, Target(r)))
  IN /\ pc[r] = "aligning"
     /\ \A q \in Siblings(r) : pc[q] \notin Cached
     /\ \/ /\ verdict = "throws"
           /\ Gone(r)
           /\ cache' = Left(cache, r)
        \/ /\ verdict = "no"
           /\ Opened(r, SetSchema(r, seen))
           /\ version' = [version EXCEPT ![r] = known]
           /\ transaction' = [transaction EXCEPT ![r] = Latest]
           /\ cache' = kept
           /\ UNCHANGED newSchema
        \/ /\ verdict = "yes"
           /\ pc' = [pc EXCEPT ![r] = "waiting"]
           /\ group' = [group EXCEPT ![r] = Latest]
           /\ schema' = [schema EXCEPT ![r] = seen]
           /\ actual' = [actual EXCEPT ![r] = seen]
           /\ version' = [version EXCEPT ![r] = known]
           /\ transaction' = [transaction EXCEPT ![r] = Latest]
           /\ cache' = kept
           /\ UNCHANGED newSchema
     /\ UNCHANGED <<file, mode, config>>

---------------------------------------------------------------------------------
(* The schema change handler, for an instance whose schema is still that of *)
(* the file (dynamic) or that of its configuration.                         *)

\* The snapshot moves to the latest one.
Advance(r, dynamic) ==
  LET new == SchemaFromGroup(file[Latest].tables)
  IN /\ group' = [group EXCEPT ![r] = Latest]
     /\ IF Told(group[r], Latest)
        THEN /\ newSchema' = [newSchema EXCEPT ![r] = Latest]
             /\ version' = [version EXCEPT ![r] = file[Latest].version]
             /\ schema' = [schema EXCEPT ![r] = IF dynamic THEN new ELSE CopyTableColumns(@, new)]
        ELSE UNCHANGED <<newSchema, version, schema>>

\* Mutation of BeginUpdate: what was to be done before the wait is done.
BeginUpdateUnasked(r) ==
  /\ pc[r] = "waiting"
  /\ LockFree
  /\ Advance(r, TRUE)
  /\ pc' = [pc EXCEPT ![r] = "rechecked"]
  /\ UNCHANGED <<file, mode, config, cache, transaction, actual>>

\* The write transaction of an update begins. Whoever waited for the lock asks
\* again what has to be done, if the handler was called.
BeginUpdate(r) ==
  /\ pc[r] = "waiting"
  /\ LockFree
  /\ LET new == SchemaFromGroup(file[Latest].tables)
         told == Told(group[r], Latest)
         verdict == IF told THEN Verdict(r, file[Latest].version, Compare(new, Target(r)))
                    ELSE "yes"
     IN \/ /\ verdict = "throws"
           /\ Gone(r)
           /\ cache' = Left(cache, r)
        \/ /\ verdict # "throws"
           /\ Advance(r, TRUE)
           /\ actual' = IF told THEN [actual EXCEPT ![r] = new] ELSE actual
           /\ pc' = [pc EXCEPT ![r] = IF verdict = "no" THEN "satisfied" ELSE "rechecked"]
           /\ UNCHANGED <<cache, transaction>>
  /\ UNCHANGED <<file, mode, config>>

\* cache_new_schema, after each change of the snapshot.
Recached(r) ==
  IF newSchema[r] # 0
  THEN CacheSchema(Cache(r), version[r], group[r])
  ELSE AdvanceCache(Cache(r), transaction[r], group[r])

After(l) ==
  CASE l = "rechecked" -> "updating"
    [] l = "updated"   -> "finishing"
    [] l = "begun"     -> "writing"
    [] OTHER           -> "open"

CacheNewSchema(r) ==
  /\ pc[r] \in Uncached
  /\ cache' = [cache EXCEPT ![ProcessOf[r]] = Recached(r)]
  /\ transaction' = [transaction EXCEPT ![r] = group[r]]
  /\ newSchema' = [newSchema EXCEPT ![r] = 0]
  /\ \/ pc[r] = "satisfied" /\ Opened(r, SetSchema(r, actual[r]))
     \/ /\ pc[r] # "satisfied"
        /\ pc' = [pc EXCEPT ![r] = After(@)]
        /\ UNCHANGED <<group, schema, actual>>
  /\ UNCHANGED <<file, mode, config, version>>

---------------------------------------------------------------------------------
(* apply_schema_changes, in the write transaction of r. *)

Changes(r) == Compare(actual[r], Target(r))

\* The number was never written, or differs from the configuration's.
CreatesFile(r) == version[r] = NotVersioned
Migrates(r) == mode = "Automatic" /\ ~CreatesFile(r) /\ version[r] # Wanted(r)

\* Called between the additions and the removals, with the file as it was
\* committed last.
CallsMigration(r) == Migrates(r) /\ config[ProcessOf[r]] \in HasMigration

\* Only new tables may come without a new version.
CanApply(r) ==
  mode = "Additive" \/ CreatesFile(r) \/ Migrates(r) \/ NoMigrationRequired(Changes(r))

\* After a migration block the schema is read again and compared once more.
ToRemove(r, tables) ==
  IF CallsMigration(r)
  THEN Compare(SchemaFromGroup(tables), Target(r)).removed
  ELSE Changes(r).removed

NewTables(r) ==
  LET grown == Grown(file[Latest].tables, Changes(r), Target(r))
      changed == Replaced(grown, Changes(r))
  IN IF mode = "Additive" \/ ~(CreatesFile(r) \/ Migrates(r)) THEN grown
     ELSE Shrunk(changed, ToRemove(r, changed))

NewVersion(r) ==
  IF mode = "Additive"
  THEN IF version[r] < Wanted(r) \/ CreatesFile(r) THEN Wanted(r) ELSE file[Latest].version
  ELSE Wanted(r)

\* The metadata table is made with the first version.
NewLog(r) ==
  (IF file[Latest].version = NotVersioned THEN {"insert"} ELSE {})
    \cup (IF mode = "Additive" THEN Instructions(Changes(r)) \cap {"insert"}
          ELSE Instructions(Changes(r)))

ApplySchemaChanges(r) ==
  [version  |-> NewVersion(r),
   tables   |-> NewTables(r),
   migrated |-> IF CallsMigration(r)
                THEN Append(file[Latest].migrated, [from |-> file[Latest].version, to |-> Wanted(r)])
                ELSE file[Latest].migrated,
   log      |-> NewLog(r)]

\* Everything is applied and committed.
CommitUpdate(r) ==
  /\ pc[r] = "updating"
  /\ CanApply(r)
  /\ Latest < MaxSnapshots
  /\ file' = Append(file, ApplySchemaChanges(r))
  /\ group' = [group EXCEPT ![r] = Latest + 1]
  /\ pc' = [pc EXCEPT ![r] = "updated"]
  /\ UNCHANGED <<mode, config, cache, schema, version, transaction, newSchema, actual>>

\* A change needs a migration, or the migration block throws: the transaction is
\* cancelled.
UpdateFails(r) ==
  /\ pc[r] = "updating"
  /\ ~CanApply(r) \/ CallsMigration(r)
  /\ Gone(r)
  /\ cache' = Left(cache, r)
  /\ UNCHANGED <<file, mode, config>>

\* The end of update_schema: only now is the cache emptied.
FinishUpdate(r) ==
  /\ pc[r] = "finishing"
  /\ Opened(r, SetSchema(r, SchemaFromGroup(file[group[r]].tables)))
  /\ version' = [version EXCEPT ![r] = file[group[r]].version]
  /\ cache' = [cache EXCEPT ![ProcessOf[r]] = ClearCache(@, Wanted(r))]
  /\ UNCHANGED <<file, mode, config, transaction, newSchema>>

---------------------------------------------------------------------------------
(* An instance that is open. *)

\* begin_read and read_schema_from_group_if_needed. m_group and the transaction
\* are set before the schema is verified, so an error leaves the instance with
\* a snapshot and the columns of another one.
BeginRead(r) ==
  LET new == SchemaFromGroup(file[Latest].tables)
      valid == ValidExternal(Compare(schema[r], new))
      kept == [cache EXCEPT ![ProcessOf[r]] =
                 CacheSchema(@, file[Latest].version, Latest)]
  IN /\ pc[r] = "open" /\ group[r] = 0
     /\ \/ /\ transaction[r] = Latest
           /\ group' = [group EXCEPT ![r] = Latest]
           /\ UNCHANGED <<cache, pc, schema, version, transaction, newSchema, actual>>
        \/ /\ transaction[r] # Latest
           /\ valid \/ UsesAfterError
           /\ group' = [group EXCEPT ![r] = Latest]
           /\ transaction' = [transaction EXCEPT ![r] = Latest]
           /\ version' = [version EXCEPT ![r] = file[Latest].version]
           /\ schema' = [schema EXCEPT ![r] = IF valid THEN CopyTableColumns(@, new) ELSE @]
           /\ cache' = kept
           /\ UNCHANGED <<pc, newSchema, actual>>
        \/ /\ transaction[r] # Latest
           /\ ~valid
           /\ Gone(r)
           /\ cache' = Left(kept, r)
     /\ UNCHANGED <<file, mode, config>>

\* refresh, or the run loop; over a removed column it throws and nothing moves.
Refresh(r) ==
  /\ pc[r] = "open" /\ group[r] \in 1 .. Latest - 1
  /\ ~Refused(group[r], Latest)
  /\ Advance(r, FALSE)
  /\ pc' = [pc EXCEPT ![r] = "advanced"]
  /\ UNCHANGED <<file, mode, config, cache, transaction, actual>>

BeginWrite(r) ==
  /\ pc[r] = "open" /\ group[r] # 0
  /\ LockFree
  /\ ~Refused(group[r], Latest)
  /\ Advance(r, FALSE)
  /\ pc' = [pc EXCEPT ![r] = "begun"]
  /\ UNCHANGED <<file, mode, config, cache, transaction, actual>>

\* Objects change; the tables do not.
CommitWrite(r) ==
  /\ pc[r] = "writing"
  /\ Latest < MaxSnapshots
  /\ file' = Append(file, [file[Latest] EXCEPT !.log = {}])
  /\ group' = [group EXCEPT ![r] = Latest + 1]
  /\ pc' = [pc EXCEPT ![r] = "written"]
  /\ UNCHANGED <<mode, config, cache, schema, version, transaction, newSchema, actual>>

CancelWrite(r) ==
  /\ pc[r] = "writing"
  /\ pc' = [pc EXCEPT ![r] = "open"]
  /\ UNCHANGED <<file, mode, config, cache, group, schema, version, transaction, newSchema, actual>>

Invalidate(r) ==
  /\ pc[r] = "open" /\ group[r] # 0
  /\ group' = [group EXCEPT ![r] = 0]
  /\ UNCHANGED <<file, mode, config, cache, pc, schema, version, transaction, newSchema, actual>>

\* The last reference is dropped.
Release(r) ==
  /\ pc[r] = "open"
  /\ Gone(r)
  /\ cache' = Left(cache, r)
  /\ UNCHANGED <<file, mode, config>>

\* A process is killed and started again, perhaps with other code. What it had
\* not committed is lost, and the lock it held is free.
Restart(p, c) ==
  LET Mine(f, v) == [r \in Realms |-> IF ProcessOf[r] = p THEN v ELSE f[r]]
  IN /\ config' = [config EXCEPT ![p] = c]
     /\ cache' = [cache EXCEPT ![p] = EmptyCache]
     /\ pc' = Mine(pc, "closed")
     /\ group' = Mine(group, 0)
     /\ schema' = Mine(schema, NoSchema)
     /\ version' = Mine(version, NotVersioned)
     /\ transaction' = Mine(transaction, 0)
     /\ newSchema' = Mine(newSchema, 0)
     /\ actual' = Mine(actual, NoSchema)
     /\ UNCHANGED <<file, mode>>

Open(r) ==
  \/ OpenFromCache(r) \/ OpenFromFile(r) \/ CacheConstructed(r)
  \/ AlignWithThread(r) \/ AlignWithFile(r)
  \/ BeginUpdate(r) \/ CommitUpdate(r) \/ UpdateFails(r) \/ FinishUpdate(r)

Use(r) ==
  \/ BeginRead(r) \/ Refresh(r) \/ BeginWrite(r) \/ CommitWrite(r) \/ CancelWrite(r)
  \/ Invalidate(r) \/ Release(r)

Next ==
  \/ \E r \in Realms : Open(r) \/ CacheNewSchema(r) \/ Use(r)
  \/ \E p \in Processes, c \in Configs : Restart(p, c)

Spec == Init /\ [][Next]_vars

---------------------------------------------------------------------------------
(* Properties. *)

\* An instance that reads a snapshot finds each of its properties in the one
\* column of that name, of the right kind, and knows the version of that snapshot
\* (if every new version changes the tables as well: nobody is told of the number),
\* whoever has added and removed columns since it was opened
\* (copy_table_columns_from): nobody adds after the wait for the lock what
\* another process has added in the meantime (the second comparison of
\* update_schema).
RealmKnowsFile ==
  \A r \in Realms :
    pc[r] \in Cached /\ group[r] # 0 =>
      LET f == file[group[r]]
      IN /\ version[r] = f.version
         /\ DOMAIN schema[r] \subseteq DOMAIN f.tables
         /\ \A c \in DOMAIN schema[r] : \A i \in DOMAIN schema[r][c] :
              LET p == schema[r][c][i]
              IN /\ {k \in DOMAIN f.tables[c] : f.tables[c][k].name = p.name} = {p.column}
                 /\ f.tables[c][p.column] = Column(p)

\* What a thread may open an instance from is the schema and the version of every
\* snapshot the cache claims it for (cache_schema, advance_schema_cache and
\* clear_schema_cache_and_set_schema_version, called at different times by
\* different threads).
CacheIsRight ==
  \A p \in Processes :
    /\ cache[p].snapshot # 0
    /\ \A r \in Realms : ProcessOf[r] = p => pc[r] \notin {"updated", "finishing"}
    => \A s \in cache[p].min .. cache[p].max :
         file[cache[p].snapshot].tables = file[s].tables /\ cache[p].version = file[s].version

\* The version in the file only goes up, and a migration block is called for a
\* file that is older than the block's version, once for each step up, whoever
\* else was waiting to migrate (schema_change_needs_write_transaction, asked
\* before and after the lock), if every new version changes the tables as well.
HistoryInOrder ==
  /\ \A s \in 1 .. Latest - 1 : file[s].version <= file[s + 1].version
  /\ \A i \in DOMAIN file[Latest].migrated :
       LET m == file[Latest].migrated[i]
       IN m.from < m.to /\ (i > 1 => file[Latest].migrated[i - 1].to <= m.from)
=================================================================================
