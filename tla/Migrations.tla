------------------------------ MODULE Migrations ------------------------------
(***************************************************************************)
(* Running the Alembic revisions against a database (alembic/env.py,       *)
(* scripts/run_migrations.sh, start.sh, docker-compose.yml), next to       *)
(* app/db/init_db.py, which creates tables from the models.                *)
(*                                                                         *)
(* A command is one transaction (env.py opens it around run_migrations):   *)
(* its revisions change a copy of the database, which a commit makes the   *)
(* database.  Alembic emits the revisions of a command in an order that    *)
(* respects down_revision; here it is any such order.  Commands do not     *)
(* overlap.                                                                *)
(***************************************************************************)
EXTENDS AlembicRevisions, Naturals, Sequences

CONSTANT MaxRepairs  \* bound on the commands that are not upgrades

ASSUME RepairBound == MaxRepairs \in Nat

VARIABLES
    db,       \* the committed database: its schema, and the rows of alembic_version
    tx,       \* the command under way: the revisions it has still to run, and its copy
    failure,  \* how the last command failed
    ran,      \* history: the revisions that ran, and were not downgraded since
    touched,  \* history: the other changes made to the schema
    repairs   \* the number of commands so far that were not upgrades

vars == <<db, tx, failure, ran, touched, repairs>>

Revisions == DOMAIN Versions

\* A revision and all it comes after.
Ancestors ==
    LET from[r \in Revisions] ==
            {r} \cup UNION {from[p] : p \in Versions[r].down_revision}
    IN  [r \in Revisions |-> from[r]]

\* The revisions nothing comes after.
Heads == {r \in Revisions : \A c \in Revisions : r \notin Versions[c].down_revision}

\* What the rows of alembic_version say has been applied.
Applied(version) == UNION {Ancestors[r] : r \in version}

NoSchema == [o \in {} |-> ""]
OnlyPostGIS == [o \in {PostGIS} |-> "postgis"]

NoTx == [cmd |-> "none", todo |-> {}, schema |-> NoSchema, version |-> {}]

NoFailure == [cmd |-> "none", why |-> "none", rev |-> "none"]

-----------------------------------------------------------------------------
(* Commands                                                                *)

Begin(cmd, todo) ==
    /\ tx = NoTx
    /\ todo # {}
    /\ tx' = [cmd |-> cmd, todo |-> todo, schema |-> db.schema, version |-> db.version]
    /\ failure' = NoFailure
    /\ UNCHANGED <<db, ran, touched>>

Repair == repairs < MaxRepairs /\ repairs' = repairs + 1

\* alembic upgrade heads
UpgradeHeads == Begin("upgrade", Revisions \ Applied(db.version)) /\ UNCHANGED repairs

\* alembic upgrade <r>
UpgradeTo ==
    \E r \in Revisions :
        Begin("upgrade", Ancestors[r] \ Applied(db.version)) /\ UNCHANGED repairs

\* alembic upgrade head is an error while there are several.
UpgradeHead ==
    /\ tx = NoTx
    /\ Cardinality(Heads) > 1
    /\ failure' = [cmd |-> "upgrade head", why |-> "multiple heads", rev |-> "none"]
    /\ UNCHANGED <<db, tx, ran, touched, repairs>>

\* alembic downgrade <r>: the applied revisions after r.
DowngradeTo ==
    /\ Repair
    /\ \E r \in Applied(db.version) :
        Begin("downgrade", {x \in Applied(db.version) \ {r} : r \in Ancestors[x]})

\* alembic downgrade base
DowngradeBase == Repair /\ Begin("downgrade", Applied(db.version))

Stamped == "daa5cac943ac"

\* alembic stamp daa5cac943ac: the row replaces those it comes after and those
\* that come after it; no revision runs.
StampDaa5 ==
    LET related == {v \in db.version : v \in Ancestors[Stamped] \/ Stamped \in Ancestors[v]}
    IN  /\ Repair
        /\ tx = NoTx
        /\ Stamped \notin db.version
        /\ db' = [db EXCEPT !.version = (db.version \ related) \cup {Stamped}]
        /\ failure' = NoFailure
        /\ UNCHANGED <<tx, ran, touched>>

\* init_db: the extension, and the tables that are missing.
InitDb ==
    LET schema == Apply(db.schema, Models, "models")
    IN  /\ Repair
        /\ tx = NoTx
        /\ schema # db.schema
        /\ db' = [db EXCEPT !.schema = schema]
        /\ touched' = touched \cup {"models"}
        /\ failure' = NoFailure
        /\ UNCHANGED <<tx, ran>>

-----------------------------------------------------------------------------
(* The revisions of a command                                              *)

\* Mutant of Advanced: the rows of the parents stay.
AdvancedKeepingAll(version, r) == version \cup {r}

\* alembic_version after the upgrade of r.
Advanced(version, r) == (version \ Ancestors[r]) \cup {r}

\* alembic_version after the downgrade of r.
Retreated(version, r) ==
    LET rest == version \ {r}
    IN  rest \cup (Versions[r].down_revision \ Applied(rest))

ReadyUp(r) ==
    /\ tx.cmd = "upgrade"
    /\ r \in tx.todo
    /\ Versions[r].down_revision \cap tx.todo = {}

ReadyDown(r) ==
    /\ tx.cmd = "downgrade"
    /\ r \in tx.todo
    /\ \A x \in tx.todo \ {r} : r \notin Ancestors[x]

RunUpgrade ==
    \E r \in Revisions :
        /\ ReadyUp(r)
        /\ Fits(tx.schema, Versions[r].upgrade)
        /\ tx' = [tx EXCEPT !.todo = @ \ {r},
                            !.schema = Apply(@, Versions[r].upgrade, r),
                            !.version = Advanced(@, r)]
        /\ UNCHANGED <<db, failure, ran, touched, repairs>>

RunDowngrade ==
    \E r \in Revisions :
        /\ ReadyDown(r)
        /\ Fits(tx.schema, Versions[r].downgrade)
        /\ tx' = [tx EXCEPT !.todo = @ \ {r},
                            !.schema = Apply(@, Versions[r].downgrade, Versions[r].restores),
                            !.version = Retreated(@, r)]
        /\ UNCHANGED <<db, failure, ran, touched, repairs>>

\* A statement that does not fit the schema ends the command.
RevisionFails ==
    \E r \in Revisions :
        /\ \/ ReadyUp(r) /\ ~Fits(tx.schema, Versions[r].upgrade)
           \/ ReadyDown(r) /\ ~Fits(tx.schema, Versions[r].downgrade)
        /\ failure' = [cmd |-> tx.cmd, why |-> "schema", rev |-> r]
        /\ tx' = NoTx
        /\ UNCHANGED <<db, ran, touched, repairs>>

\* So does a row that does not convert or is not unique, or a lost connection.
Interrupted ==
    /\ tx # NoTx
    /\ tx' = NoTx
    /\ UNCHANGED <<db, failure, ran, touched, repairs>>

Commit ==
    LET done == (Applied(tx.version) \ Applied(db.version))
                    \cup (Applied(db.version) \ Applied(tx.version))
    IN  /\ tx # NoTx
        /\ tx.todo = {}
        /\ db' = [schema |-> tx.schema, version |-> tx.version]
        /\ ran' = IF tx.cmd = "upgrade" THEN ran \cup done ELSE ran \ done
        /\ touched' = IF tx.cmd = "upgrade" THEN touched ELSE touched \cup {"downgrade"}
        /\ tx' = NoTx
        /\ UNCHANGED <<failure, repairs>>

-----------------------------------------------------------------------------
(* Specification                                                           *)

\* A new database, with or without PostGIS.
Init ==
    /\ \E schema \in {NoSchema, OnlyPostGIS} : db = [schema |-> schema, version |-> {}]
    /\ tx = NoTx
    /\ failure = NoFailure
    /\ ran = {}
    /\ touched = {}
    /\ repairs = 0

Next ==
    \/ UpgradeHeads \/ UpgradeTo \/ UpgradeHead
    \/ DowngradeTo \/ DowngradeBase
    \/ StampDaa5 \/ InitDb
    \/ RunUpgrade \/ RunDowngrade \/ RevisionFails \/ Interrupted \/ Commit

Spec == Init /\ [][Next]_vars

-----------------------------------------------------------------------------
(* What the statements of app/main.py name                                 *)

\* The searches.
SearchNames ==
    Of("stations", {"cs_id", "address", "name", "location"}) \cup
    Of("chargers", {"cs_id", "cp_stat"})

\* The upsert of a station, and the index ON CONFLICT (cs_id) needs; the statements
\* of the detail handler name the same.
StationNames ==
    Of("stations", {"id", "cs_id", "address", "name", "location", "raw_data",
        "last_synced_at", "ix_stations_cs_id"})

\* The station of a detail request, with the fallback query, and its chargers.
DetailNames ==
    Of("stations", {"id", "cs_id", "name", "address", "location", "updated_at",
        "static_data_updated_at"}) \cup
    Of("chargers", {"station_id", "cp_id", "cp_nm", "cp_stat", "charge_tp", "cs_id",
        "stat_update_datetime", "kepco_stat_update_datetime"})

\* The upsert of a charger: its columns, and the index ON CONFLICT (cp_id) needs.
ChargerNames ==
    Of("chargers", {"station_id", "cp_id", "cp_nm", "cp_stat", "charge_tp", "cs_id",
        "stat_update_datetime", "kepco_stat_update_datetime", "ix_chargers_cp_id"})

\* The subsidy lookup.
SubsidyNames ==
    Of("subsidies", {"manufacturer", "model_group", "model_name",
        "subsidy_national_10k_won", "subsidy_local_10k_won", "subsidy_total_10k_won",
        "sale_price"})

Served == SearchNames \cup StationNames \cup DetailNames \cup ChargerNames \cup SubsidyNames

\* Whose definition of the index ON CONFLICT needs is a unique index.
UniqueCsId == [of |-> <<"stations", "ix_stations_cs_id">>, by |-> {"models"}]
UniqueCpId ==
    [of |-> <<"chargers", "ix_chargers_cp_id">>,
     by |-> {"20251023_add_additional_kepco_fields", "20251025_add_cp_fields_migration",
             "models"}]

\* Whose definition of a column is NOT NULL without a default in the database
\* (those of the models are computed by SQLAlchemy, for objects, not statements).
Required ==
    {[of |-> o, by |-> {"60afb71f58fe", "models"}] :
        o \in Of("stations", {"station_code", "name"}) \cup Of("chargers", {"station_id"})} \cup
    {[of |-> o, by |-> {"a22583938b64", "models"}] : o \in Of("chargers", {"charger_code"})} \cup
    {[of |-> o, by |-> {"models"}] :
        o \in Of("stations", {"created_at", "updated_at"}) \cup
             Of("chargers", {"created_at", "updated_at"})}

\* A statement of a handler: what it names, the definitions it needs, and the table
\* it adds a row to.
Statement(names, types, into) == [names |-> names, types |-> types, into |-> into]

Reads == {Statement(names, {}, "none") : names \in {SearchNames, DetailNames, SubsidyNames}}

\* A charger may come with the provider's time, which is passed as a string.
Upserts ==
    {Statement(StationNames, {UniqueCsId}, "stations"),
     Statement(ChargerNames, {UniqueCpId}, "chargers"),
     Statement(ChargerNames, {UniqueCpId, [of |-> Kepco, by |-> TextKepco]}, "chargers")}

\* The schema has what s names, as s needs it, and s gives every column that may
\* not be left out.
Accepts(schema, s) ==
    /\ s.names \subseteq DOMAIN schema
    /\ \A t \in s.types : schema[t.of] \in t.by
    /\ \A c \in Required :
            c.of[1] = s.into /\ c.of \in DOMAIN schema /\ schema[c.of] \in c.by
            => c.of \in s.names

-----------------------------------------------------------------------------
(* Properties                                                              *)

Definers == Revisions \cup {"postgis", "legacy", "models"}

IsSchema(schema) ==
    /\ \A o \in DOMAIN schema : schema[o] \in Definers
    /\ \A o \in DOMAIN schema : DependsOn(o) \subseteq DOMAIN schema

\* No row of alembic_version comes after another.
IsVersion(version) ==
    /\ version \subseteq Revisions
    /\ \A r, v \in version : r \in Ancestors[v] => r = v

\* The shape of the state: schemas are closed under what objects depend on, and
\* alembic_version holds the latest revision of each branch.
TypeOK ==
    /\ IsSchema(db.schema) /\ IsVersion(db.version)
    /\ IsSchema(tx.schema) /\ IsVersion(tx.version)
    /\ tx.cmd \in {"none", "upgrade", "downgrade"}
    /\ tx.todo \subseteq Revisions
    /\ failure.cmd \in {"none", "upgrade", "downgrade", "upgrade head"}
    /\ failure.why \in {"none", "schema", "multiple heads"}
    /\ failure.rev \in Revisions \cup {"none"}
    /\ ran \subseteq Revisions
    /\ touched \subseteq {"downgrade", "models"}
    /\ repairs \in 0 .. MaxRepairs

\* No command is under way, nothing but upgrades has changed the schema, and what
\* alembic_version says has been applied has.
Upgraded == tx.cmd = "none" /\ touched = {} /\ Applied(db.version) \subseteq ran

\* The revisions in the order of their dates.
History == <<"60afb71f58fe", "b7a145511e70", "a22583938b64", "d6b8f2f8579d",
    "82564d70969d", "daa5cac943ac", "9508604ce511", "aa1b2c3d4e5f",
    "bb_add_external_fields", "c1d2e3f4add", "0f42d4f96fa6", "20251020_add_kepco_fields",
    "d8c47bac145f", "20251023_add_additional_kepco_fields",
    "20251025_add_station_api_compat", "20251025_add_cp_fields_migration",
    "20251028_add_sale_price", "20251028_convert_kepco_ts_to_timestamptz",
    "20251031_subsidy_data_migration">>

\* The schema that the revisions of S build when each runs once, in that order.
Built(S) ==
    LET after[i \in 0 .. Len(History)] ==
            IF i = 0 THEN IF PostGIS \in DOMAIN db.schema THEN OnlyPostGIS ELSE NoSchema
            ELSE IF History[i] \in S
                 THEN Apply(after[i - 1], Versions[History[i]].upgrade, History[i])
                 ELSE after[i - 1]
    IN  after[Len(History)]

\* In whatever order branches and single revisions are upgraded, in however many
\* commands, and even when a stamp makes revisions run again over their own
\* results, the schema is the one that running each of them once, by date, builds.
SchemaIsWhatRan == Upgraded => db.schema = Built(ran)

\* An upgrade finds the schema its statements need, in every order of the
\* branches and also where a stamp makes it run again, with two exceptions: the
\* first revision needs the extension that a later one creates, and the
\* conversion to TIMESTAMPTZ cannot run over its own result.
UpgradesFit ==
    Upgraded /\ failure.cmd = "upgrade" =>
        \/ failure.rev = "60afb71f58fe" /\ PostGIS \notin DOMAIN db.schema
        \/ /\ failure.rev = "20251028_convert_kepco_ts_to_timestamptz"
           /\ failure.rev \in ran

\* With all revisions a database answers whatever the handlers read, and with
\* any of them, in whatever order and commands they came, it refuses each of the
\* upserts by which the handlers would keep what KEPCO told them: the index on
\* cs_id is not unique, and charger_code, which they do not give, is NOT NULL from
\* the time there are the columns they do give.
HandlersOnlyRead ==
    Upgraded =>
        /\ db.version = Heads => \A s \in Reads : Accepts(db.schema, s)
        /\ \A s \in Upserts : ~Accepts(db.schema, s)

\* An upgrade, which may run while handlers serve requests, never takes away a
\* column or an index that their statements name, whatever was stamped,
\* downgraded or created from the models before.
ServedSurvive ==
    [][tx.cmd = "upgrade" =>
            Served \cap DOMAIN db.schema \subseteq DOMAIN db'.schema]_vars

\* What is left after a downgrade was defined by a revision that is still in
\* force: a downgrade leaves nothing of its own behind.
DowngradesLeaveNothing ==
    tx.cmd = "none" => \A o \in DOMAIN db.schema :
        db.schema[o] \in ran \cup {"postgis", "legacy", "models"}

\* The revisions whose downgrade drops every table.
DropAll == {"daa5cac943ac", "9508604ce511"}

\* Those that only make sure of something, whose downgrade drops it whoever made it,
\* with the revisions that did.
DropsOfOthers ==
    {<<"aa1b2c3d4e5f", "60afb71f58fe">>,
     <<"20251025_add_cp_fields_migration", "20251023_add_additional_kepco_fields">>,
     <<"20251025_add_station_api_compat", "20251023_add_additional_kepco_fields">>}

\* A downgrade takes nothing away that belongs to a revision which stays applied,
\* whatever was stamped, repeated or created from the models before, except where
\* it drops every table, or what it made sure of with IF NOT EXISTS and another
\* revision had made.
DowngradesSpareOthers ==
    [][\A r \in Revisions :
        tx.cmd = "downgrade" /\ tx'.cmd = "downgrade" /\ r \in tx.todo \ tx'.todo =>
            \A o \in DOMAIN tx.schema \ DOMAIN tx'.schema :
                \/ tx.schema[o] \notin Applied(tx'.version)
                \/ r \in DropAll
                \/ <<r, tx.schema[o]>> \in DropsOfOthers]_vars

===============================================================================
