--------------------------- MODULE AlembicRevisions ---------------------------
(***************************************************************************)
(* The Alembic revisions of alembic/versions: the revisions each of them   *)
(* follows, and what its upgrade and its downgrade ask of the schema and   *)
(* do to it.                                                               *)
(*                                                                         *)
(* A schema maps every table, column, index and constraint there is to the *)
(* revision whose definition of it is in force, so that two definitions of *)
(* one column (VARCHAR and TIMESTAMPTZ, say) are told apart by their       *)
(* authors.  Comments on columns, and rows, are left out.                  *)
(***************************************************************************)
EXTENDS FiniteSets

\* The table t, and members of it by name.
Table(t) == <<t, "table">>
Of(t, names) == {<<t, n>> : n \in names}

\* CREATE EXTENSION postgis brings this table along.
PostGIS == Table("spatial_ref_sys")

\* The columns an index or a unique constraint is on.
On == [ix_api_logs_id |-> {"id"},
       ix_stations_id |-> {"id"}, ix_stations_station_code |-> {"station_code"},
       idx_stations_location |-> {"location"}, ix_stations_location |-> {"location"},
       ix_stations_name |-> {"name"}, ix_stations_cs_id |-> {"cs_id"},
       ix_stations_addr |-> {"addr"},
       ix_chargers_id |-> {"id"}, ix_chargers_station_id |-> {"station_id"},
       _station_charger_uc |-> {"station_id", "charger_code"},
       uq_station_charger_code |-> {"station_id", "charger_code"},
       idx_chargers_location |-> {"location"}, ix_chargers_cp_id |-> {"cp_id"},
       ix_chargers_cp_stat |-> {"cp_stat"}, ix_chargers_cs_id |-> {"cs_id"},
       ix_subsidies_id |-> {"id"}, ix_subsidies_manufacturer |-> {"manufacturer"},
       ix_subsidies_model_group |-> {"model_group"},
       ix_users_id |-> {"id"}, ix_users_role |-> {"role"}, ix_users_username |-> {"username"}]

\* What o cannot exist without: its table, and the columns it is on.
DependsOn(o) ==
    {Table(o[1])} \cup (IF o[2] \in DOMAIN On THEN Of(o[1], On[o[2]]) ELSE {})

-----------------------------------------------------------------------------
(* One direction of a revision                                             *)

\* A revision that does nothing.
Pass == [needs |-> {},     \* statements name these
         types |-> {},     \* [of, by]: expressions that need a definition of "of" by one of "by"
         drops |-> {},     \* DROP: an error if it is missing
         discards |-> {},  \* DROP ... IF EXISTS
         creates |-> {},   \* CREATE, ADD: an error if it exists
         tables |-> {},    \* CREATE TABLE IF NOT EXISTS: a table with its columns, or nothing
         ensures |-> {},   \* ADD COLUMN, CREATE INDEX ... IF NOT EXISTS
         alters |-> {}]    \* ALTER COLUMN: a new type or nullability

\* What is left when R and all that depends on it are dropped.
Without(schema, R) ==
    IF R = {} THEN schema
    ELSE [o \in {x \in DOMAIN schema : \A d \in R : d # x /\ d \notin DependsOn(x)} |->
            schema[o]]

\* The objects a step adds to what its drops have left.
Added(left, step) ==
    step.creates
        \cup {o \in step.tables : Table(o[1]) \notin DOMAIN left}
        \cup (step.ensures \ DOMAIN left)

\* The schema after the step; what it adds or alters is as "by" defines it.
Apply(schema, step, by) ==
    LET left == Without(schema, step.drops \cup step.discards)
        new == Added(left, step)
        defined == new \cup step.alters
    IN  [o \in DOMAIN left \cup new |-> IF o \in defined THEN by ELSE left[o]]

\* No statement of the step is an error.
Fits(schema, step) ==
    LET left == Without(schema, step.drops \cup step.discards)
        new == Added(left, step)
        all == DOMAIN left \cup new
    IN  /\ step.needs \cup step.alters \cup step.drops \subseteq DOMAIN schema
        /\ \A t \in step.types : t.of \in DOMAIN schema /\ schema[t.of] \in t.by
        /\ step.creates \cap DOMAIN left = {}
        /\ UNION {DependsOn(o) : o \in new} \subseteq all

\* down_revision, upgrade() and downgrade(); restores: whose definitions the
\* downgrade brings back.
Revision(down, up, undo, restores) ==
    [down_revision |-> down, upgrade |-> up, downgrade |-> undo, restores |-> restores]

-----------------------------------------------------------------------------
(* The revisions                                                           *)

Kepco == <<"chargers", "kepco_stat_update_datetime">>

ApiLogFields == Of("api_logs", {"endpoint", "method", "api_type", "status_code"})

Rev_60afb71f58fe == Revision({},
    [Pass EXCEPT
        !.needs = {PostGIS},
        !.tables =
            Of("api_logs", {"table", "id", "endpoint", "method", "api_type", "request_time",
                "status_code", "response_code", "response_msg", "response_time_ms"}) \cup
            Of("stations", {"table", "id", "station_code", "name", "address", "location",
                "provider", "created_at", "updated_at"}) \cup
            Of("chargers", {"table", "id", "station_id", "charger_code", "charger_type",
                "output_kw", "connector_type", "status_code", "created_at", "updated_at"}),
        !.ensures =
            Of("api_logs", {"ix_api_logs_id"}) \cup
            Of("stations", {"ix_stations_station_code", "ix_stations_id",
                "idx_stations_location"}) \cup
            Of("chargers", {"ix_chargers_id", "ix_chargers_station_id"})],
    [Pass EXCEPT
        !.discards = {Table("chargers"), Table("stations"), Table("api_logs")}],
    "")

Rev_aa1b2c3d4e5f == Revision({"60afb71f58fe"},
    [Pass EXCEPT !.tables = {PostGIS}, !.ensures = Of("stations", {"idx_stations_location"})],
    [Pass EXCEPT !.discards = Of("stations", {"idx_stations_location"})],
    "")

Rev_b7a145511e70 == Revision({"60afb71f58fe"}, Pass, Pass, "")

LegacyTables == {Table("api_log"), Table("station"), Table("charger")}

\* A column's new comment names the column.
Downgrade_a22583938b64 ==
    [Pass EXCEPT
        !.needs = Of("api_logs", {"id", "response_code"}) \cup
                  Of("chargers", {"charger_type", "connector_type", "status_code"}) \cup
                  Of("station", {"station_station_id_seq"}),
        !.discards = Of("chargers", {"_station_charger_uc"}),
        !.creates = LegacyTables \cup {PostGIS} \cup
                    Of("chargers", {"uq_station_charger_code"}) \cup
                    Of("api_logs", {"request_time", "response_time_ms", "response_msg"}),
        !.alters = ApiLogFields \cup Of("chargers", {"charger_code", "output_kw"})]

Rev_a22583938b64 == Revision({"b7a145511e70"},
    [Pass EXCEPT
        !.needs = Of("api_logs", {"response_code"}) \cup
                  Of("chargers", {"charger_type", "connector_type", "status_code"}),
        !.discards = LegacyTables \cup Of("chargers", {"uq_station_charger_code"}),
        !.drops = Of("api_logs", {"request_time", "response_time_ms", "response_msg"}),
        !.creates = Of("chargers", {"_station_charger_uc"}),
        !.alters = ApiLogFields \cup Of("chargers", {"charger_code", "output_kw"})],
    Downgrade_a22583938b64,
    "60afb71f58fe")

Rev_d6b8f2f8579d == Revision({"a22583938b64"}, Pass, Pass, "")

\* The columns of which 82564d70969d changes the comment.
Commented ==
    ApiLogFields \cup Of("api_logs", {"response_code"}) \cup
    Of("chargers", {"id", "station_id", "charger_code", "charger_type", "connector_type",
        "output_kw", "status_code", "created_at", "updated_at"}) \cup
    Of("stations", {"id", "station_code", "name", "address", "provider", "location",
        "created_at", "updated_at"})

SubsidyIndexes ==
    Of("subsidies", {"ix_subsidies_id", "ix_subsidies_manufacturer", "ix_subsidies_model_group"})

Downgrade_82564d70969d ==
    [Pass EXCEPT
        !.needs = Commented,
        !.creates = Of("stations", {"ix_stations_name"}),
        !.drops = Of("api_logs", {"response_msg"}) \cup {Table("subsidies")}]

Rev_82564d70969d == Revision({"d6b8f2f8579d"},
    [Pass EXCEPT
        !.needs = Commented,
        !.creates =
            Of("subsidies", {"table", "id", "manufacturer", "model_group", "model_name",
                "subsidy_national_10k_won", "subsidy_local_10k_won",
                "subsidy_total_10k_won"}) \cup
            SubsidyIndexes \cup Of("api_logs", {"response_msg"}),
        !.discards = Of("stations", {"ix_stations_name"})],
    Downgrade_82564d70969d,
    "legacy")

\* The downgrade of 9508604ce511 and of daa5cac943ac, with its indexes.
DropEverything ==
    [Pass EXCEPT !.drops = {Table("chargers"), Table("users"), Table("subsidies"),
                            Table("stations"), Table("api_logs")}]

Rev_daa5cac943ac == Revision({"82564d70969d"},
    [Pass EXCEPT !.creates =
        Of("users", {"table", "id", "username", "hashed_password", "role", "created_at",
            "updated_at", "ix_users_id", "ix_users_role", "ix_users_username"})],
    DropEverything,
    "")

Rev_9508604ce511 == Revision({"daa5cac943ac"}, Pass, DropEverything, "")

ExternalColumns ==
    Of("stations", {"external_bid", "external_cp_id", "raw_data", "last_synced_at"}) \cup
    Of("chargers", {"external_charger_id", "manufacturer", "model", "connector_types"})

\* Mutant of Rev_bb_add_external_fields: the columns are added unconditionally.
Rev_bb_unconditional == Revision({"aa1b2c3d4e5f"},
    [Pass EXCEPT !.creates = ExternalColumns],
    [Pass EXCEPT !.drops = ExternalColumns],
    "")

\* Mutant of Rev_bb_add_external_fields: the downgrade forgets a column.
Rev_bb_forgetful == Revision({"aa1b2c3d4e5f"},
    [Pass EXCEPT !.ensures = ExternalColumns],
    [Pass EXCEPT !.drops = ExternalColumns \ Of("stations", {"last_synced_at"})],
    "")

Rev_bb_add_external_fields == Revision({"aa1b2c3d4e5f"},
    [Pass EXCEPT !.ensures = ExternalColumns],
    [Pass EXCEPT !.drops = ExternalColumns],
    "")

ChargerLocation == Of("chargers", {"location", "idx_chargers_location"})

\* Mutant of Rev_c1d2e3f4add: the downgrade drops the stations' location.
Rev_c1d2e3f4add_of_stations == Revision({"bb_add_external_fields"},
    [Pass EXCEPT !.needs = {PostGIS}, !.ensures = ChargerLocation],
    [Pass EXCEPT !.discards = ChargerLocation \cup Of("stations", {"location"})],
    "")

Rev_c1d2e3f4add == Revision({"bb_add_external_fields"},
    [Pass EXCEPT !.needs = {PostGIS}, !.ensures = ChargerLocation],
    [Pass EXCEPT !.discards = ChargerLocation],
    "")

KepcoFields ==
    Of("stations", {"cs_id"}) \cup Of("chargers", {"cp_stat_raw", "stat_update_datetime"})

Rev_20251020_add_kepco_fields == Revision({"bb_add_external_fields"},
    [Pass EXCEPT !.ensures = KepcoFields],
    [Pass EXCEPT !.drops = KepcoFields],
    "")

Rev_0f42d4f96fa6 == Revision({"9508604ce511", "c1d2e3f4add"}, Pass, Pass, "")

Rev_d8c47bac145f == Revision({"0f42d4f96fa6", "20251020_add_kepco_fields"}, Pass, Pass, "")

AdditionalFields ==
    Of("stations", {"cs_nm", "addr", "lat", "longi", "static_data_updated_at",
        "dynamic_data_updated_at", "ix_stations_cs_id", "ix_stations_addr"}) \cup
    Of("chargers", {"cp_id", "cp_nm", "charge_tp", "cp_tp", "cp_stat",
        "kepco_stat_update_datetime", "cs_id", "ix_chargers_cp_id", "ix_chargers_cp_stat",
        "ix_chargers_cs_id"})

Rev_20251023_add_additional_kepco_fields == Revision({"d8c47bac145f"},
    [Pass EXCEPT !.ensures = AdditionalFields],
    [Pass EXCEPT !.needs = {Table("chargers"), Table("stations")},
                 !.discards = AdditionalFields],
    "")

CpFields ==
    Of("chargers", {"cp_id", "cp_nm", "cp_stat", "charge_tp", "cs_id", "ix_chargers_cp_id"})

Rev_20251025_add_cp_fields_migration == Revision({"20251023_add_additional_kepco_fields"},
    [Pass EXCEPT !.ensures = CpFields],
    [Pass EXCEPT !.needs = {Table("chargers")}, !.discards = CpFields],
    "")

CompatFields ==
    Of("stations", {"cs_nm", "addr", "lat", "longi", "ix_stations_addr", "ix_stations_cs_id"})

\* Mutant of Rev_20251025_add_station_api_compat: it does not follow the
\* revision whose columns it makes sure of.
Rev_20251025_too_early == Revision({"20251020_add_kepco_fields"},
    [Pass EXCEPT !.needs = Of("stations", {"name", "address", "location"}) \cup {PostGIS},
                 !.ensures = CompatFields],
    [Pass EXCEPT !.needs = {Table("stations")}, !.discards = CompatFields],
    "")

\* The names in needs are those the backfill reads.
Rev_20251025_add_station_api_compat == Revision({"20251023_add_additional_kepco_fields"},
    [Pass EXCEPT !.needs = Of("stations", {"name", "address", "location"}) \cup {PostGIS},
                 !.ensures = CompatFields],
    [Pass EXCEPT !.needs = {Table("stations")}, !.discards = CompatFields],
    "")

\* Whose definition of Kepco is a VARCHAR, and whose is a TIMESTAMPTZ.
TextKepco == {"20251023_add_additional_kepco_fields"}
TimestampKepco == {"20251028_convert_kepco_ts_to_timestamptz", "models"}

\* Mutant of Rev_20251028_convert_kepco_ts_to_timestamptz: the column is dropped,
\* its copy is not renamed.
Rev_20251028_not_renamed == Revision({"20251025_add_cp_fields_migration"},
    [Pass EXCEPT !.types = {[of |-> Kepco, by |-> TextKepco]},
                 !.drops = {Kepco},
                 !.creates = Of("chargers", {"kepco_stat_update_datetime_tz"})],
    [Pass EXCEPT !.types = {[of |-> Kepco, by |-> TimestampKepco]},
                 !.drops = {Kepco},
                 !.creates = {Kepco}],
    "20251023_add_additional_kepco_fields")

\* A copy of the other type is filled, the column dropped, the copy renamed.
Rev_20251028_convert_kepco_ts_to_timestamptz == Revision({"20251025_add_cp_fields_migration"},
    [Pass EXCEPT !.types = {[of |-> Kepco, by |-> TextKepco]},
                 !.drops = {Kepco},
                 !.creates = {Kepco}],
    [Pass EXCEPT !.types = {[of |-> Kepco, by |-> TimestampKepco]},
                 !.drops = {Kepco},
                 !.creates = {Kepco}],
    "20251023_add_additional_kepco_fields")

SalePrice == Of("subsidies", {"sale_price"})

Rev_20251028_add_sale_price == Revision({"82564d70969d"},
    [Pass EXCEPT !.creates = SalePrice],
    [Pass EXCEPT !.drops = SalePrice],
    "")

\* UPDATEs of the names in rows, in both directions.
Rev_20251031_subsidy_data_migration == Revision({"20251028_add_sale_price"},
    [Pass EXCEPT !.needs = Of("subsidies", {"model_name"})],
    [Pass EXCEPT !.needs = Of("subsidies", {"model_name"})],
    "")

Versions ==
    [60afb71f58fe |-> Rev_60afb71f58fe,
     aa1b2c3d4e5f |-> Rev_aa1b2c3d4e5f,
     b7a145511e70 |-> Rev_b7a145511e70,
     a22583938b64 |-> Rev_a22583938b64,
     d6b8f2f8579d |-> Rev_d6b8f2f8579d,
     82564d70969d |-> Rev_82564d70969d,
     daa5cac943ac |-> Rev_daa5cac943ac,
     9508604ce511 |-> Rev_9508604ce511,
     bb_add_external_fields |-> Rev_bb_add_external_fields,
     c1d2e3f4add |-> Rev_c1d2e3f4add,
     20251020_add_kepco_fields |-> Rev_20251020_add_kepco_fields,
     0f42d4f96fa6 |-> Rev_0f42d4f96fa6,
     d8c47bac145f |-> Rev_d8c47bac145f,
     20251023_add_additional_kepco_fields |-> Rev_20251023_add_additional_kepco_fields,
     20251025_add_cp_fields_migration |-> Rev_20251025_add_cp_fields_migration,
     20251025_add_station_api_compat |-> Rev_20251025_add_station_api_compat,
     20251028_convert_kepco_ts_to_timestamptz |->
        Rev_20251028_convert_kepco_ts_to_timestamptz,
     20251028_add_sale_price |-> Rev_20251028_add_sale_price,
     20251031_subsidy_data_migration |-> Rev_20251031_subsidy_data_migration]

\* Base.metadata.create_all of app/models.py: each missing table, with all its
\* columns and indexes.
Models == [Pass EXCEPT !.tables =
    {PostGIS} \cup
    Of("api_logs", {"table", "id", "endpoint", "method", "api_type", "status_code",
        "response_code", "response_msg", "ix_api_logs_id"}) \cup
    Of("stations", {"table", "id", "station_code", "name", "address", "provider", "location",
        "created_at", "updated_at", "cs_id", "cs_nm", "addr", "lat", "longi",
        "static_data_updated_at", "dynamic_data_updated_at", "ix_stations_id",
        "ix_stations_station_code", "ix_stations_cs_id", "ix_stations_addr",
        "idx_stations_location", "ix_stations_location"}) \cup
    Of("chargers", {"table", "id", "station_id", "charger_code", "charger_type", "output_kw",
        "connector_type", "status_code", "created_at", "updated_at", "cp_id", "cp_nm",
        "charge_tp", "cp_tp", "cp_stat", "kepco_stat_update_datetime", "cs_id",
        "ix_chargers_id", "ix_chargers_station_id", "_station_charger_uc",
        "ix_chargers_cp_id", "ix_chargers_cp_stat", "ix_chargers_cs_id"}) \cup
    ExternalColumns \cup KepcoFields \cup
    Of("subsidies", {"table", "id", "manufacturer", "model_group", "model_name",
        "subsidy_national_10k_won", "subsidy_local_10k_won", "subsidy_total_10k_won",
        "sale_price"}) \cup SubsidyIndexes \cup
    Of("users", {"table", "id", "username", "hashed_password", "role", "created_at",
        "updated_at", "ix_users_id", "ix_users_role", "ix_users_username"})]

===============================================================================
