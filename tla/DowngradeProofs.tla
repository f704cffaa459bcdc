---------------------------- MODULE DowngradeProofs ----------------------------
(***************************************************************************)
(* Proof that a downgrade takes away nothing of a revision that stays      *)
(* applied, but for the exceptions DowngradesSpareOthers names.            *)
(*                                                                         *)
(* Every definition a schema says is a revision's is one its upgrade makes *)
(* (Owned).  So the proof compares what each downgrade cuts with what each *)
(* upgrade defines: where they meet, the second revision is the first one, *)
(* or comes after it and has been undone before, or is an exception.       *)
(***************************************************************************)
EXTENDS MigrationsProofs

-----------------------------------------------------------------------------
(* What upgrades define                                                    *)

\* o has one of these names in the table t.
Within(o, t, names) == o[1] = t /\ o[2] \in names

LEMMA MembersAreWithin ==
  ASSUME NEW t, NEW names
  PROVE  \A o \in Of(t, names) : Within(o, t, names)
BY DEF Of, Within

FirstOfStations ==
    {"table", "id", "station_code", "name", "address", "location", "provider", "created_at",
     "updated_at", "ix_stations_station_code", "ix_stations_id", "idx_stations_location"}

FirstOfChargers ==
    {"table", "id", "station_id", "charger_code", "charger_type", "output_kw",
     "connector_type", "status_code", "created_at", "updated_at", "ix_chargers_id",
     "ix_chargers_station_id"}

LEMMA FirstDefines ==
  \A o \in Defines(Versions["60afb71f58fe"].upgrade) :
        \/ o[1] = "api_logs"
        \/ Within(o, "stations", FirstOfStations)
        \/ Within(o, "chargers", FirstOfChargers)
<1>1. Defines(Versions["60afb71f58fe"].upgrade) =
        Rev_60afb71f58fe.upgrade.tables \cup Rev_60afb71f58fe.upgrade.ensures
  BY PlainUpgrades DEF Adds, Defines
<1>2. Rev_60afb71f58fe.upgrade.tables =
        Of("api_logs", {"table", "id", "endpoint", "method", "api_type", "request_time",
            "status_code", "response_code", "response_msg", "response_time_ms"}) \cup
        Of("stations", {"table", "id", "station_code", "name", "address", "location",
            "provider", "created_at", "updated_at"}) \cup
        Of("chargers", {"table", "id", "station_id", "charger_code", "charger_type",
            "output_kw", "connector_type", "status_code", "created_at", "updated_at"})
  BY DEF Rev_60afb71f58fe, Revision, Pass
<1>3. Rev_60afb71f58fe.upgrade.ensures =
        Of("api_logs", {"ix_api_logs_id"}) \cup
        Of("stations", {"ix_stations_station_code", "ix_stations_id",
            "idx_stations_location"}) \cup
        Of("chargers", {"ix_chargers_id", "ix_chargers_station_id"})
  BY DEF Rev_60afb71f58fe, Revision, Pass
<1>4. \A o \in Rev_60afb71f58fe.upgrade.tables :
        \/ o[1] = "api_logs"
        \/ Within(o, "stations", FirstOfStations)
        \/ Within(o, "chargers", FirstOfChargers)
  BY <1>2 DEF Of, Within, FirstOfStations, FirstOfChargers
<1>5. \A o \in Rev_60afb71f58fe.upgrade.ensures :
        \/ o[1] = "api_logs"
        \/ Within(o, "stations", FirstOfStations)
        \/ Within(o, "chargers", FirstOfChargers)
  BY <1>3 DEF Of, Within, FirstOfStations, FirstOfChargers
<1> QED BY <1>1, <1>4, <1>5

ExternalNames ==
    {"external_bid", "external_cp_id", "raw_data", "last_synced_at", "external_charger_id",
     "manufacturer", "model", "connector_types"}

AdditionalOfStations ==
    {"cs_nm", "addr", "lat", "longi", "static_data_updated_at", "dynamic_data_updated_at",
     "ix_stations_cs_id", "ix_stations_addr"}

AdditionalOfChargers ==
    {"cp_id", "cp_nm", "charge_tp", "cp_tp", "cp_stat", "kepco_stat_update_datetime", "cs_id",
     "ix_chargers_cp_id", "ix_chargers_cp_stat", "ix_chargers_cs_id"}

CompatNames == {"cs_nm", "addr", "lat", "longi", "ix_stations_addr", "ix_stations_cs_id"}

CpNames == {"cp_id", "cp_nm", "cp_stat", "charge_tp", "cs_id", "ix_chargers_cp_id"}

\* The objects of the revisions that add to the tables of stations and chargers.
LEMMA LaterNames ==
  /\ \A o \in ExternalColumns : o[1] \in {"stations", "chargers"} /\ o[2] \in ExternalNames
  /\ \A o \in ChargerLocation : Within(o, "chargers", {"location", "idx_chargers_location"})
  /\ \A o \in KepcoFields :
        \/ Within(o, "stations", {"cs_id"})
        \/ Within(o, "chargers", {"cp_stat_raw", "stat_update_datetime"})
  /\ \A o \in AdditionalFields :
        \/ Within(o, "stations", AdditionalOfStations)
        \/ Within(o, "chargers", AdditionalOfChargers)
  /\ \A o \in CompatFields : Within(o, "stations", CompatNames)
  /\ \A o \in CpFields : Within(o, "chargers", CpNames)
  /\ Within(Kepco, "chargers", {"kepco_stat_update_datetime"})
  /\ \A o \in SalePrice : Within(o, "subsidies", {"sale_price"})
<1>1. \A o \in ExternalColumns : o[1] \in {"stations", "chargers"} /\ o[2] \in ExternalNames
  BY DEF ExternalColumns, Of, ExternalNames
<1>2. \A o \in ChargerLocation : Within(o, "chargers", {"location", "idx_chargers_location"})
  BY DEF ChargerLocation, Of, Within
<1>3. \A o \in KepcoFields :
        \/ Within(o, "stations", {"cs_id"})
        \/ Within(o, "chargers", {"cp_stat_raw", "stat_update_datetime"})
  BY DEF KepcoFields, Of, Within
<1>4. \A o \in AdditionalFields :
        \/ Within(o, "stations", AdditionalOfStations)
        \/ Within(o, "chargers", AdditionalOfChargers)
  BY DEF AdditionalFields, Of, Within, AdditionalOfStations, AdditionalOfChargers
<1>5. \A o \in CompatFields : Within(o, "stations", CompatNames)
  BY DEF CompatFields, Of, Within, CompatNames
<1>6. \A o \in CpFields : Within(o, "chargers", CpNames)
  BY DEF CpFields, Of, Within, CpNames
<1>7. Within(Kepco, "chargers", {"kepco_stat_update_datetime"})
  BY DEF Kepco, Within
<1>8. \A o \in SalePrice : Within(o, "subsidies", {"sale_price"})
  BY DEF SalePrice, Of, Within
<1> QED BY <1>1, <1>2, <1>3, <1>4, <1>5, <1>6, <1>7, <1>8

LEMMA A22583Defines ==
  \A o \in Defines(Versions["a22583938b64"].upgrade) :
        \/ Within(o, "api_logs", {"endpoint", "method", "api_type", "status_code"})
        \/ Within(o, "chargers", {"_station_charger_uc", "charger_code", "output_kw"})
BY OtherUpgrades DEF Defines, ApiLogFields, Of, Within

\* Whose definition an object of the tables of stations and chargers can be, by
\* its name.
LEMMA DefinersByName ==
  ASSUME NEW d \in Revisions, NEW o \in Defines(Versions[d].upgrade),
         o[1] \in {"stations", "chargers"}
  PROVE  \/ d = "60afb71f58fe" /\ (\/ Within(o, "stations", FirstOfStations)
                                   \/ Within(o, "chargers", FirstOfChargers))
         \/ d = "aa1b2c3d4e5f" /\ Within(o, "stations", {"idx_stations_location"})
         \/ /\ d = "a22583938b64"
            /\ Within(o, "chargers", {"_station_charger_uc", "charger_code", "output_kw"})
         \/ d = "bb_add_external_fields" /\ o[2] \in ExternalNames
         \/ /\ d = "c1d2e3f4add"
            /\ Within(o, "chargers", {"location", "idx_chargers_location"})
         \/ /\ d = "20251020_add_kepco_fields"
            /\ \/ Within(o, "stations", {"cs_id"})
               \/ Within(o, "chargers", {"cp_stat_raw", "stat_update_datetime"})
         \/ /\ d = "20251023_add_additional_kepco_fields"
            /\ \/ Within(o, "stations", AdditionalOfStations)
               \/ Within(o, "chargers", AdditionalOfChargers)
         \/ d = "20251025_add_station_api_compat" /\ Within(o, "stations", CompatNames)
         \/ d = "20251025_add_cp_fields_migration" /\ Within(o, "chargers", CpNames)
         \/ /\ d = "20251028_convert_kepco_ts_to_timestamptz"
            /\ Within(o, "chargers", {"kepco_stat_update_datetime"})
<1>1. CASE d \in {"60afb71f58fe", "a22583938b64"}
  BY <1>1, FirstDefines, A22583Defines DEF Within
<1>2. CASE d = "aa1b2c3d4e5f"
  BY <1>2, UpgradesDefine, MembersAreWithin DEF PostGIS, Table
<1>3. CASE d \in {"bb_add_external_fields", "c1d2e3f4add", "20251020_add_kepco_fields"}
  BY <1>3, UpgradesDefine, LaterNames
<1>4. CASE d \in {"20251023_add_additional_kepco_fields", "20251025_add_station_api_compat",
                  "20251025_add_cp_fields_migration",
                  "20251028_convert_kepco_ts_to_timestamptz"}
  BY <1>4, UpgradesDefine, LaterNames
<1>5. CASE d = "82564d70969d"
  BY <1>5, SubsidiesOf_82564d70969d DEF Of
<1>6. CASE d \in {"daa5cac943ac", "20251028_add_sale_price"}
  BY <1>6, UsersOf_daa5cac943ac, UpgradesDefine, LaterNames DEF Within
<1>7. d \notin {"b7a145511e70", "d6b8f2f8579d", "9508604ce511", "0f42d4f96fa6",
                 "d8c47bac145f", "20251031_subsidy_data_migration"}
  BY UpgradesDefine
<1> QED BY <1>1, <1>2, <1>3, <1>4, <1>5, <1>6, <1>7, RevisionNames

-----------------------------------------------------------------------------
(* What downgrades cut                                                     *)

\* An object goes with another one of its table: itself, the table, or a column
\* it is an index on.
LEMMA CutNames ==
  ASSUME NEW o, NEW R, Cut(o, R)
  PROVE  \E x \in R : /\ x[1] = o[1]
                      /\ \/ x[2] = o[2]
                         \/ x[2] = "table"
                         \/ o[2] \in DOMAIN On /\ x[2] \in On[o[2]]
<1>1. PICK x \in R : x = o \/ x \in DependsOn(o)
  BY DEF Cut
<1>2. ASSUME x \in DependsOn(o)
      PROVE  /\ x[1] = o[1]
             /\ x[2] = "table" \/ (o[2] \in DOMAIN On /\ x[2] \in On[o[2]])
  <2>1. x = Table(o[1]) \/ (o[2] \in DOMAIN On /\ x \in Of(o[1], On[o[2]]))
    BY <1>2 DEF DependsOn
  <2> QED BY <2>1 DEF Table, Of
<1> QED BY <1>1, <1>2

\* The indexes on columns that downgrades drop.
LEMMA IndexesOn ==
  \A n \in DOMAIN On :
    /\ On[n] \cap (ExternalNames \ {"manufacturer"}) = {}
    /\ "manufacturer" \in On[n] => n = "ix_subsidies_manufacturer"
    /\ "location" \in On[n] => n \in {"idx_stations_location", "ix_stations_location",
                                     "idx_chargers_location"}
    /\ "cs_id" \in On[n] => n \in {"ix_stations_cs_id", "ix_chargers_cs_id"}
    /\ "cp_id" \in On[n] => n = "ix_chargers_cp_id"
    /\ "cp_stat" \in On[n] => n = "ix_chargers_cp_stat"
    /\ "addr" \in On[n] => n = "ix_stations_addr"
    /\ On[n] \cap {"cp_stat_raw", "stat_update_datetime", "cs_nm", "lat", "longi",
                   "static_data_updated_at", "dynamic_data_updated_at", "cp_nm", "charge_tp",
                   "cp_tp", "kepco_stat_update_datetime", "response_msg", "sale_price"} = {}
    /\ On[n] \cap DOMAIN On = {} /\ "table" \notin On[n]
BY ColumnsAreNotIndexes DEF On, ExternalNames

LEMMA IndexNames ==
  {"ix_stations_cs_id", "ix_stations_addr", "ix_chargers_cp_id", "ix_chargers_cp_stat",
   "ix_chargers_cs_id"} \subseteq DOMAIN On
BY DEF On

\* What is the subsidies' is defined by two revisions only.
LEMMA SubsidiesDefiners ==
  ASSUME NEW d \in Revisions, NEW o \in Defines(Versions[d].upgrade), o[1] = "subsidies"
  PROVE  \/ d = "82564d70969d" /\ o[2] # "sale_price"
         \/ d = "20251028_add_sale_price"
<1>1. CASE d = "60afb71f58fe"
  BY <1>1, FirstRevision
<1>2. CASE d = "aa1b2c3d4e5f"
  BY <1>2, UpgradesDefine, MembersAreWithin DEF PostGIS, Table, Within
<1>3. CASE d \in {"bb_add_external_fields", "c1d2e3f4add", "20251020_add_kepco_fields"}
  BY <1>3, UpgradesDefine, LaterNames DEF Within
<1>4. CASE d \in {"20251023_add_additional_kepco_fields", "20251025_add_station_api_compat",
                  "20251025_add_cp_fields_migration",
                  "20251028_convert_kepco_ts_to_timestamptz"}
  BY <1>4, UpgradesDefine, LaterNames DEF Within
<1>5. CASE d \in {"a22583938b64", "daa5cac943ac"}
  BY <1>5, A22583Defines, UsersOf_daa5cac943ac DEF Within
<1>6. CASE d = "82564d70969d"
  BY <1>6, OtherUpgrades DEF Defines, SubsidyIndexes, Of
<1>7. d \notin {"b7a145511e70", "d6b8f2f8579d", "9508604ce511", "0f42d4f96fa6",
                 "d8c47bac145f", "20251031_subsidy_data_migration"}
  BY UpgradesDefine
<1> QED BY <1>1, <1>2, <1>3, <1>4, <1>5, <1>6, <1>7, RevisionNames

\* Which revisions come after one whose objects they also define.
LEMMA ComesAfter ==
  /\ \A d \in Revisions : d \in Ancestors[d] /\ "60afb71f58fe" \in Ancestors[d]
  /\ "82564d70969d" \in Ancestors["20251028_add_sale_price"]
  /\ "82564d70969d" \in Ancestors[Stamped]
  /\ "a22583938b64" \in Ancestors["82564d70969d"]
  /\ \A d \in {"20251023_add_additional_kepco_fields", "20251025_add_station_api_compat",
              "20251025_add_cp_fields_migration",
              "20251028_convert_kepco_ts_to_timestamptz"} :
        /\ "20251023_add_additional_kepco_fields" \in Ancestors[d]
        /\ "20251020_add_kepco_fields" \in Ancestors[d]
<1> DEFINE root == "60afb71f58fe"
<1>1. \A d \in Revisions :
        /\ d \in Ancestors[d]
        /\ \A p \in Versions[d].down_revision : p \in Ancestors[d]
        /\ \A x \in Ancestors[d] : Ancestors[x] \subseteq Ancestors[d]
  BY AncestorsOrder, ParentsAndAncestors
<1>2. \A d \in {root, "b7a145511e70", "a22583938b64", "d6b8f2f8579d", "82564d70969d",
              "daa5cac943ac", "9508604ce511"} : root \in Ancestors[d]
  BY <1>1, RevisionNames, Parents
<1>3. \A d \in {"aa1b2c3d4e5f", "bb_add_external_fields", "c1d2e3f4add",
              "20251020_add_kepco_fields"} : root \in Ancestors[d]
  BY <1>1, RevisionNames, Parents
<1>4. \A d \in {"0f42d4f96fa6", "d8c47bac145f", "20251023_add_additional_kepco_fields",
              "20251025_add_station_api_compat", "20251025_add_cp_fields_migration"} :
        root \in Ancestors[d]
  BY <1>1, <1>3, RevisionNames, Parents
<1>5. \A d \in {"20251028_add_sale_price", "20251031_subsidy_data_migration",
              "20251028_convert_kepco_ts_to_timestamptz"} : root \in Ancestors[d]
  BY <1>1, <1>2, <1>4, RevisionNames, Parents
<1>6. \A d \in Revisions : root \in Ancestors[d]
  BY <1>2, <1>3, <1>4, <1>5, RevisionNames
<1>7. /\ "82564d70969d" \in Ancestors["20251028_add_sale_price"]
      /\ "82564d70969d" \in Ancestors[Stamped]
      /\ "a22583938b64" \in Ancestors["82564d70969d"]
  BY <1>1, RevisionNames, Parents DEF Stamped
<1>8. \A d \in {"20251023_add_additional_kepco_fields", "20251025_add_station_api_compat",
              "20251025_add_cp_fields_migration",
              "20251028_convert_kepco_ts_to_timestamptz"} :
        "20251023_add_additional_kepco_fields" \in Ancestors[d]
  BY <1>1, RevisionNames, Parents
<1>9. "20251020_add_kepco_fields" \in Ancestors["20251023_add_additional_kepco_fields"]
  BY <1>1, RevisionNames, Parents
<1>10. \A d \in {"20251023_add_additional_kepco_fields", "20251025_add_station_api_compat",
              "20251025_add_cp_fields_migration",
              "20251028_convert_kepco_ts_to_timestamptz"} :
        "20251020_add_kepco_fields" \in Ancestors[d]
  BY <1>1, <1>8, <1>9, RevisionNames
<1> QED BY <1>1, <1>6, <1>7, <1>8, <1>10

ResponseMsg == <<"api_logs", "response_msg">>

\* Where what a downgrade cuts meets what an upgrade defines, the upgrade is of
\* the same revision or a later one, or they are an exception, or the object is
\* a column that two revisions define and a third one drops in between.
LEMMA CutsAndDefinitions ==
  ASSUME NEW r \in Revisions \ DropAll,
         r \notin {"a22583938b64", "20251028_convert_kepco_ts_to_timestamptz"},
         NEW d \in Revisions, NEW o \in Defines(Versions[d].upgrade),
         Cut(o, Versions[r].downgrade.drops \cup Versions[r].downgrade.discards)
  PROVE  \/ r \in Ancestors[d]
         \/ <<r, d>> \in DropsOfOthers
         \/ r = "82564d70969d" /\ d = "60afb71f58fe" /\ o = ResponseMsg
<1> DEFINE R == Versions[r].downgrade.drops \cup Versions[r].downgrade.discards
<1>1. PICK x \in R : /\ x[1] = o[1]
                    /\ \/ x[2] = o[2]
                       \/ x[2] = "table"
                       \/ o[2] \in DOMAIN On /\ x[2] \in On[o[2]]
  BY CutNames
<1>2. CASE r = "60afb71f58fe"
  BY <1>2, ComesAfter
<1>3. CASE r = "aa1b2c3d4e5f"
  <2>1. R = Of("stations", {"idx_stations_location"})
    BY <1>3, PlainDowngrades DEF Drops
  <2>2. Within(x, "stations", {"idx_stations_location"})
    BY <2>1, MembersAreWithin
  <2>3. "idx_stations_location" \in DOMAIN On
    BY DEF On
  <2>4. Within(o, "stations", {"idx_stations_location"})
    BY <1>1, <2>2, <2>3, IndexesOn DEF Within
  <2>5. d \in {"60afb71f58fe", "aa1b2c3d4e5f"}
    BY <2>4, DefinersByName DEF Within, ExternalNames, AdditionalOfStations, CompatNames
  <2> QED BY <1>3, <2>5, ComesAfter DEF DropsOfOthers
<1>4. CASE r = "bb_add_external_fields"
  <2>1. R = ExternalColumns
    BY <1>4, PlainDowngrades DEF Drops
  <2>2. x[1] \in {"stations", "chargers"} /\ x[2] \in ExternalNames
    BY <2>1, LaterNames
  <2>3. /\ o[1] \in {"stations", "chargers"}
        /\ o[2] \in ExternalNames \cup {"ix_subsidies_manufacturer"}
    BY <1>1, <2>2, IndexesOn DEF ExternalNames
  <2>4. d = r
    BY <1>4, <2>3, DefinersByName DEF Within, ExternalNames, AdditionalOfStations,
       AdditionalOfChargers, CompatNames, CpNames, FirstOfStations, FirstOfChargers
  <2> QED BY <2>4, ComesAfter
<1>5. CASE r = "c1d2e3f4add"
  <2>1. R = ChargerLocation
    BY <1>5, PlainDowngrades DEF Drops
  <2>2. Within(x, "chargers", {"location", "idx_chargers_location"})
    BY <2>1, LaterNames
  <2>3. "idx_chargers_location" \in DOMAIN On
    BY DEF On
  <2>4. Within(o, "chargers", {"location", "idx_chargers_location", "idx_stations_location",
                               "ix_stations_location"})
    BY <1>1, <2>2, <2>3, IndexesOn DEF Within
  <2>5. d = r
    BY <1>5, <2>4, DefinersByName DEF Within, ExternalNames, AdditionalOfChargers, CpNames,
       FirstOfChargers
  <2> QED BY <2>5, ComesAfter
<1>6. CASE r = "20251020_add_kepco_fields"
  <2>1. R = KepcoFields
    BY <1>6, PlainDowngrades DEF Drops
  <2>2. \/ Within(x, "stations", {"cs_id"})
        \/ Within(x, "chargers", {"cp_stat_raw", "stat_update_datetime"})
    BY <2>1, LaterNames
  <2>3. \/ Within(o, "stations", {"cs_id", "ix_stations_cs_id", "ix_chargers_cs_id"})
        \/ Within(o, "chargers", {"cp_stat_raw", "stat_update_datetime"})
    BY <1>1, <2>2, IndexesOn DEF Within
  <2>4. d \in {r, "20251023_add_additional_kepco_fields", "20251025_add_station_api_compat"}
    BY <1>6, <2>3, DefinersByName DEF Within, ExternalNames, AdditionalOfStations,
       AdditionalOfChargers, CompatNames, CpNames, FirstOfStations, FirstOfChargers
  <2> QED BY <1>6, <2>4, ComesAfter
<1>7. CASE r = "20251023_add_additional_kepco_fields"
  <2>1. R = AdditionalFields
    BY <1>7, PlainDowngrades DEF Drops
  <2>2. \/ Within(x, "stations", AdditionalOfStations)
        \/ Within(x, "chargers", AdditionalOfChargers)
    BY <2>1, LaterNames
  <2>3. \/ Within(o, "stations", AdditionalOfStations)
        \/ Within(o, "chargers", AdditionalOfChargers \cup {"ix_stations_cs_id"})
    BY <1>1, <2>2, IndexesOn, IndexNames DEF Within, AdditionalOfStations, AdditionalOfChargers
  <2>4. d \in {r, "20251025_add_station_api_compat", "20251025_add_cp_fields_migration",
               "20251028_convert_kepco_ts_to_timestamptz"}
    BY <1>7, <2>3, DefinersByName DEF Within, ExternalNames, AdditionalOfStations,
       AdditionalOfChargers, FirstOfStations, FirstOfChargers
  <2> QED BY <1>7, <2>4, ComesAfter
<1>8. CASE r = "20251025_add_station_api_compat"
  <2>1. R = CompatFields
    BY <1>8, PlainDowngrades DEF Drops
  <2>2. Within(x, "stations", CompatNames)
    BY <2>1, LaterNames
  <2>3. Within(o, "stations", CompatNames)
    BY <1>1, <2>2, IndexesOn, IndexNames DEF Within, CompatNames
  <2>4. d \in {r, "20251023_add_additional_kepco_fields"}
    BY <1>8, <2>3, DefinersByName DEF Within, ExternalNames, CompatNames, FirstOfStations
  <2> QED BY <1>8, <2>4, ComesAfter DEF DropsOfOthers
<1>9. CASE r = "20251025_add_cp_fields_migration"
  <2>1. R = CpFields
    BY <1>9, PlainDowngrades DEF Drops
  <2>2. Within(x, "chargers", CpNames)
    BY <2>1, LaterNames
  <2>3. Within(o, "chargers", CpNames \cup {"ix_chargers_cp_stat", "ix_chargers_cs_id",
                                           "ix_stations_cs_id"})
    BY <1>1, <2>2, IndexesOn, IndexNames DEF Within, CpNames
  <2>4. d \in {r, "20251023_add_additional_kepco_fields"}
    BY <1>9, <2>3, DefinersByName DEF Within, ExternalNames, CpNames, FirstOfChargers
  <2> QED BY <1>9, <2>4, ComesAfter DEF DropsOfOthers
<1>10. CASE r = "20251028_add_sale_price"
  <2>1. R = SalePrice
    BY <1>10, PlainDowngrades DEF Drops
  <2>2. Within(x, "subsidies", {"sale_price"})
    BY <2>1, LaterNames
  <2>3. Within(o, "subsidies", {"sale_price"})
    BY <1>1, <2>2, IndexesOn DEF Within
  <2>4. d = r
    BY <1>10, <2>3, SubsidiesDefiners DEF Within
  <2> QED BY <2>4, ComesAfter
<1>11. CASE r = "82564d70969d"
  <2>1. R = {ResponseMsg, Table("subsidies")}
    <3>1. /\ Downgrade_82564d70969d.drops = Of("api_logs", {"response_msg"})
                                               \cup {Table("subsidies")}
          /\ Downgrade_82564d70969d.discards = {}
      BY DEF Downgrade_82564d70969d, Pass
    <3>2. Of("api_logs", {"response_msg"}) = {ResponseMsg}
      BY DEF Of, ResponseMsg
    <3> QED BY <1>11, <3>1, <3>2, OtherDowngrades
  <2>2. PICK y \in R : y = o \/ y \in DependsOn(o)
    BY DEF Cut
  <2>3. CASE y = Table("subsidies")
    <3>1. o[1] = "subsidies"
      BY <2>2, <2>3, Dependencies DEF Table
    <3>2. d \in {r, "20251028_add_sale_price"}
      BY <1>11, <3>1, SubsidiesDefiners
    <3> QED BY <1>11, <3>2, ComesAfter
  <2>4. CASE y = ResponseMsg
    <3>1. \A n \in DOMAIN On : "response_msg" \notin On[n]
      BY IndexesOn
    <3>2. o = ResponseMsg
      BY <2>2, <2>4, <3>1 DEF DependsOn, ResponseMsg, Table, Of
    <3>3. o[1] = "api_logs" /\ o[2] = "response_msg"
      BY <3>2 DEF ResponseMsg
    <3>4. CASE d \in {"60afb71f58fe", "82564d70969d"}
      BY <1>11, <3>2, <3>4, ComesAfter
    <3>5. CASE d \in {"aa1b2c3d4e5f", "bb_add_external_fields", "c1d2e3f4add",
                      "20251020_add_kepco_fields", "a22583938b64", "daa5cac943ac"}
      BY <3>3, <3>5, UpgradesDefine, LaterNames, MembersAreWithin, A22583Defines,
         UsersOf_daa5cac943ac DEF Within, PostGIS, Table
    <3>6. CASE d \in {"20251023_add_additional_kepco_fields",
                      "20251025_add_station_api_compat", "20251025_add_cp_fields_migration",
                      "20251028_convert_kepco_ts_to_timestamptz", "20251028_add_sale_price"}
      BY <3>3, <3>6, UpgradesDefine, LaterNames DEF Within
    <3>7. d \notin {"b7a145511e70", "d6b8f2f8579d", "9508604ce511", "0f42d4f96fa6",
                     "d8c47bac145f", "20251031_subsidy_data_migration"}
      BY UpgradesDefine
    <3> QED BY <3>4, <3>5, <3>6, <3>7, RevisionNames
  <2> QED BY <2>1, <2>3, <2>4
<1>12. r \notin {"b7a145511e70", "d6b8f2f8579d", "0f42d4f96fa6", "d8c47bac145f",
                 "20251031_subsidy_data_migration"}
  BY <1>1, PlainDowngrades DEF Drops
<1> QED BY <1>2, <1>3, <1>4, <1>5, <1>6, <1>7, <1>8, <1>9, <1>10, <1>11, <1>12,
           RevisionNames DEF DropAll

-----------------------------------------------------------------------------
(* What no revision drops from under another                               *)

\* Once a22583938b64 is applied, which drops the column, response_msg is not the
\* first revision's, unless a stamp only said that it is applied; then the
\* stamped revision is applied, too, whose downgrade drops the table.
DroppedInBetween(schema, version) ==
    /\ "a22583938b64" \in Applied(version)
    /\ ResponseMsg \in DOMAIN schema
    /\ schema[ResponseMsg] = "60afb71f58fe"
    => Stamped \in Applied(version)

MessageInv == DroppedInBetween(db.schema, db.version) /\ DroppedInBetween(tx.schema, tx.version)

\* What a step leaves was there and is not cut, or the step defines it; it is the
\* step's, or whose it was.
LEMMA StepLeaves ==
  ASSUME NEW schema, NEW step, NEW by, NEW result, result = Apply(schema, step, by)
  PROVE  \A o \in DOMAIN result :
            /\ \/ o \in DOMAIN schema /\ ~Cut(o, step.drops \cup step.discards)
               \/ o \in Defines(step)
            /\ \/ result[o] = by
               \/ /\ o \in DOMAIN schema /\ ~Cut(o, step.drops \cup step.discards)
                  /\ result[o] = schema[o]
<1> DEFINE R == step.drops \cup step.discards
           new == Added(Without(schema, R), step)
<1>1. /\ \A o : o \in DOMAIN result <=>
                    \/ o \in DOMAIN schema /\ ~Cut(o, R)
                    \/ o \in new
      /\ \A o \in DOMAIN result :
            result[o] = IF o \in new \cup step.alters THEN by ELSE schema[o]
      /\ new \subseteq Defines(step)
  <2>1. R = step.drops \cup step.discards /\ new = Added(Without(schema, R), step)
    OBVIOUS
  <2> HIDE DEF R, new
  <2> QED BY <2>1, ResultFields
<1> HIDE DEF new
<1> QED BY <1>1

LEMMA MessageInvInductive ==
  ASSUME VersionInv, SchemaInv, LeftInv, MessageInv, [Next]_vars
  PROVE  MessageInv'
<1>0. /\ tx.version \in SUBSET Revisions /\ db.version \in SUBSET Revisions
      /\ DroppedInBetween(NoTx.schema, NoTx.version)
  BY NoTxFields DEF VersionInv, IsVersion, DroppedInBetween
<1>1. ASSUME NEW cmd, NEW todo, Begin(cmd, todo)
      PROVE  MessageInv'
  <2>1. tx'.schema = db.schema /\ tx'.version = db.version /\ db' = db
    BY <1>1 DEF Begin
  <2> QED BY <2>1 DEF MessageInv, DroppedInBetween
<1>2. CASE UpgradeHeads \/ UpgradeTo \/ DowngradeTo \/ DowngradeBase
  BY <1>1, <1>2 DEF UpgradeHeads, UpgradeTo, DowngradeTo, DowngradeBase
<1>3. CASE UpgradeHead
  BY <1>3 DEF UpgradeHead, MessageInv, DroppedInBetween
<1>4. CASE StampDaa5
  <2>1. /\ tx' = tx /\ tx = NoTx
        /\ Ancestors[Stamped] \subseteq Applied(db'.version)
    BY <1>4, StampedVersion DEF StampDaa5, VersionInv
  <2>2. Stamped \in Ancestors[Stamped]
    BY RevisionNames, ComesAfter DEF Stamped
  <2> QED BY <1>0, <2>1, <2>2 DEF MessageInv, DroppedInBetween
<1>5. CASE InitDb
  <2>1. /\ db'.schema = Apply(db.schema, Models, "models") /\ db'.version = db.version
        /\ tx = NoTx /\ tx' = tx
    BY <1>5 DEF InitDb, VersionInv
  <2>2. \A o \in DOMAIN db'.schema :
            \/ db'.schema[o] = "models"
            \/ o \in DOMAIN db.schema /\ db'.schema[o] = db.schema[o]
    BY <2>1, ModelsKeepAuthors DEF LeftInv
  <2> QED BY <1>0, <2>1, <2>2 DEF MessageInv, DroppedInBetween
<1>6. CASE RunUpgrade
  <2>1. PICK r \in Revisions :
          /\ r \notin Applied(tx.version)
          /\ tx'.schema = Apply(tx.schema, Versions[r].upgrade, r)
          /\ Applied(tx'.version) = Applied(tx.version) \cup {r}
          /\ db' = db
    BY <1>6, UpgradeRun DEF IsTx
  <2> DEFINE step == Versions[r].upgrade
             R == step.drops \cup step.discards
  <2>2. \A o \in DOMAIN tx'.schema :
            \/ tx'.schema[o] = r
            \/ o \in DOMAIN tx.schema /\ ~Cut(o, R) /\ tx'.schema[o] = tx.schema[o]
    <3> DEFINE old == tx.schema
               result == tx'.schema
               by == r
    <3>1. result = Apply(old, step, by)
      BY <2>1
    <3> HIDE DEF step, old, result, by
    <3>2. \A o \in DOMAIN result :
              \/ result[o] = by
              \/ /\ o \in DOMAIN old /\ ~Cut(o, step.drops \cup step.discards)
                 /\ result[o] = old[o]
      BY <3>1, StepLeaves
    <3> QED BY <3>2 DEF old, result, by
  <2>3. ASSUME "a22583938b64" \in Applied(tx'.version), ResponseMsg \in DOMAIN tx'.schema,
               tx'.schema[ResponseMsg] = "60afb71f58fe"
        PROVE  Stamped \in Applied(tx'.version)
    <3>1. r # "60afb71f58fe"
      <4>1. "a22583938b64" \in Revisions
        BY RevisionNames
      <4>2. r = "60afb71f58fe" => "a22583938b64" \in Applied(tx.version)
        BY <2>1, <2>3
      <4>3. "60afb71f58fe" \in Ancestors["a22583938b64"]
        BY <4>1, ComesAfter
      <4> QED BY <1>0, <2>1, <4>2, <4>3, AppliedIsClosed
    <3>2. /\ ResponseMsg \in DOMAIN tx.schema /\ ~Cut(ResponseMsg, R)
          /\ tx.schema[ResponseMsg] = "60afb71f58fe"
      BY <2>2, <2>3, <3>1
    <3>3. r # "a22583938b64"
      <4>1. r = "a22583938b64" => ResponseMsg \in R
        BY OtherUpgrades DEF Of, ResponseMsg
      <4> QED BY <3>2, <4>1 DEF Cut
    <3> QED BY <2>1, <2>3, <3>2, <3>3 DEF MessageInv, DroppedInBetween
  <2> QED BY <2>1, <2>3 DEF MessageInv, DroppedInBetween
<1>7. CASE RunDowngrade
  <2>1. PICK r \in Revisions :
          /\ Fits(tx.schema, Versions[r].downgrade)
          /\ tx'.schema = Apply(tx.schema, Versions[r].downgrade, Versions[r].restores)
          /\ Applied(tx'.version) = Applied(tx.version) \ {r}
          /\ db' = db
    BY <1>7, DowngradeRun DEF IsTx
  <2>2. \A o \in DOMAIN tx'.schema :
            \/ tx'.schema[o] \in Undropped(r)
            \/ o \in DOMAIN tx.schema /\ tx'.schema[o] = tx.schema[o]
    <3>1. IsSchema(tx.schema) /\ Rooted(tx.schema) /\ Owned(tx.schema)
      BY DEF SchemaInv, LeftInv
    <3> DEFINE old == tx.schema
               result == tx'.schema
    <3>2. \A o \in DOMAIN result :
              \/ result[o] \in Undropped(r)
              \/ o \in DOMAIN old /\ result[o] = old[o] /\ result[o] # r
      BY <2>1, <3>1, DowngradeKeepsAuthors
    <3> QED BY <3>2
  <2>3. "60afb71f58fe" \notin Undropped(r)
    BY DEF Undropped
  <2>4. r = Stamped => ResponseMsg \notin DOMAIN tx'.schema
    <3> SUFFICES ASSUME r = Stamped
                 PROVE  ResponseMsg \notin DOMAIN tx'.schema
      OBVIOUS
    <3> DEFINE step == Versions[r].downgrade
               R == step.drops \cup step.discards
    <3>1. Defines(step) = {} /\ R = DropEverything.drops
      BY PlainDowngrades DEF Drops, Stamped
    <3>2. Table("api_logs") \in DropEverything.drops
      BY DEF DropEverything, Pass
    <3>3. Table("api_logs") \in DependsOn(ResponseMsg)
      BY Dependencies DEF ResponseMsg
    <3>4. Cut(ResponseMsg, R)
      BY <3>1, <3>2, <3>3 DEF Cut
    <3>5. \A o \in DOMAIN tx'.schema :
              (o \in DOMAIN tx.schema /\ ~Cut(o, R)) \/ o \in Defines(step)
      <4> DEFINE old == tx.schema
                 result == tx'.schema
                 by == Versions[r].restores
      <4>1. result = Apply(old, step, by)
        BY <2>1
      <4> HIDE DEF step, old, result, by
      <4>2. \A o \in DOMAIN result :
                \/ o \in DOMAIN old /\ ~Cut(o, step.drops \cup step.discards)
                \/ o \in Defines(step)
        BY <4>1, StepLeaves
      <4> QED BY <4>2 DEF old, result
    <3> QED BY <3>1, <3>4, <3>5
  <2> QED BY <2>1, <2>2, <2>3, <2>4 DEF MessageInv, DroppedInBetween
<1>8. CASE RevisionFails \/ Interrupted
  <2>1. tx' = NoTx /\ db' = db
    BY <1>8 DEF RevisionFails, Interrupted
  <2> QED BY <1>0, <2>1 DEF MessageInv, DroppedInBetween
<1>9. CASE Commit
  <2>1. db'.schema = tx.schema /\ db'.version = tx.version /\ tx' = NoTx
    BY <1>9 DEF Commit
  <2> QED BY <1>0, <2>1 DEF MessageInv, DroppedInBetween
<1>10. CASE UNCHANGED vars
  BY <1>10 DEF vars, MessageInv, DroppedInBetween
<1> QED BY <1>2, <1>3, <1>4, <1>5, <1>6, <1>7, <1>8, <1>9, <1>10 DEF Next

LEMMA MessageInvHolds == Spec => []MessageInv
<1>1. Init => MessageInv
  <2> SUFFICES ASSUME Init
               PROVE  MessageInv
    OBVIOUS
  <2>1. db.version = {} /\ tx = NoTx
    BY DEF Init
  <2>2. Applied({}) = {}
    BY DEF Applied
  <2> QED BY <2>1, <2>2, NoTxFields DEF MessageInv, DroppedInBetween
<1> QED BY <1>1, MessageInvInductive, VersionInvHolds, SchemaInvHolds, LeftInvHolds, PTL
        DEF Spec

-----------------------------------------------------------------------------
(* The theorem                                                             *)

\* The downgrade of r, with what it takes away.
LEMMA DowngradeSpares ==
  ASSUME VersionInv, SchemaInv, LeftInv, MessageInv, RunDowngrade,
         NEW r \in tx.todo \ tx'.todo, NEW o \in DOMAIN tx.schema \ DOMAIN tx'.schema,
         tx.schema[o] \in Applied(tx'.version), r \notin DropAll
  PROVE  <<r, tx.schema[o]>> \in DropsOfOthers
<1> DEFINE d == tx.schema[o]
<1>1. /\ r \in Revisions /\ r \in Applied(tx.version)
      /\ \A x \in Applied(tx.version) : r \in Ancestors[x] => x = r
      /\ Fits(tx.schema, Versions[r].downgrade)
      /\ tx'.schema = Apply(tx.schema, Versions[r].downgrade, Versions[r].restores)
      /\ Applied(tx'.version) = Applied(tx.version) \ {r}
  <2>1. PICK q \in Revisions :
          /\ q \in Applied(tx.version)
          /\ \A x \in Applied(tx.version) : q \in Ancestors[x] => x = q
          /\ Fits(tx.schema, Versions[q].downgrade)
          /\ tx'.schema = Apply(tx.schema, Versions[q].downgrade, Versions[q].restores)
          /\ Applied(tx'.version) = Applied(tx.version) \ {q}
          /\ tx'.todo = tx.todo \ {q}
    BY DowngradeRun DEF IsTx
  <2>2. q = r
    BY <2>1
  <2> QED BY <2>1, <2>2
<1>2. tx.version \in SUBSET Revisions
  BY DEF VersionInv, IsVersion
<1>3. d \in Revisions /\ d # r /\ r \notin Ancestors[d] /\ d \in Applied(tx.version)
  BY <1>1, <1>2, AppliedIsClosed
<1>4. o \in Defines(Versions[d].upgrade)
  BY <1>3 DEF LeftInv, Owned
<1>5. r # "a22583938b64"
  BY <1>1, NeverUndone DEF SchemaInv, LeftInv
<1> DEFINE step == Versions[r].downgrade
           R == step.drops \cup step.discards
           new == Added(Without(tx.schema, R), step)
<1>6. Cut(o, R) /\ o \notin new
  <2> DEFINE result == tx'.schema
             old == tx.schema
             by == Versions[r].restores
  <2>1. result = Apply(old, step, by)
    BY <1>1
  <2> HIDE DEF step, old, result, by
  <2>2. \A x : x \in DOMAIN result <=>
                  \/ x \in DOMAIN old /\ ~Cut(x, R)
                  \/ x \in Added(Without(old, R), step)
    BY <2>1, ResultFields
  <2> QED BY <2>2 DEF old, result
<1>7. r # "20251028_convert_kepco_ts_to_timestamptz"
  <2> SUFFICES ASSUME r = "20251028_convert_kepco_ts_to_timestamptz"
               PROVE  FALSE
    OBVIOUS
  <2>1. R = {Kepco} /\ step.creates = {Kepco}
    BY OtherDowngrades
  <2>2. o = Kepco
    BY <1>6, <2>1, CutByIndex DEF Cut, Kepco
  <2> QED BY <1>6, <2>1, <2>2 DEF Added
<1>8. ~(r = "82564d70969d" /\ d = "60afb71f58fe" /\ o = ResponseMsg)
  <2> SUFFICES ASSUME r = "82564d70969d", d = "60afb71f58fe", o = ResponseMsg
               PROVE  FALSE
    OBVIOUS
  <2>1. "a22583938b64" \in Applied(tx.version)
    BY <1>1, <1>2, AppliedIsClosed, ComesAfter
  <2>2. Stamped \in Applied(tx.version)
    BY <2>1 DEF MessageInv, DroppedInBetween
  <2> QED BY <1>1, <2>2, ComesAfter DEF Stamped
<1> QED BY <1>1, <1>3, <1>4, <1>5, <1>6, <1>7, <1>8, CutsAndDefinitions

\* Whatever was stamped, repeated or created from the models before, a downgrade
\* takes nothing away that a revision defined which stays applied, but for the
\* five revisions that are known to.
THEOREM DowngradesSpareWhatStays == Spec => DowngradesSpareOthers
<1>1. ASSUME VersionInv, SchemaInv, LeftInv, MessageInv, Next,
             NEW r \in Revisions, tx.cmd = "downgrade", tx'.cmd = "downgrade",
             r \in tx.todo \ tx'.todo, NEW o \in DOMAIN tx.schema \ DOMAIN tx'.schema
      PROVE  \/ tx.schema[o] \notin Applied(tx'.version)
             \/ r \in DropAll
             \/ <<r, tx.schema[o]>> \in DropsOfOthers
  <2>1. RunDowngrade
    <3>1. tx # NoTx /\ tx' # NoTx /\ tx' # tx
      BY <1>1, NoTxFields
    <3> QED BY <1>1, <3>1 DEF Next, Begin, UpgradeHeads, UpgradeTo, UpgradeHead,
               DowngradeTo, DowngradeBase, StampDaa5, InitDb, RunUpgrade, ReadyUp,
               RevisionFails, Interrupted, Commit
  <2> QED BY <1>1, <2>1, DowngradeSpares
<1>2. VersionInv /\ SchemaInv /\ LeftInv /\ MessageInv /\ [Next]_vars =>
        [\A r \in Revisions :
            tx.cmd = "downgrade" /\ tx'.cmd = "downgrade" /\ r \in tx.todo \ tx'.todo =>
                \A o \in DOMAIN tx.schema \ DOMAIN tx'.schema :
                    \/ tx.schema[o] \notin Applied(tx'.version)
                    \/ r \in DropAll
                    \/ <<r, tx.schema[o]>> \in DropsOfOthers]_vars
  BY <1>1
<1> QED BY <1>2, VersionInvHolds, SchemaInvHolds, LeftInvHolds, MessageInvHolds, PTL
        DEF Spec, DowngradesSpareOthers

===============================================================================
