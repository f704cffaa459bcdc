------------------------- MODULE MigrationOrderProofs -------------------------
(***************************************************************************)
(* Theorems about Migrations, for every number of repairs: the schema that *)
(* upgrades build does not depend on the order in which they come, and so  *)
(* each upgrade finds what its statements need.                            *)
(*                                                                         *)
(* The proofs describe the schema that a set of revisions builds by whose  *)
(* definition of each object is in force, show that one more revision, or  *)
(* one of them again, leads to the schema so described, and carry that     *)
(* through the commands.                                                   *)
(***************************************************************************)
EXTENDS MigrationsProofs

-----------------------------------------------------------------------------
(* Sets of revisions closed under down_revision                            *)

IsClosed(S) == S \subseteq Revisions /\ \A r \in S : Versions[r].down_revision \subseteq S

\* What a closed set has with each of the revisions that add to the schema.
LEMMA ClosedSets ==
  ASSUME NEW S, IsClosed(S)
  PROVE  /\ S # {} => "60afb71f58fe" \in S
         /\ "82564d70969d" \in S => "a22583938b64" \in S
         /\ "daa5cac943ac" \in S => "82564d70969d" \in S
         /\ "20251028_add_sale_price" \in S => "82564d70969d" \in S
         /\ "20251031_subsidy_data_migration" \in S => "20251028_add_sale_price" \in S
         /\ "20251023_add_additional_kepco_fields" \in S =>
                "20251020_add_kepco_fields" \in S
         /\ "20251025_add_station_api_compat" \in S =>
                "20251023_add_additional_kepco_fields" \in S
         /\ "20251025_add_cp_fields_migration" \in S =>
                "20251023_add_additional_kepco_fields" \in S
         /\ "20251028_convert_kepco_ts_to_timestamptz" \in S =>
                "20251023_add_additional_kepco_fields" \in S
<1> DEFINE down(r) == Versions[r].down_revision \subseteq S
<1>1. \A r \in S : r \in Revisions /\ down(r)
  BY DEF IsClosed
<1>2. /\ "d6b8f2f8579d" \in S => "a22583938b64" \in S
      /\ "82564d70969d" \in S => "d6b8f2f8579d" \in S
      /\ "a22583938b64" \in S => "b7a145511e70" \in S
      /\ "b7a145511e70" \in S => "60afb71f58fe" \in S
      /\ "daa5cac943ac" \in S => "82564d70969d" \in S
      /\ "9508604ce511" \in S => "daa5cac943ac" \in S
  BY <1>1, Parents
<1>3. /\ "aa1b2c3d4e5f" \in S => "60afb71f58fe" \in S
      /\ "bb_add_external_fields" \in S => "aa1b2c3d4e5f" \in S
      /\ "c1d2e3f4add" \in S => "bb_add_external_fields" \in S
      /\ "20251020_add_kepco_fields" \in S => "bb_add_external_fields" \in S
      /\ "0f42d4f96fa6" \in S => "c1d2e3f4add" \in S
      /\ "d8c47bac145f" \in S => "20251020_add_kepco_fields" \in S
  BY <1>1, Parents
<1>4. /\ "20251023_add_additional_kepco_fields" \in S => "d8c47bac145f" \in S
      /\ "20251025_add_station_api_compat" \in S =>
            "20251023_add_additional_kepco_fields" \in S
      /\ "20251025_add_cp_fields_migration" \in S =>
            "20251023_add_additional_kepco_fields" \in S
      /\ "20251028_convert_kepco_ts_to_timestamptz" \in S =>
            "20251025_add_cp_fields_migration" \in S
      /\ "20251028_add_sale_price" \in S => "82564d70969d" \in S
      /\ "20251031_subsidy_data_migration" \in S => "20251028_add_sale_price" \in S
  BY <1>1, Parents
<1> HIDE DEF down
<1>5. S # {} => "60afb71f58fe" \in S
  <2> SUFFICES ASSUME NEW r \in S
               PROVE  "60afb71f58fe" \in S
    OBVIOUS
  <2> QED BY <1>1, <1>2, <1>3, <1>4, RevisionNames
<1> QED BY <1>2, <1>3, <1>4, <1>5

\* One more revision, whose parents are there, keeps a set closed.
LEMMA ClosedByOneMore ==
  ASSUME NEW S, IsClosed(S), NEW r \in Revisions, Versions[r].down_revision \subseteq S
  PROVE  IsClosed(S \cup {r})
BY DEF IsClosed

LEMMA AppliedIsClosedSet ==
  ASSUME NEW version \in SUBSET Revisions
  PROVE  IsClosed(Applied(version))
BY AppliedIsClosed, ParentsAndAncestors DEF IsClosed

-----------------------------------------------------------------------------
(* Whose definitions are in force                                          *)

\* The revisions all of whose objects others before them have defined.
Repeats == {"aa1b2c3d4e5f", "20251025_add_station_api_compat",
            "20251025_add_cp_fields_migration"}

Own(r) == IF r \in Repeats THEN {} ELSE Defines(Versions[r].upgrade)

Lost == Of("api_logs", {"request_time", "response_time_ms", "response_msg"})
Altered == ApiLogFields \cup Of("chargers", {"charger_code", "output_kw"})

\* Another revision of S has dropped or altered what r defines.
Replaced(S, o, r) ==
    \/ /\ r = "60afb71f58fe" /\ "a22583938b64" \in S
       /\ o \in Lost \cup Altered
    \/ /\ r = "20251023_add_additional_kepco_fields"
       /\ "20251028_convert_kepco_ts_to_timestamptz" \in S
       /\ o = Kepco

\* The revisions of S give o the definition of r.
Gives(S, o, r) ==
    \/ o = PostGIS /\ r = "postgis"
    \/ r \in S /\ o \in Own(r) /\ ~Replaced(S, o, r)

\* The schema is the one that the revisions of S build.
IsOf(schema, S) ==
    \/ S = {} /\ DOMAIN schema = {}
    \/ \A o, r : Gives(S, o, r) <=> o \in DOMAIN schema /\ schema[o] = r

LEMMA OwnObjects ==
  /\ Own("60afb71f58fe") =
        Of("api_logs", {"table", "id", "endpoint", "method", "api_type", "request_time",
            "status_code", "response_code", "response_msg", "response_time_ms",
            "ix_api_logs_id"}) \cup
        Of("stations", {"table", "id", "station_code", "name", "address", "location",
            "provider", "created_at", "updated_at", "ix_stations_station_code",
            "ix_stations_id", "idx_stations_location"}) \cup
        Of("chargers", {"table", "id", "station_id", "charger_code", "charger_type",
            "output_kw", "connector_type", "status_code", "created_at", "updated_at",
            "ix_chargers_id", "ix_chargers_station_id"})
  /\ Own("a22583938b64") = Altered \cup Of("chargers", {"_station_charger_uc"})
  /\ Own("82564d70969d") =
        Of("subsidies", {"table", "id", "manufacturer", "model_group", "model_name",
            "subsidy_national_10k_won", "subsidy_local_10k_won", "subsidy_total_10k_won"}) \cup
        SubsidyIndexes \cup Of("api_logs", {"response_msg"})
  /\ Own("daa5cac943ac") =
        Of("users", {"table", "id", "username", "hashed_password", "role", "created_at",
            "updated_at", "ix_users_id", "ix_users_role", "ix_users_username"})
  /\ Own("bb_add_external_fields") = ExternalColumns
  /\ Own("c1d2e3f4add") = ChargerLocation
  /\ Own("20251020_add_kepco_fields") = KepcoFields
  /\ Own("20251023_add_additional_kepco_fields") = AdditionalFields
  /\ Own("20251028_add_sale_price") = SalePrice
  /\ Own("20251028_convert_kepco_ts_to_timestamptz") = {Kepco}
  /\ \A r \in Repeats \cup {"b7a145511e70", "d6b8f2f8579d", "9508604ce511", "0f42d4f96fa6",
                            "d8c47bac145f", "20251031_subsidy_data_migration"} : Own(r) = {}
<1>1. Own("60afb71f58fe") =
        Of("api_logs", {"table", "id", "endpoint", "method", "api_type", "request_time",
            "status_code", "response_code", "response_msg", "response_time_ms",
            "ix_api_logs_id"}) \cup
        Of("stations", {"table", "id", "station_code", "name", "address", "location",
            "provider", "created_at", "updated_at", "ix_stations_station_code",
            "ix_stations_id", "idx_stations_location"}) \cup
        Of("chargers", {"table", "id", "station_id", "charger_code", "charger_type",
            "output_kw", "connector_type", "status_code", "created_at", "updated_at",
            "ix_chargers_id", "ix_chargers_station_id"})
  <2>1. Own("60afb71f58fe") =
            Rev_60afb71f58fe.upgrade.tables \cup Rev_60afb71f58fe.upgrade.ensures
    BY PlainUpgrades DEF Adds, Defines, Own, Repeats
  <2>2. Rev_60afb71f58fe.upgrade.tables =
          Of("api_logs", {"table", "id", "endpoint", "method", "api_type", "request_time",
              "status_code", "response_code", "response_msg", "response_time_ms"}) \cup
          Of("stations", {"table", "id", "station_code", "name", "address", "location",
              "provider", "created_at", "updated_at"}) \cup
          Of("chargers", {"table", "id", "station_id", "charger_code", "charger_type",
              "output_kw", "connector_type", "status_code", "created_at", "updated_at"})
    BY DEF Rev_60afb71f58fe, Revision, Pass
  <2>3. Rev_60afb71f58fe.upgrade.ensures =
          Of("api_logs", {"ix_api_logs_id"}) \cup
          Of("stations", {"ix_stations_station_code", "ix_stations_id",
              "idx_stations_location"}) \cup
          Of("chargers", {"ix_chargers_id", "ix_chargers_station_id"})
    BY DEF Rev_60afb71f58fe, Revision, Pass
  <2> QED BY <2>1, <2>2, <2>3 DEF Of
<1>2. Own("daa5cac943ac") =
        Of("users", {"table", "id", "username", "hashed_password", "role", "created_at",
            "updated_at", "ix_users_id", "ix_users_role", "ix_users_username"})
  <2>1. Own("daa5cac943ac") = Rev_daa5cac943ac.upgrade.creates
    BY PlainUpgrades DEF Adds, Defines, Own, Repeats
  <2>2. Rev_daa5cac943ac.upgrade.creates =
            Of("users", {"table", "id", "username", "hashed_password", "role", "created_at",
                "updated_at", "ix_users_id", "ix_users_role", "ix_users_username"})
    BY DEF Rev_daa5cac943ac, Revision, Pass
  <2> QED BY <2>1, <2>2
<1>3. Own("a22583938b64") = Altered \cup Of("chargers", {"_station_charger_uc"})
  BY OtherUpgrades DEF Own, Repeats, Defines, Altered
<1>4. Own("82564d70969d") =
        Of("subsidies", {"table", "id", "manufacturer", "model_group", "model_name",
            "subsidy_national_10k_won", "subsidy_local_10k_won", "subsidy_total_10k_won"}) \cup
        SubsidyIndexes \cup Of("api_logs", {"response_msg"})
  BY OtherUpgrades DEF Own, Repeats, Defines
<1>5. /\ Own("bb_add_external_fields") = ExternalColumns
      /\ Own("c1d2e3f4add") = ChargerLocation
      /\ Own("20251020_add_kepco_fields") = KepcoFields
      /\ Own("20251023_add_additional_kepco_fields") = AdditionalFields
      /\ Own("20251028_add_sale_price") = SalePrice
      /\ Own("20251028_convert_kepco_ts_to_timestamptz") = {Kepco}
  BY UpgradesDefine DEF Own, Repeats
<1>6. \A r \in Repeats \cup {"b7a145511e70", "d6b8f2f8579d", "9508604ce511", "0f42d4f96fa6",
                             "d8c47bac145f", "20251031_subsidy_data_migration"} : Own(r) = {}
  BY UpgradesDefine DEF Own, Repeats
<1> QED BY <1>1, <1>2, <1>3, <1>4, <1>5, <1>6

\* Revisions of different names define different objects, but for these.
LEMMA OwnersDiffer ==
  ASSUME NEW q \in Revisions, NEW r \in Revisions, q # r, NEW o \in Own(q) \cap Own(r)
  PROVE  \/ {q, r} = {"60afb71f58fe", "a22583938b64"} /\ o \in Altered
         \/ {q, r} = {"60afb71f58fe", "82564d70969d"} /\ o = <<"api_logs", "response_msg">>
         \/ /\ {q, r} = {"20251023_add_additional_kepco_fields",
                         "20251028_convert_kepco_ts_to_timestamptz"}
            /\ o = Kepco
<1> DEFINE base == Own("60afb71f58fe")
           alter == Own("a22583938b64")
           subsidy == Own("82564d70969d")
           users == Own("daa5cac943ac")
           Late == ExternalColumns \cup ChargerLocation \cup KepcoFields
                       \cup AdditionalFields \cup {Kepco}
<1>1. /\ \A x \in base : x[1] \in {"api_logs", "stations", "chargers"}
      /\ \A x \in alter : x[1] \in {"api_logs", "chargers"}
      /\ \A x \in subsidy : x[1] = "subsidies" \/ x = <<"api_logs", "response_msg">>
      /\ \A x \in users : x[1] = "users"
      /\ \A x \in SalePrice : x[1] = "subsidies" /\ x \notin subsidy
  BY OwnObjects DEF Of, Altered, ApiLogFields, SalePrice, SubsidyIndexes
<1>2. \A x \in Late : x[1] \in {"stations", "chargers"}
  BY DEF ExternalColumns, ChargerLocation, KepcoFields, AdditionalFields, Kepco, Of
<1>3. /\ \A x \in base : x \notin ExternalColumns
      /\ \A x \in base : x \notin ChargerLocation
      /\ \A x \in base : x \notin KepcoFields
  BY OwnObjects DEF Of, ExternalColumns, ChargerLocation, KepcoFields
<1>4. \A x \in base : x \notin AdditionalFields /\ x # Kepco
  BY OwnObjects DEF Of, AdditionalFields, Kepco
<1>5. \A x \in alter : x \notin Late
  BY OwnObjects DEF Of, Altered, ApiLogFields, ExternalColumns, ChargerLocation, KepcoFields,
                    AdditionalFields, Kepco
<1>6. \A x \in ExternalColumns :
        x \notin ChargerLocation \cup KepcoFields \cup AdditionalFields \cup {Kepco}
  BY DEF Of, ExternalColumns, ChargerLocation, KepcoFields, AdditionalFields, Kepco
<1>7. /\ \A x \in ChargerLocation : x \notin KepcoFields \cup AdditionalFields \cup {Kepco}
      /\ \A x \in KepcoFields : x \notin AdditionalFields \cup {Kepco}
  BY DEF Of, ChargerLocation, KepcoFields, AdditionalFields, Kepco
<1>8. base \cap alter \subseteq Altered
  BY OwnObjects DEF Of, Altered, ApiLogFields
<1>9. \A x \in alter : x # <<"api_logs", "response_msg">>
  BY OwnObjects DEF Of, Altered, ApiLogFields
<1> DEFINE names == {"60afb71f58fe", "a22583938b64", "82564d70969d", "daa5cac943ac",
                     "bb_add_external_fields", "c1d2e3f4add", "20251020_add_kepco_fields",
                     "20251023_add_additional_kepco_fields", "20251028_add_sale_price",
                     "20251028_convert_kepco_ts_to_timestamptz"}
<1>10. q \in names /\ r \in names
  BY OwnObjects, RevisionNames DEF Repeats
<1>11. /\ Own("bb_add_external_fields") = ExternalColumns
       /\ Own("c1d2e3f4add") = ChargerLocation
       /\ Own("20251020_add_kepco_fields") = KepcoFields
       /\ Own("20251023_add_additional_kepco_fields") = AdditionalFields
       /\ Own("20251028_add_sale_price") = SalePrice
       /\ Own("20251028_convert_kepco_ts_to_timestamptz") = {Kepco}
  BY OwnObjects
<1>12. CASE o[1] = "users"
  BY <1>1, <1>2, <1>10, <1>11, <1>12
<1>13. CASE o[1] = "subsidies"
  BY <1>1, <1>2, <1>10, <1>11, <1>13
<1>14. CASE o[1] = "api_logs"
  BY <1>1, <1>2, <1>8, <1>9, <1>10, <1>11, <1>14
<1>15. CASE o[1] \in {"stations", "chargers"}
  <2>1. /\ q \notin {"82564d70969d", "daa5cac943ac", "20251028_add_sale_price"}
        /\ r \notin {"82564d70969d", "daa5cac943ac", "20251028_add_sale_price"}
    BY <1>1, <1>11, <1>15
  <2> QED BY <1>3, <1>4, <1>5, <1>6, <1>7, <1>8, <1>10, <1>11, <2>1
<1> QED BY <1>1, <1>2, <1>10, <1>11, <1>12, <1>13, <1>14, <1>15

-----------------------------------------------------------------------------
(* One revision on the schema that a set of them builds                    *)

LEMMA NobodyOwnsPostGIS ==
  ASSUME NEW r \in Revisions
  PROVE  PostGIS \notin Own(r)
BY DefinersOfTables DEF Own, Repeats

LEMMA BuiltObjects ==
  ASSUME NEW S, IsClosed(S), NEW schema, IsOf(schema, S), S # {} \/ DOMAIN schema # {}
  PROVE  /\ PostGIS \in DOMAIN schema
         /\ \A o, r : Gives(S, o, r) <=> o \in DOMAIN schema /\ schema[o] = r
         /\ \A r \in S : \A o \in Own(r) :
                r # "60afb71f58fe" \/ o \notin Lost \/ "a22583938b64" \notin S
                => o \in DOMAIN schema
         /\ \A o \in DOMAIN schema \ {PostGIS} : schema[o] \in S /\ o \in Own(schema[o])
<1>1. \A o, r : Gives(S, o, r) <=> o \in DOMAIN schema /\ schema[o] = r
  BY DEF IsOf
<1>2. PostGIS \in DOMAIN schema
  BY <1>1 DEF Gives
<1>3. ASSUME NEW r \in S, NEW o \in Own(r),
             r # "60afb71f58fe" \/ o \notin Lost \/ "a22583938b64" \notin S
      PROVE  o \in DOMAIN schema
  <2>1. CASE ~Replaced(S, o, r)
    BY <1>1, <2>1 DEF Gives
  <2>2. CASE r = "60afb71f58fe" /\ "a22583938b64" \in S /\ o \in Altered
    <3>1. o \in Own("a22583938b64") /\ ~Replaced(S, o, "a22583938b64")
      BY <2>2, OwnObjects DEF Replaced
    <3> QED BY <1>1, <2>2, <3>1 DEF Gives
  <2>3. CASE o = Kepco /\ "20251028_convert_kepco_ts_to_timestamptz" \in S
    <3> DEFINE tz == "20251028_convert_kepco_ts_to_timestamptz"
    <3>1. o \in Own(tz) /\ ~Replaced(S, o, tz)
      BY <2>3, OwnObjects DEF Replaced
    <3> QED BY <1>1, <2>3, <3>1 DEF Gives
  <2> QED BY <1>3, <2>1, <2>2, <2>3 DEF Replaced
<1>4. \A o \in DOMAIN schema \ {PostGIS} : schema[o] \in S /\ o \in Own(schema[o])
  BY <1>1 DEF Gives
<1> QED BY <1>1, <1>2, <1>3, <1>4

\* A revision that has not run defines what is not there.
LEMMA FreshObjects ==
  ASSUME NEW S, IsClosed(S), NEW r \in Revisions \ S, Versions[r].down_revision \subseteq S,
         r \notin {"a22583938b64", "20251028_convert_kepco_ts_to_timestamptz"},
         NEW schema, IsOf(schema, S)
  PROVE  Own(r) \cap DOMAIN schema = {}
<1> SUFFICES ASSUME NEW o \in Own(r), o \in DOMAIN schema
             PROVE  FALSE
  OBVIOUS
<1> DEFINE q == schema[o]
<1>1. o # PostGIS
  BY NobodyOwnsPostGIS
<1>2. q \in S /\ o \in Own(q) /\ Gives(S, o, q)
  BY <1>1, BuiltObjects
<1>3. q \in Revisions /\ q # r /\ S # {}
  BY <1>2 DEF IsClosed
<1> HIDE DEF q
<1>4. \/ {q, r} = {"60afb71f58fe", "a22583938b64"}
      \/ {q, r} = {"60afb71f58fe", "82564d70969d"} /\ o = <<"api_logs", "response_msg">>
      \/ {q, r} = {"20251023_add_additional_kepco_fields",
                   "20251028_convert_kepco_ts_to_timestamptz"}
  BY <1>2, <1>3, OwnersDiffer
<1>5. r # "60afb71f58fe"
  BY <1>3, ClosedSets
<1>6. CASE r = "82564d70969d" /\ q = "60afb71f58fe" /\ o = <<"api_logs", "response_msg">>
  <2>1. "d6b8f2f8579d" \in S
    BY <1>6, Parents
  <2>2. "a22583938b64" \in S
    BY <2>1, Parents DEF IsClosed
  <2>3. o \in Lost
    BY <1>6 DEF Lost, Of
  <2> QED BY <1>1, <1>2, <1>6, <2>2, <2>3 DEF Gives, Replaced
<1>7. CASE /\ r = "20251023_add_additional_kepco_fields"
           /\ q = "20251028_convert_kepco_ts_to_timestamptz"
  BY <1>2, <1>7, ClosedSets
<1> QED BY <1>4, <1>5, <1>6, <1>7

\* A step that drops nothing of the schema and adds what r defines.
LEMMA FreshAdds ==
  ASSUME NEW S, IsClosed(S), NEW r \in Revisions \ S, Versions[r].down_revision \subseteq S,
         r \notin {"a22583938b64", "20251028_convert_kepco_ts_to_timestamptz"},
         NEW schema, IsOf(schema, S), PostGIS \in DOMAIN schema,
         NEW step, NEW left, left = Without(schema, step.drops \cup step.discards),
         DOMAIN left = DOMAIN schema, \A o \in DOMAIN schema : left[o] = schema[o],
         step.drops = {}, step.types = {}, step.alters = {},
         step.needs \subseteq DOMAIN schema, step.creates \subseteq Own(r),
         Added(left, step) = Own(r),
         \A o \in Own(r) : DependsOn(o) \subseteq DOMAIN schema \cup Own(r)
  PROVE  Fits(schema, step) /\ IsOf(Apply(schema, step, r), S \cup {r})
<1>1. Own(r) \cap DOMAIN schema = {}
  BY FreshObjects
<1>2. Fits(schema, step)
  BY <1>1 DEF Fits
<1> DEFINE result == Apply(schema, step, r)
<1>3. result = [o \in DOMAIN left \cup Own(r) |-> IF o \in Own(r) THEN r ELSE left[o]]
  BY DEF Apply
<1> HIDE DEF result
<1>4. /\ \A o : o \in DOMAIN result <=> o \in DOMAIN schema \/ o \in Own(r)
      /\ \A o \in Own(r) : result[o] = r
      /\ \A o \in DOMAIN schema : result[o] = schema[o]
  BY <1>1, <1>3
<1>5. \A o, q : Gives(S, o, q) <=> o \in DOMAIN schema /\ schema[o] = q
  BY BuiltObjects
<1>6. ASSUME NEW o, NEW q
      PROVE  Gives(S \cup {r}, o, q) <=> Gives(S, o, q) \/ (q = r /\ o \in Own(r))
  <2>1. Replaced(S \cup {r}, o, q) <=> Replaced(S, o, q)
    BY DEF Replaced
  <2>2. ~Replaced(S, o, r)
    BY ClosedSets DEF Replaced
  <2> QED BY <2>1, <2>2 DEF Gives
<1>7. ASSUME NEW o, NEW q
      PROVE  Gives(S \cup {r}, o, q) <=> o \in DOMAIN result /\ result[o] = q
  <2>1. CASE o \in Own(r)
    <3>1. ~Gives(S, o, q)
      BY <1>1, <1>5, <2>1
    <3>2. o \in DOMAIN result /\ result[o] = r
      BY <1>4, <2>1
    <3> QED BY <1>6, <2>1, <3>1, <3>2
  <2>2. CASE o \notin Own(r)
    <3>1. /\ o \in DOMAIN result <=> o \in DOMAIN schema
          /\ o \in DOMAIN schema => result[o] = schema[o]
      BY <1>4, <2>2
    <3> QED BY <1>5, <1>6, <2>2, <3>1
  <2> QED BY <2>1, <2>2
<1> QED BY <1>2, <1>7 DEF IsOf, result

\* A step whose objects are all there changes nothing.
LEMMA SameAgain ==
  ASSUME NEW S, NEW r, NEW schema, IsOf(schema, S), PostGIS \in DOMAIN schema,
         r \in S \/ Own(r) = {},
         r \notin S => r \notin {"a22583938b64", "20251028_convert_kepco_ts_to_timestamptz"},
         NEW step, NEW needs, NEW tables, NEW ensures, Adds(step, needs, {}, tables, ensures),
         needs \subseteq DOMAIN schema, ensures \subseteq DOMAIN schema,
         \A o \in tables : Table(o[1]) \in DOMAIN schema
  PROVE  Fits(schema, step) /\ IsOf(Apply(schema, step, r), S \cup {r})
<1>1. /\ step.drops = {} /\ step.discards = {} /\ step.types = {} /\ step.alters = {}
      /\ step.creates = {} /\ step.needs = needs /\ step.tables = tables
      /\ step.ensures = ensures
  BY DEF Adds
<1>2. Without(schema, step.drops \cup step.discards) = schema
  BY <1>1 DEF Without
<1>3. Added(schema, step) = {}
  BY <1>1 DEF Added
<1>4. Fits(schema, step)
  BY <1>1, <1>2, <1>3 DEF Fits
<1> DEFINE result == Apply(schema, step, r)
<1>5. result = [o \in DOMAIN schema |-> schema[o]]
  BY <1>1, <1>2, <1>3 DEF Apply
<1> HIDE DEF result
<1>6. \A o, q : Gives(S, o, q) <=> o \in DOMAIN schema /\ schema[o] = q
  BY DEF IsOf
<1>7. \A o, q : Gives(S \cup {r}, o, q) <=> Gives(S, o, q)
  BY DEF Gives, Replaced
<1>8. \A o, q : Gives(S \cup {r}, o, q) <=> o \in DOMAIN result /\ result[o] = q
  BY <1>5, <1>6, <1>7
<1> QED BY <1>4, <1>8 DEF IsOf, result

-----------------------------------------------------------------------------
(* What the objects of a revision depend on                                *)

LEMMA ColumnDependsOn ==
  ASSUME NEW t, NEW n, n \notin DOMAIN On
  PROVE  DependsOn(<<t, n>>) = {Table(t)}
BY DEF DependsOn

\* The columns that the indexes of the revisions are on.
LEMMA IndexDependencies ==
  /\ DependsOn(<<"api_logs", "ix_api_logs_id">>) = {Table("api_logs"), <<"api_logs", "id">>}
  /\ DependsOn(<<"stations", "ix_stations_id">>) = {Table("stations"), <<"stations", "id">>}
  /\ DependsOn(<<"stations", "ix_stations_station_code">>) =
      {Table("stations"), <<"stations", "station_code">>}
  /\ DependsOn(<<"stations", "idx_stations_location">>) =
      {Table("stations"), <<"stations", "location">>}
  /\ DependsOn(<<"stations", "ix_stations_cs_id">>) =
      {Table("stations"), <<"stations", "cs_id">>}
  /\ DependsOn(<<"stations", "ix_stations_addr">>) =
      {Table("stations"), <<"stations", "addr">>}
  /\ DependsOn(<<"chargers", "ix_chargers_id">>) = {Table("chargers"), <<"chargers", "id">>}
  /\ DependsOn(<<"chargers", "ix_chargers_station_id">>) =
      {Table("chargers"), <<"chargers", "station_id">>}
  /\ DependsOn(<<"chargers", "_station_charger_uc">>) =
      {Table("chargers"), <<"chargers", "station_id">>, <<"chargers", "charger_code">>}
  /\ DependsOn(<<"chargers", "idx_chargers_location">>) =
      {Table("chargers"), <<"chargers", "location">>}
  /\ DependsOn(<<"chargers", "ix_chargers_cp_id">>) =
      {Table("chargers"), <<"chargers", "cp_id">>}
  /\ DependsOn(<<"chargers", "ix_chargers_cp_stat">>) =
      {Table("chargers"), <<"chargers", "cp_stat">>}
  /\ DependsOn(<<"chargers", "ix_chargers_cs_id">>) =
      {Table("chargers"), <<"chargers", "cs_id">>}
  /\ DependsOn(<<"subsidies", "ix_subsidies_id">>) =
      {Table("subsidies"), <<"subsidies", "id">>}
  /\ DependsOn(<<"subsidies", "ix_subsidies_manufacturer">>) =
      {Table("subsidies"), <<"subsidies", "manufacturer">>}
  /\ DependsOn(<<"subsidies", "ix_subsidies_model_group">>) =
      {Table("subsidies"), <<"subsidies", "model_group">>}
  /\ DependsOn(<<"users", "ix_users_id">>) = {Table("users"), <<"users", "id">>}
  /\ DependsOn(<<"users", "ix_users_role">>) = {Table("users"), <<"users", "role">>}
  /\ DependsOn(<<"users", "ix_users_username">>) = {Table("users"), <<"users", "username">>}
<1>1. DependsOn(<<"api_logs", "ix_api_logs_id">>) = {Table("api_logs"), <<"api_logs", "id">>}
  <2>1. "ix_api_logs_id" \in DOMAIN On /\ On["ix_api_logs_id"] = {"id"}
    BY DEF On
  <2> QED BY <2>1 DEF DependsOn, Of
<1>2. DependsOn(<<"stations", "ix_stations_id">>) = {Table("stations"), <<"stations", "id">>}
  <2>1. "ix_stations_id" \in DOMAIN On /\ On["ix_stations_id"] = {"id"}
    BY DEF On
  <2> QED BY <2>1 DEF DependsOn, Of
<1>3. DependsOn(<<"stations", "ix_stations_station_code">>) =
      {Table("stations"), <<"stations", "station_code">>}
  <2>1. "ix_stations_station_code" \in DOMAIN On /\ On["ix_stations_station_code"] = {"station_code"}
    BY DEF On
  <2> QED BY <2>1 DEF DependsOn, Of
<1>4. DependsOn(<<"stations", "idx_stations_location">>) =
      {Table("stations"), <<"stations", "location">>}
  <2>1. "idx_stations_location" \in DOMAIN On /\ On["idx_stations_location"] = {"location"}
    BY DEF On
  <2> QED BY <2>1 DEF DependsOn, Of
<1>5. DependsOn(<<"stations", "ix_stations_cs_id">>) =
      {Table("stations"), <<"stations", "cs_id">>}
  <2>1. "ix_stations_cs_id" \in DOMAIN On /\ On["ix_stations_cs_id"] = {"cs_id"}
    BY DEF On
  <2> QED BY <2>1 DEF DependsOn, Of
<1>6. DependsOn(<<"stations", "ix_stations_addr">>) =
      {Table("stations"), <<"stations", "addr">>}
  <2>1. "ix_stations_addr" \in DOMAIN On /\ On["ix_stations_addr"] = {"addr"}
    BY DEF On
  <2> QED BY <2>1 DEF DependsOn, Of
<1>7. DependsOn(<<"chargers", "ix_chargers_id">>) = {Table("chargers"), <<"chargers", "id">>}
  <2>1. "ix_chargers_id" \in DOMAIN On /\ On["ix_chargers_id"] = {"id"}
    BY DEF On
  <2> QED BY <2>1 DEF DependsOn, Of
<1>8. DependsOn(<<"chargers", "ix_chargers_station_id">>) =
      {Table("chargers"), <<"chargers", "station_id">>}
  <2>1. "ix_chargers_station_id" \in DOMAIN On /\ On["ix_chargers_station_id"] = {"station_id"}
    BY DEF On
  <2> QED BY <2>1 DEF DependsOn, Of
<1>9. DependsOn(<<"chargers", "_station_charger_uc">>) =
      {Table("chargers"), <<"chargers", "station_id">>, <<"chargers", "charger_code">>}
  <2>1. "_station_charger_uc" \in DOMAIN On /\ On["_station_charger_uc"] = {"station_id", "charger_code"}
    BY DEF On
  <2> QED BY <2>1 DEF DependsOn, Of
<1>10. DependsOn(<<"chargers", "idx_chargers_location">>) =
      {Table("chargers"), <<"chargers", "location">>}
  <2>1. "idx_chargers_location" \in DOMAIN On /\ On["idx_chargers_location"] = {"location"}
    BY DEF On
  <2> QED BY <2>1 DEF DependsOn, Of
<1>11. DependsOn(<<"chargers", "ix_chargers_cp_id">>) =
      {Table("chargers"), <<"chargers", "cp_id">>}
  <2>1. "ix_chargers_cp_id" \in DOMAIN On /\ On["ix_chargers_cp_id"] = {"cp_id"}
    BY DEF On
  <2> QED BY <2>1 DEF DependsOn, Of
<1>12. DependsOn(<<"chargers", "ix_chargers_cp_stat">>) =
      {Table("chargers"), <<"chargers", "cp_stat">>}
  <2>1. "ix_chargers_cp_stat" \in DOMAIN On /\ On["ix_chargers_cp_stat"] = {"cp_stat"}
    BY DEF On
  <2> QED BY <2>1 DEF DependsOn, Of
<1>13. DependsOn(<<"chargers", "ix_chargers_cs_id">>) =
      {Table("chargers"), <<"chargers", "cs_id">>}
  <2>1. "ix_chargers_cs_id" \in DOMAIN On /\ On["ix_chargers_cs_id"] = {"cs_id"}
    BY DEF On
  <2> QED BY <2>1 DEF DependsOn, Of
<1>14. DependsOn(<<"subsidies", "ix_subsidies_id">>) =
      {Table("subsidies"), <<"subsidies", "id">>}
  <2>1. "ix_subsidies_id" \in DOMAIN On /\ On["ix_subsidies_id"] = {"id"}
    BY DEF On
  <2> QED BY <2>1 DEF DependsOn, Of
<1>15. DependsOn(<<"subsidies", "ix_subsidies_manufacturer">>) =
      {Table("subsidies"), <<"subsidies", "manufacturer">>}
  <2>1. "ix_subsidies_manufacturer" \in DOMAIN On /\ On["ix_subsidies_manufacturer"] = {"manufacturer"}
    BY DEF On
  <2> QED BY <2>1 DEF DependsOn, Of
<1>16. DependsOn(<<"subsidies", "ix_subsidies_model_group">>) =
      {Table("subsidies"), <<"subsidies", "model_group">>}
  <2>1. "ix_subsidies_model_group" \in DOMAIN On /\ On["ix_subsidies_model_group"] = {"model_group"}
    BY DEF On
  <2> QED BY <2>1 DEF DependsOn, Of
<1>17. DependsOn(<<"users", "ix_users_id">>) = {Table("users"), <<"users", "id">>}
  <2>1. "ix_users_id" \in DOMAIN On /\ On["ix_users_id"] = {"id"}
    BY DEF On
  <2> QED BY <2>1 DEF DependsOn, Of
<1>18. DependsOn(<<"users", "ix_users_role">>) = {Table("users"), <<"users", "role">>}
  <2>1. "ix_users_role" \in DOMAIN On /\ On["ix_users_role"] = {"role"}
    BY DEF On
  <2> QED BY <2>1 DEF DependsOn, Of
<1>19. DependsOn(<<"users", "ix_users_username">>) = {Table("users"), <<"users", "username">>}
  <2>1. "ix_users_username" \in DOMAIN On /\ On["ix_users_username"] = {"username"}
    BY DEF On
  <2> QED BY <2>1 DEF DependsOn, Of
<1> QED BY <1>1, <1>2, <1>3, <1>4, <1>5, <1>6, <1>7, <1>8, <1>9, <1>10,
           <1>11, <1>12, <1>13, <1>14, <1>15, <1>16, <1>17, <1>18, <1>19

\* Plain columns and tables: no index or constraint has their names.
LEMMA PlainNames ==
  DOMAIN On \cap {"table", "id", "endpoint", "method", "api_type", "request_time",
      "status_code", "response_code", "response_msg", "response_time_ms", "station_code",
      "name", "address", "location", "provider", "created_at", "updated_at", "station_id",
      "charger_code", "charger_type", "output_kw", "connector_type", "manufacturer",
      "model_group", "model_name", "subsidy_national_10k_won", "subsidy_local_10k_won",
      "subsidy_total_10k_won", "sale_price", "username", "hashed_password", "role",
      "external_bid", "external_cp_id", "raw_data", "last_synced_at", "external_charger_id",
      "model", "connector_types", "cs_id", "cp_stat_raw", "stat_update_datetime", "cs_nm",
      "addr", "lat", "longi", "static_data_updated_at", "dynamic_data_updated_at", "cp_id",
      "cp_nm", "charge_tp", "cp_tp", "cp_stat", "kepco_stat_update_datetime"} = {}
BY DEF On

LEMMA FirstDependencies ==
  \A o \in Own("60afb71f58fe") : DependsOn(o) \subseteq Own("60afb71f58fe")
<1> DEFINE own == Own("60afb71f58fe")
<1>1. /\ Table("api_logs") \in own /\ <<"api_logs", "id">> \in own
      /\ Table("stations") \in own /\ <<"stations", "id">> \in own
      /\ <<"stations", "station_code">> \in own /\ <<"stations", "location">> \in own
      /\ Table("chargers") \in own /\ <<"chargers", "id">> \in own
      /\ <<"chargers", "station_id">> \in own
  BY OwnObjects DEF Of, Table
<1>2. ASSUME NEW t \in {"api_logs", "stations", "chargers"}, NEW n, <<t, n>> \in own
      PROVE  DependsOn(<<t, n>>) \subseteq own
  <2>1. CASE n \notin DOMAIN On
    BY <1>1, <2>1, ColumnDependsOn
  <2>2. CASE n \in DOMAIN On
    <3>1. <<t, n>> \in {<<"api_logs", "ix_api_logs_id">>,
                        <<"stations", "ix_stations_station_code">>,
                        <<"stations", "ix_stations_id">>,
                        <<"stations", "idx_stations_location">>,
                        <<"chargers", "ix_chargers_id">>,
                        <<"chargers", "ix_chargers_station_id">>}
      BY <1>2, <2>2, OwnObjects, PlainNames DEF Of
    <3> HIDE DEF own
    <3> QED BY <1>1, <3>1, IndexDependencies
  <2> QED BY <2>1, <2>2
<1>3. ASSUME NEW o \in own
      PROVE  \E t \in {"api_logs", "stations", "chargers"} : \E n : o = <<t, n>>
  BY <1>3, OwnObjects DEF Of
<1> QED BY <1>2, <1>3

LEMMA LaterDependencies ==
  /\ \A o \in ExternalColumns \cup ChargerLocation :
        DependsOn(o) \subseteq BaseTables \cup ChargerLocation
  /\ \A o \in KepcoFields \cup {Kepco} : DependsOn(o) \subseteq BaseTables
  /\ \A o \in AdditionalFields :
        DependsOn(o) \subseteq BaseTables \cup KepcoFields \cup AdditionalFields
  /\ \A o \in Own("82564d70969d") :
        DependsOn(o) \subseteq {Table("api_logs")} \cup Own("82564d70969d")
  /\ \A o \in Own("daa5cac943ac") : DependsOn(o) \subseteq Own("daa5cac943ac")
  /\ \A o \in SalePrice : DependsOn(o) \subseteq {Table("subsidies")}
<1>1. \A o \in ExternalColumns \cup ChargerLocation :
        DependsOn(o) \subseteq BaseTables \cup ChargerLocation
  <2>1. \A o \in ExternalColumns \cup Of("chargers", {"location"}) :
          \E t \in {"stations", "chargers"} : \E n : o = <<t, n>> /\ n \notin DOMAIN On
    BY PlainNames DEF ExternalColumns, Of
  <2>2. \A o \in ExternalColumns \cup Of("chargers", {"location"}) :
          DependsOn(o) \subseteq BaseTables
    BY <2>1, ColumnDependsOn DEF BaseTables
  <2>3. DependsOn(<<"chargers", "idx_chargers_location">>)
            \subseteq BaseTables \cup ChargerLocation
    BY IndexDependencies DEF BaseTables, ChargerLocation, Of
  <2> QED BY <2>2, <2>3 DEF ChargerLocation, Of
<1>2. \A o \in KepcoFields \cup {Kepco} : DependsOn(o) \subseteq BaseTables
  <2>1. \A o \in KepcoFields \cup {Kepco} :
          \E t \in {"stations", "chargers"} : \E n : o = <<t, n>> /\ n \notin DOMAIN On
    BY PlainNames DEF KepcoFields, Kepco, Of
  <2> QED BY <2>1, ColumnDependsOn DEF BaseTables
<1>3. \A o \in AdditionalFields :
        DependsOn(o) \subseteq BaseTables \cup KepcoFields \cup AdditionalFields
  <2> DEFINE columns == Of("stations", {"cs_nm", "addr", "lat", "longi",
                            "static_data_updated_at", "dynamic_data_updated_at"}) \cup
                        Of("chargers", {"cp_id", "cp_nm", "charge_tp", "cp_tp", "cp_stat",
                            "kepco_stat_update_datetime", "cs_id"})
             indexes == {<<"stations", "ix_stations_cs_id">>, <<"stations", "ix_stations_addr">>,
                         <<"chargers", "ix_chargers_cp_id">>,
                         <<"chargers", "ix_chargers_cp_stat">>,
                         <<"chargers", "ix_chargers_cs_id">>}
  <2>1. AdditionalFields = columns \cup indexes
    BY DEF AdditionalFields, Of
  <2>2. \A o \in columns : \E t \in {"stations", "chargers"} : \E n : o = <<t, n>> /\ n \notin DOMAIN On
    BY PlainNames DEF Of
  <2>3. \A o \in columns : DependsOn(o) \subseteq BaseTables
    BY <2>2, ColumnDependsOn DEF BaseTables
  <2>4. /\ <<"stations", "cs_id">> \in KepcoFields /\ <<"stations", "addr">> \in columns
        /\ <<"chargers", "cp_id">> \in columns /\ <<"chargers", "cp_stat">> \in columns
        /\ <<"chargers", "cs_id">> \in columns
    BY DEF KepcoFields, Of
  <2> HIDE DEF columns
  <2>5. \A o \in indexes : DependsOn(o) \subseteq BaseTables \cup KepcoFields \cup columns
    BY <2>4, IndexDependencies DEF BaseTables
  <2> QED BY <2>1, <2>3, <2>5
<1>4. \A o \in Own("82564d70969d") :
        DependsOn(o) \subseteq {Table("api_logs")} \cup Own("82564d70969d")
  <2> DEFINE own == Own("82564d70969d")
             columns == Of("subsidies", {"table", "id", "manufacturer", "model_group",
                            "model_name", "subsidy_national_10k_won",
                            "subsidy_local_10k_won", "subsidy_total_10k_won"})
  <2>1. own = columns \cup {<<"api_logs", "response_msg">>} \cup
              {<<"subsidies", "ix_subsidies_id">>, <<"subsidies", "ix_subsidies_manufacturer">>,
               <<"subsidies", "ix_subsidies_model_group">>}
    BY OwnObjects DEF SubsidyIndexes, Of
  <2>2. /\ \A o \in columns : \E n : o = <<"subsidies", n>> /\ n \notin DOMAIN On
        /\ "response_msg" \notin DOMAIN On
    BY PlainNames DEF Of
  <2>3. /\ Table("subsidies") \in columns /\ <<"subsidies", "id">> \in columns
        /\ <<"subsidies", "manufacturer">> \in columns
        /\ <<"subsidies", "model_group">> \in columns
    BY DEF Of, Table
  <2> HIDE DEF columns, own
  <2>4. \A o \in columns : DependsOn(o) \subseteq columns
    BY <2>2, <2>3, ColumnDependsOn
  <2>5. DependsOn(<<"api_logs", "response_msg">>) = {Table("api_logs")}
    BY <2>2, ColumnDependsOn
  <2>6. /\ DependsOn(<<"subsidies", "ix_subsidies_id">>) \subseteq columns
        /\ DependsOn(<<"subsidies", "ix_subsidies_manufacturer">>) \subseteq columns
        /\ DependsOn(<<"subsidies", "ix_subsidies_model_group">>) \subseteq columns
    BY <2>3, IndexDependencies
  <2>7. \A o \in own : DependsOn(o) \subseteq {Table("api_logs")} \cup own
    BY <2>1, <2>4, <2>5, <2>6
  <2> QED BY <2>7 DEF own
<1>5. \A o \in Own("daa5cac943ac") : DependsOn(o) \subseteq Own("daa5cac943ac")
  <2> DEFINE own == Own("daa5cac943ac")
             columns == Of("users", {"table", "id", "username", "hashed_password", "role",
                            "created_at", "updated_at"})
  <2>1. own = columns \cup {<<"users", "ix_users_id">>, <<"users", "ix_users_role">>,
                            <<"users", "ix_users_username">>}
    BY OwnObjects DEF Of
  <2>2. \A o \in columns : \E n : o = <<"users", n>> /\ n \notin DOMAIN On
    BY PlainNames DEF Of
  <2>3. /\ Table("users") \in columns /\ <<"users", "id">> \in columns
        /\ <<"users", "role">> \in columns /\ <<"users", "username">> \in columns
    BY DEF Of, Table
  <2> HIDE DEF columns, own
  <2>4. \A o \in columns : DependsOn(o) \subseteq columns
    BY <2>2, <2>3, ColumnDependsOn
  <2>5. /\ DependsOn(<<"users", "ix_users_id">>) \subseteq columns
        /\ DependsOn(<<"users", "ix_users_role">>) \subseteq columns
        /\ DependsOn(<<"users", "ix_users_username">>) \subseteq columns
    BY <2>3, IndexDependencies
  <2>6. \A o \in own : DependsOn(o) \subseteq own
    BY <2>1, <2>4, <2>5
  <2> QED BY <2>6 DEF own
<1>6. \A o \in SalePrice : DependsOn(o) \subseteq {Table("subsidies")}
  BY PlainNames, ColumnDependsOn DEF SalePrice, Of
<1> QED BY <1>1, <1>2, <1>3, <1>4, <1>5, <1>6

-----------------------------------------------------------------------------
(* The first run of a revision                                             *)

\* The schema is that of S, and r can run.
Ready(S, schema, r) ==
    /\ IsClosed(S) /\ IsOf(schema, S) /\ PostGIS \in DOMAIN schema
    /\ r \in Revisions \ S /\ Versions[r].down_revision \subseteq S

\* The upgrade of r fits, and leads to the schema of S and r.
Leads(S, schema, r) ==
    /\ Fits(schema, Versions[r].upgrade)
    /\ IsOf(Apply(schema, Versions[r].upgrade, r), S \cup {r})

\* What the first revision defined is there, but for what a22583938b64 drops.
LEMMA BaseIsThere ==
  ASSUME NEW S, IsClosed(S), S # {}, NEW schema, IsOf(schema, S)
  PROVE  /\ Own("60afb71f58fe") \ Lost \subseteq DOMAIN schema
         /\ "a22583938b64" \notin S => Own("60afb71f58fe") \subseteq DOMAIN schema
         /\ BaseTables \cup {Table("api_logs")} \subseteq DOMAIN schema
         /\ Of("stations", {"table", "id", "station_code", "name", "address", "location",
                "provider", "created_at", "updated_at", "ix_stations_station_code",
                "ix_stations_id", "idx_stations_location"}) \subseteq DOMAIN schema
         /\ Of("chargers", {"table", "id", "station_id", "charger_code", "charger_type",
                "output_kw", "connector_type", "status_code", "created_at", "updated_at",
                "ix_chargers_id", "ix_chargers_station_id"}) \subseteq DOMAIN schema
         /\ Of("api_logs", {"table", "id", "endpoint", "method", "api_type", "status_code",
                "response_code"}) \subseteq DOMAIN schema
<1>1. "60afb71f58fe" \in S
  BY ClosedSets
<1>2. /\ Own("60afb71f58fe") \ Lost \subseteq DOMAIN schema
      /\ "a22583938b64" \notin S => Own("60afb71f58fe") \subseteq DOMAIN schema
  BY <1>1, BuiltObjects
<1>3. /\ Of("stations", {"table", "id", "station_code", "name", "address", "location",
             "provider", "created_at", "updated_at", "ix_stations_station_code",
             "ix_stations_id", "idx_stations_location"})
             \subseteq Own("60afb71f58fe") \ Lost
      /\ Of("chargers", {"table", "id", "station_id", "charger_code", "charger_type",
             "output_kw", "connector_type", "status_code", "created_at", "updated_at",
             "ix_chargers_id", "ix_chargers_station_id"})
             \subseteq Own("60afb71f58fe") \ Lost
      /\ Of("api_logs", {"table", "id", "endpoint", "method", "api_type", "status_code",
             "response_code"})
             \subseteq Own("60afb71f58fe") \ Lost
  BY OwnObjects DEF Of, Lost
<1>4. BaseTables \cup {Table("api_logs")} \subseteq Own("60afb71f58fe") \ Lost
  BY <1>3 DEF BaseTables, Table, Of
<1> QED BY <1>2, <1>3, <1>4

LEMMA AddsOwn ==
  ASSUME NEW S, NEW schema, NEW r, Ready(S, schema, r),
         r \notin {"a22583938b64", "20251028_convert_kepco_ts_to_timestamptz"},
         NEW needs, NEW creates, NEW ensures,
         Adds(Versions[r].upgrade, needs, creates, {}, ensures),
         Own(r) = creates \cup ensures, needs \subseteq DOMAIN schema,
         \A o \in Own(r) : DependsOn(o) \subseteq DOMAIN schema \cup Own(r)
  PROVE  Leads(S, schema, r)
<1> DEFINE step == Versions[r].upgrade
<1>1. /\ step.drops = {} /\ step.discards = {} /\ step.types = {} /\ step.alters = {}
      /\ step.creates = creates /\ step.needs = needs /\ step.tables = {}
      /\ step.ensures = ensures
  BY DEF Adds
<1> HIDE DEF step
<1>2. schema = Without(schema, step.drops \cup step.discards)
  BY <1>1 DEF Without
<1>3. Own(r) \cap DOMAIN schema = {}
  BY FreshObjects DEF Ready
<1>4. Added(schema, step) = Own(r)
  BY <1>1, <1>3 DEF Added
<1>5. Fits(schema, step) /\ IsOf(Apply(schema, step, r), S \cup {r})
  BY <1>1, <1>2, <1>4, FreshAdds DEF Ready
<1> QED BY <1>5 DEF Leads, step

LEMMA FirstLeads ==
  ASSUME NEW S, NEW schema, Ready(S, schema, "60afb71f58fe")
  PROVE  Leads(S, schema, "60afb71f58fe")
<1> DEFINE r == "60afb71f58fe"
           step == Versions[r].upgrade
<1>1. S = {}
  BY ClosedSets DEF Ready
<1>2. DOMAIN schema = {PostGIS}
  BY <1>1, BuiltObjects DEF Ready
<1>3. /\ step.drops = {} /\ step.discards = {} /\ step.types = {} /\ step.alters = {}
      /\ step.creates = {} /\ step.needs = {PostGIS}
  BY PlainUpgrades DEF Adds
<1>4. /\ Own(r) = step.tables \cup step.ensures
      /\ \A o \in Own(r) : o[1] \in {"api_logs", "stations", "chargers"}
  BY <1>3, FirstRevision DEF Own, Repeats, Defines
<1>5. \A o \in step.tables : Table(o[1]) \notin DOMAIN schema
  BY <1>2, <1>4 DEF PostGIS, Table
<1>6. step.ensures \cap DOMAIN schema = {}
  BY <1>2, <1>4 DEF PostGIS, Table
<1> HIDE DEF step
<1>7. schema = Without(schema, step.drops \cup step.discards)
  BY <1>3 DEF Without
<1>8. Added(schema, step) = Own(r)
  BY <1>3, <1>4, <1>5, <1>6 DEF Added
<1>9. Fits(schema, step) /\ IsOf(Apply(schema, step, r), S \cup {r})
  BY <1>2, <1>3, <1>7, <1>8, FreshAdds, FirstDependencies DEF Ready
<1> QED BY <1>9 DEF Leads, step

LEMMA AddersLead ==
  ASSUME NEW S, NEW schema,
         NEW r \in {"daa5cac943ac", "bb_add_external_fields", "c1d2e3f4add",
                    "20251020_add_kepco_fields", "20251023_add_additional_kepco_fields",
                    "20251028_add_sale_price"},
         Ready(S, schema, r)
  PROVE  Leads(S, schema, r)
<1>1. S # {} /\ IsClosed(S) /\ IsOf(schema, S) /\ PostGIS \in DOMAIN schema
  BY Parents DEF Ready
<1>2. BaseTables \subseteq DOMAIN schema
  BY <1>1, BaseIsThere
<1>3. CASE r = "daa5cac943ac"
  <2> DEFINE created == Rev_daa5cac943ac.upgrade.creates
  <2>1. Adds(Versions[r].upgrade, {}, created, {}, {}) /\ Own(r) = created \cup {}
    BY <1>3, PlainUpgrades DEF Own, Repeats, Defines, Adds
  <2>2. \A o \in Own(r) : DependsOn(o) \subseteq DOMAIN schema \cup Own(r)
    BY <1>3, LaterDependencies
  <2> HIDE DEF created
  <2> QED BY <1>3, <2>1, <2>2, AddsOwn
<1>4. CASE r = "bb_add_external_fields"
  <2>1. Adds(Versions[r].upgrade, {}, {}, {}, ExternalColumns) /\ Own(r) = ExternalColumns
    BY <1>4, PlainUpgrades, OwnObjects
  <2>2. \A o \in ExternalColumns : DependsOn(o) \subseteq BaseTables
    <3>1. \A o \in ExternalColumns :
            \E t \in {"stations", "chargers"} : \E n : o = <<t, n>> /\ n \notin DOMAIN On
      BY PlainNames DEF ExternalColumns, Of
    <3> QED BY <3>1, ColumnDependsOn DEF BaseTables
  <2> QED BY <1>2, <1>4, <2>1, <2>2, AddsOwn
<1>5. CASE r = "c1d2e3f4add"
  <2>1. Adds(Versions[r].upgrade, {PostGIS}, {}, {}, ChargerLocation) /\ Own(r) = ChargerLocation
    BY <1>5, PlainUpgrades, OwnObjects
  <2> QED BY <1>1, <1>2, <1>5, <2>1, LaterDependencies, AddsOwn
<1>6. CASE r = "20251020_add_kepco_fields"
  <2>1. Adds(Versions[r].upgrade, {}, {}, {}, KepcoFields) /\ Own(r) = KepcoFields
    BY <1>6, PlainUpgrades, OwnObjects
  <2> QED BY <1>2, <1>6, <2>1, LaterDependencies, AddsOwn
<1>7. CASE r = "20251023_add_additional_kepco_fields"
  <2>1. Adds(Versions[r].upgrade, {}, {}, {}, AdditionalFields) /\ Own(r) = AdditionalFields
    BY <1>7, PlainUpgrades, OwnObjects
  <2>2. "d8c47bac145f" \in S
    BY <1>7, Parents DEF Ready
  <2>3. "20251020_add_kepco_fields" \in S
    BY <1>1, <2>2, Parents DEF IsClosed
  <2>4. KepcoFields \subseteq DOMAIN schema
    BY <1>1, <2>3, BuiltObjects, OwnObjects
  <2>5. \A o \in Own(r) : DependsOn(o) \subseteq DOMAIN schema \cup Own(r)
    BY <1>2, <2>1, <2>4, LaterDependencies
  <2> QED BY <1>7, <2>1, <2>5, AddsOwn
<1>8. CASE r = "20251028_add_sale_price"
  <2>1. Adds(Versions[r].upgrade, {}, SalePrice, {}, {})
    BY <1>8, PlainUpgrades
  <2>2. "82564d70969d" \in S
    BY <1>8, Parents DEF Ready
  <2>3. Table("subsidies") \in Own("82564d70969d")
    BY OwnObjects DEF Of, Table
  <2>4. Table("subsidies") \in DOMAIN schema
    BY <1>1, <2>2, <2>3, BuiltObjects
  <2>5. \A o \in Own(r) : DependsOn(o) \subseteq DOMAIN schema \cup Own(r)
    BY <1>8, <2>4, LaterDependencies, OwnObjects
  <2>6. Own(r) = SalePrice \cup {}
    BY <1>8, OwnObjects
  <2> QED BY <1>8, <2>1, <2>5, <2>6, AddsOwn
<1> QED BY <1>3, <1>4, <1>5, <1>6, <1>7, <1>8

\* What the repeating revisions look for is there once their parents have run.
LEMMA RepeatsFind ==
  ASSUME NEW S, IsClosed(S), S # {}, NEW schema, IsOf(schema, S)
  PROVE  /\ Of("stations", {"idx_stations_location"}) \subseteq DOMAIN schema
         /\ "20251023_add_additional_kepco_fields" \in S =>
                /\ CompatFields \cup CpFields \subseteq DOMAIN schema
                /\ AdditionalFields \subseteq DOMAIN schema
         /\ "82564d70969d" \in S => Of("subsidies", {"model_name"}) \subseteq DOMAIN schema
<1>1. Of("stations", {"idx_stations_location"}) \subseteq DOMAIN schema
  BY BaseIsThere DEF Of
<1>2. CompatFields \cup CpFields \subseteq AdditionalFields
  BY DEF CompatFields, CpFields, AdditionalFields, Of
<1>3. ASSUME "20251023_add_additional_kepco_fields" \in S
      PROVE  AdditionalFields \subseteq DOMAIN schema
  BY <1>3, BuiltObjects, OwnObjects
<1>4. ASSUME "82564d70969d" \in S
      PROVE  Of("subsidies", {"model_name"}) \subseteq DOMAIN schema
  <2>1. <<"subsidies", "model_name">> \in Own("82564d70969d")
    BY OwnObjects DEF Of
  <2>2. <<"subsidies", "model_name">> \in DOMAIN schema
    BY <1>4, <2>1, BuiltObjects
  <2> QED BY <2>2 DEF Of
<1> QED BY <1>1, <1>2, <1>3, <1>4

\* The revisions that define nothing of their own, for the first time or again.
LEMMA OthersLead ==
  ASSUME NEW S, IsClosed(S), S # {}, NEW schema, IsOf(schema, S),
         NEW r \in {"b7a145511e70", "d6b8f2f8579d", "9508604ce511", "0f42d4f96fa6",
                    "d8c47bac145f", "20251031_subsidy_data_migration"} \cup Repeats,
         r \in S \/ Versions[r].down_revision \subseteq S
  PROVE  Leads(S, schema, r)
<1> DEFINE step == Versions[r].upgrade
<1>1. PostGIS \in DOMAIN schema
  BY BuiltObjects
<1>2. /\ Own(r) = {}
      /\ r \notin {"a22583938b64", "20251028_convert_kepco_ts_to_timestamptz"}
  BY OwnObjects DEF Repeats
<1>3. CASE r \in {"b7a145511e70", "d6b8f2f8579d", "9508604ce511", "0f42d4f96fa6",
                  "d8c47bac145f"}
  <2>1. Adds(step, {}, {}, {}, {})
    BY <1>3, PlainUpgrades
  <2> HIDE DEF step
  <2>2. Fits(schema, step) /\ IsOf(Apply(schema, step, r), S \cup {r})
    BY <1>1, <1>2, <2>1, SameAgain
  <2> QED BY <2>2 DEF Leads, step
<1>4. CASE r = "20251031_subsidy_data_migration"
  <2>1. Adds(step, Of("subsidies", {"model_name"}), {}, {}, {})
    BY <1>4, PlainUpgrades
  <2>2. "82564d70969d" \in S
    BY <1>4, ClosedSets, Parents
  <2>3. Of("subsidies", {"model_name"}) \subseteq DOMAIN schema
    BY <2>2, RepeatsFind
  <2> HIDE DEF step
  <2>4. Fits(schema, step) /\ IsOf(Apply(schema, step, r), S \cup {r})
    BY <1>1, <1>2, <2>1, <2>3, SameAgain
  <2> QED BY <2>4 DEF Leads, step
<1>5. CASE r = "aa1b2c3d4e5f"
  <2>1. Adds(step, {}, {}, {PostGIS}, Of("stations", {"idx_stations_location"}))
    BY <1>5, PlainUpgrades
  <2>2. Table(PostGIS[1]) = PostGIS
    BY DEF PostGIS, Table
  <2> HIDE DEF step
  <2>3. Fits(schema, step) /\ IsOf(Apply(schema, step, r), S \cup {r})
    BY <1>1, <1>2, <2>1, <2>2, RepeatsFind, SameAgain
  <2> QED BY <2>3 DEF Leads, step
<1>6. CASE r = "20251025_add_station_api_compat"
  <2> DEFINE needs == Rev_20251025_add_station_api_compat.upgrade.needs
  <2>1. Adds(step, needs, {}, {}, CompatFields)
    BY <1>6, PlainUpgrades
  <2>2. needs = Of("stations", {"name", "address", "location"}) \cup {PostGIS}
    BY DEF Rev_20251025_add_station_api_compat, Revision, Pass
  <2>3. Of("stations", {"name", "address", "location"}) \subseteq DOMAIN schema
    BY BaseIsThere DEF Of
  <2>4. "20251023_add_additional_kepco_fields" \in S
    BY <1>6, ClosedSets, Parents
  <2>5. needs \subseteq DOMAIN schema
    BY <1>1, <2>2, <2>3
  <2>6. CompatFields \subseteq DOMAIN schema
    BY <2>4, RepeatsFind
  <2> HIDE DEF step, needs
  <2>7. Fits(schema, step) /\ IsOf(Apply(schema, step, r), S \cup {r})
    BY <1>1, <1>2, <2>1, <2>5, <2>6, SameAgain
  <2> QED BY <2>7 DEF Leads, step
<1>7. CASE r = "20251025_add_cp_fields_migration"
  <2>1. Adds(step, {}, {}, {}, CpFields)
    BY <1>7, PlainUpgrades
  <2>2. "20251023_add_additional_kepco_fields" \in S
    BY <1>7, ClosedSets, Parents
  <2> HIDE DEF step
  <2>3. Fits(schema, step) /\ IsOf(Apply(schema, step, r), S \cup {r})
    BY <1>1, <1>2, <2>1, <2>2, RepeatsFind, SameAgain
  <2> QED BY <2>3 DEF Leads, step
<1> QED BY <1>3, <1>4, <1>5, <1>6, <1>7 DEF Repeats

\* What the revisions with drops would drop if it were there.
LEMMA NeverThere ==
  ASSUME NEW S, IsClosed(S), NEW schema, IsOf(schema, S), NEW o \in DOMAIN schema
  PROVE  /\ o \notin {<<"stations", "ix_stations_name">>,
                      <<"chargers", "uq_station_charger_code">>}
         /\ o[1] \notin {"api_log", "station", "charger"}
<1> DEFINE fine(x) == /\ x \notin {<<"stations", "ix_stations_name">>,
                                   <<"chargers", "uq_station_charger_code">>}
                      /\ x[1] \notin {"api_log", "station", "charger"}
<1>1. o = PostGIS \/ \E r \in S : o \in Own(r)
  BY BuiltObjects
<1>2. fine(PostGIS)
  BY DEF PostGIS, Table
<1>3. \A x \in Own("60afb71f58fe") : fine(x)
  BY OwnObjects DEF Of
<1>4. \A x \in Own("a22583938b64") \cup Own("82564d70969d") : fine(x)
  BY OwnObjects DEF Of, Altered, ApiLogFields, SubsidyIndexes
<1>5. \A x \in Own("daa5cac943ac") \cup SalePrice : fine(x)
  BY OwnObjects DEF Of, SalePrice
<1>6. \A x \in ExternalColumns \cup ChargerLocation \cup KepcoFields \cup {Kepco} : fine(x)
  BY DEF ExternalColumns, ChargerLocation, KepcoFields, Kepco, Of
<1>7. \A x \in AdditionalFields : fine(x)
  BY DEF AdditionalFields, Of
<1> HIDE DEF fine
<1>8. ASSUME NEW r \in Revisions, NEW x \in Own(r)
      PROVE  fine(x)
  BY <1>3, <1>4, <1>5, <1>6, <1>7, OwnObjects, RevisionNames DEF Repeats
<1>9. fine(o)
  BY <1>1, <1>2, <1>8 DEF IsClosed
<1> QED BY <1>9 DEF fine

LEMMA SubsidiesLead ==
  ASSUME NEW S, NEW schema, Ready(S, schema, "82564d70969d")
  PROVE  Leads(S, schema, "82564d70969d")
<1> DEFINE r == "82564d70969d"
           step == Versions[r].upgrade
           R == step.drops \cup step.discards
           left == Without(schema, R)
<1>1. S # {} /\ IsClosed(S) /\ IsOf(schema, S) /\ PostGIS \in DOMAIN schema
  BY Parents DEF Ready
<1>2. /\ step.needs = Commented /\ step.drops = {} /\ step.types = {} /\ step.tables = {}
      /\ step.ensures = {} /\ step.alters = {} /\ step.creates = Own(r)
      /\ step.discards = {<<"stations", "ix_stations_name">>}
  BY OtherUpgrades DEF Own, Repeats, Defines, Of
<1>3. Commented \subseteq DOMAIN schema
  BY <1>1, BaseIsThere DEF Commented, ApiLogFields, Of
<1>4. \A o \in DOMAIN schema : ~Cut(o, R)
  <2>1. R = {<<"stations", "ix_stations_name">>}
    BY <1>2
  <2>2. "ix_stations_name" \in DOMAIN On
    BY DEF On
  <2>3. \A o : <<"stations", "ix_stations_name">> \notin DependsOn(o)
    BY <2>2, CutByIndex
  <2> QED BY <1>1, <2>1, <2>3, NeverThere DEF Cut
<1>5. DOMAIN left = DOMAIN schema /\ \A o \in DOMAIN schema : left[o] = schema[o]
  BY <1>4, WithoutFields
<1> HIDE DEF step, left
<1>6. Added(left, step) = Own(r)
  BY <1>2 DEF Added
<1>7. \A o \in Own(r) : DependsOn(o) \subseteq DOMAIN schema \cup Own(r)
  BY <1>1, BaseIsThere, LaterDependencies
<1>8. left = Without(schema, step.drops \cup step.discards)
  BY DEF left
<1>9. /\ IsClosed(S) /\ r \in Revisions \ S /\ Versions[r].down_revision \subseteq S
      /\ IsOf(schema, S) /\ PostGIS \in DOMAIN schema
  BY DEF Ready
<1>10. /\ step.drops = {} /\ step.types = {} /\ step.alters = {}
       /\ step.needs \subseteq DOMAIN schema /\ step.creates \subseteq Own(r)
  BY <1>2, <1>3
<1>11. r \notin {"a22583938b64", "20251028_convert_kepco_ts_to_timestamptz"}
  OBVIOUS
<1> HIDE DEF r
<1>12. Fits(schema, step) /\ IsOf(Apply(schema, step, r), S \cup {r})
  BY <1>5, <1>6, <1>7, <1>8, <1>9, <1>10, <1>11, FreshAdds
<1> QED BY <1>12 DEF Leads, step, r

LEMMA ConversionLeads ==
  ASSUME NEW S, NEW schema, Ready(S, schema, "20251028_convert_kepco_ts_to_timestamptz")
  PROVE  Leads(S, schema, "20251028_convert_kepco_ts_to_timestamptz")
<1> DEFINE r == "20251028_convert_kepco_ts_to_timestamptz"
           text == "20251023_add_additional_kepco_fields"
           step == Versions[r].upgrade
           R == step.drops \cup step.discards
           left == Without(schema, R)
           new == Added(left, step)
           result == Apply(schema, step, r)
<1>1. /\ S # {} /\ IsClosed(S) /\ IsOf(schema, S) /\ PostGIS \in DOMAIN schema
      /\ r \notin S /\ "20251025_add_cp_fields_migration" \in S
  BY Parents DEF Ready
<1>2. text \in S
  BY <1>1, ClosedSets
<1>3. /\ step.types = {[of |-> Kepco, by |-> TextKepco]}
      /\ step.drops = {Kepco} /\ step.creates = {Kepco}
      /\ step.needs = {} /\ step.discards = {} /\ step.tables = {} /\ step.ensures = {}
      /\ step.alters = {}
  BY OtherUpgrades
<1>4. \A o, q : Gives(S, o, q) <=> o \in DOMAIN schema /\ schema[o] = q
  BY <1>1, BuiltObjects
<1>5. Kepco \in DOMAIN schema /\ schema[Kepco] = text
  <2>1. Kepco \in Own(text)
    BY OwnObjects DEF AdditionalFields, Kepco, Of
  <2>2. Gives(S, Kepco, text)
    BY <1>1, <1>2, <2>1 DEF Gives, Replaced
  <2> QED BY <1>4, <2>2
<1>6. new = {Kepco}
  BY <1>3 DEF Added
<1>7. \A o : Cut(o, R) <=> o = Kepco
  <2>1. Kepco[2] = "kepco_stat_update_datetime"
    BY DEF Kepco
  <2>2. \A o : Kepco \notin DependsOn(o)
    BY <2>1, CutByIndex
  <2> QED BY <1>3, <2>2 DEF Cut
<1>8. DOMAIN left = DOMAIN schema \ {Kepco}
  BY <1>7, WithoutFields
<1>9. Fits(schema, step)
  <2>1. DependsOn(Kepco) \subseteq DOMAIN left
    <3>1. DependsOn(Kepco) \subseteq BaseTables
      BY LaterDependencies
    <3>2. Kepco \notin BaseTables
      BY DEF Kepco, BaseTables, Table
    <3>3. BaseTables \subseteq DOMAIN schema
      BY <1>1, BaseIsThere
    <3> QED BY <1>8, <3>1, <3>2, <3>3
  <2>2. text \in TextKepco
    BY DEF TextKepco
  <2> HIDE DEF step
  <2> QED BY <1>3, <1>5, <1>6, <1>8, <2>1, <2>2 DEF Fits
<1>10. /\ DOMAIN result = DOMAIN schema
       /\ result[Kepco] = r /\ \A o \in DOMAIN schema \ {Kepco} : result[o] = schema[o]
  <2>1. /\ result = Apply(schema, step, r)
        /\ R = step.drops \cup step.discards
        /\ new = Added(Without(schema, R), step)
    OBVIOUS
  <2> HIDE DEF step, R, left, new, result
  <2>2. /\ \A o : o \in DOMAIN result <=>
                    \/ o \in DOMAIN schema /\ ~Cut(o, R)
                    \/ o \in new
        /\ \A o \in DOMAIN result :
            result[o] = IF o \in new \cup step.alters THEN r ELSE schema[o]
    BY <2>1, ResultFields
  <2> QED BY <1>3, <1>5, <1>6, <1>7, <2>2
<1> HIDE DEF step, result
<1>11. ASSUME NEW o, NEW q
       PROVE  Gives(S \cup {r}, o, q) <=> o \in DOMAIN result /\ result[o] = q
  <2>1. CASE q = r
    <3>1. Gives(S \cup {r}, o, q) <=> o = Kepco
      BY <2>1, OwnObjects DEF Gives, Replaced
    <3>2. o # Kepco /\ o \in DOMAIN schema => schema[o] # r
      BY <1>1, <1>4, OwnObjects DEF Gives
    <3> QED BY <1>5, <1>10, <2>1, <3>1, <3>2
  <2>2. CASE q # r
    <3>1. Gives(S \cup {r}, o, q) <=> Gives(S, o, q) /\ ~(q = text /\ o = Kepco)
      BY <1>1, <2>2, NobodyOwnsPostGIS DEF Gives, Replaced, Kepco, PostGIS, Table
    <3> QED BY <1>4, <1>5, <1>10, <2>2, <3>1
  <2> QED BY <2>1, <2>2
<1> QED BY <1>9, <1>11 DEF Leads, IsOf, step, result

\* Dropping the fields of the logs takes nothing else with them.
LEMMA LostCuts ==
  ASSUME NEW S, IsClosed(S), NEW schema, IsOf(schema, S),
         NEW R, R = Lost \cup LegacyTables \cup Of("chargers", {"uq_station_charger_code"}),
         NEW o \in DOMAIN schema
  PROVE  Cut(o, R) <=> o \in Lost
<1>1. /\ o \notin {<<"stations", "ix_stations_name">>, <<"chargers", "uq_station_charger_code">>}
      /\ o[1] \notin {"api_log", "station", "charger"}
  BY NeverThere
<1>2. o \in Lost => Cut(o, R)
  BY DEF Cut
<1>3. ASSUME NEW d \in Lost, d # o
      PROVE  d \notin DependsOn(o)
  <2>1. d[2] # "table"
    BY DEF Lost, Of
  <2>2. d # Table(o[1])
    BY <2>1 DEF Table
  <2>3. ASSUME NEW n \in DOMAIN On
        PROVE  d[2] \notin On[n]
    <3>1. d[2] \in {"request_time", "response_time_ms", "response_msg"}
      BY DEF Lost, Of
    <3> QED BY <2>3, <3>1 DEF On
  <2> QED BY <2>2, <2>3 DEF DependsOn, Of
<1>4. ASSUME NEW d \in LegacyTables
      PROVE  d # o /\ d \notin DependsOn(o)
  <2>1. d[1] \in {"api_log", "station", "charger"}
    BY DEF LegacyTables, Table
  <2> QED BY <1>1, <2>1, Dependencies
<1>5. ASSUME NEW d \in Of("chargers", {"uq_station_charger_code"})
      PROVE  d # o /\ d \notin DependsOn(o)
  <2>1. d = <<"chargers", "uq_station_charger_code">>
    BY DEF Of
  <2>2. d[2] \in DOMAIN On
    BY <2>1 DEF On
  <2> QED BY <1>1, <2>1, <2>2, CutByIndex
<1> QED BY <1>2, <1>3, <1>4, <1>5 DEF Cut

LEMMA AlterationLeads ==
  ASSUME NEW S, NEW schema, Ready(S, schema, "a22583938b64")
  PROVE  Leads(S, schema, "a22583938b64")
<1> DEFINE r == "a22583938b64"
           first == "60afb71f58fe"
           uc == <<"chargers", "_station_charger_uc">>
           step == Versions[r].upgrade
           R == step.drops \cup step.discards
           left == Without(schema, R)
           new == Added(left, step)
           result == Apply(schema, step, r)
<1>1. /\ S # {} /\ IsClosed(S) /\ IsOf(schema, S) /\ PostGIS \in DOMAIN schema
      /\ r \notin S /\ first \in S
  BY Parents, ClosedSets DEF Ready
<1>2. /\ step.needs = Of("api_logs", {"response_code"}) \cup
                      Of("chargers", {"charger_type", "connector_type", "status_code"})
      /\ step.drops = Lost
      /\ step.discards = LegacyTables \cup Of("chargers", {"uq_station_charger_code"})
      /\ step.creates = {uc} /\ step.alters = Altered
      /\ step.types = {} /\ step.tables = {} /\ step.ensures = {}
  BY OtherUpgrades DEF Lost, Altered, Of
<1>3. \A o, q : Gives(S, o, q) <=> o \in DOMAIN schema /\ schema[o] = q
  BY <1>1, BuiltObjects
<1>4. Own(r) = Altered \cup {uc}
  BY OwnObjects DEF Of
<1>5. /\ Lost \cup Altered \subseteq Own(first)
      /\ Lost \cap Altered = {}
  BY OwnObjects DEF Lost, Altered, ApiLogFields, Of
<1>6. \A o \in Lost \cup Altered : o \in DOMAIN schema /\ schema[o] = first
  BY <1>1, <1>3, <1>5 DEF Gives, Replaced
<1>7. uc \notin DOMAIN schema /\ uc \notin Lost \cup Altered
  <2>1. uc \notin Lost \cup Altered /\ uc # Kepco /\ uc # PostGIS
    BY DEF Lost, Altered, ApiLogFields, Of, Kepco, PostGIS, Table
  <2>2. uc # <<"api_logs", "response_msg">>
    OBVIOUS
  <2> HIDE DEF uc
  <2>3. ASSUME uc \in DOMAIN schema
        PROVE  FALSE
    <3> DEFINE q == schema[uc]
    <3>1. q \in S /\ uc \in Own(q)
      BY <1>1, <2>1, <2>3, BuiltObjects
    <3>2. q \in Revisions /\ r \in Revisions /\ q # r /\ uc \in Own(r)
      BY <1>1, <1>4, <3>1, RevisionNames DEF IsClosed
    <3> HIDE DEF q
    <3> QED BY <2>1, <2>2, <3>1, <3>2, OwnersDiffer
  <2> QED BY <2>1, <2>3
<1>8. new = {uc}
  BY <1>2 DEF Added
<1>9. \A o \in DOMAIN schema : Cut(o, R) <=> o \in Lost
  <2>1. R = Lost \cup LegacyTables \cup Of("chargers", {"uq_station_charger_code"})
    BY <1>2
  <2> QED BY <1>1, <2>1, LostCuts
<1>10. DOMAIN left = DOMAIN schema \ Lost
  BY <1>9, WithoutFields
<1>11. Fits(schema, step)
  <2>1. step.needs \subseteq DOMAIN schema
    BY <1>1, <1>2, BaseIsThere DEF Of
  <2>2. /\ DependsOn(uc) = {Table("chargers"), <<"chargers", "station_id">>,
                            <<"chargers", "charger_code">>}
    BY IndexDependencies
  <2>3. {Table("chargers"), <<"chargers", "station_id">>, <<"chargers", "charger_code">>}
            \subseteq DOMAIN schema \ Lost
    BY <1>1, BaseIsThere DEF Of, Table, Lost
  <2> HIDE DEF uc
  <2>4. step.needs \cup step.alters \cup step.drops \subseteq DOMAIN schema
    BY <1>2, <1>6, <2>1
  <2>5. step.creates \cap DOMAIN left = {}
    BY <1>2, <1>7, <1>10
  <2>6. UNION {DependsOn(o) : o \in new} \subseteq DOMAIN left \cup new
    BY <1>8, <1>10, <2>2, <2>3
  <2> HIDE DEF step
  <2> QED BY <1>2, <2>4, <2>5, <2>6 DEF Fits
<1>12. /\ \A o : o \in DOMAIN result <=> o = uc \/ o \in DOMAIN schema \ Lost
       /\ \A o \in DOMAIN result :
            result[o] = IF o \in Altered \cup {uc} THEN r ELSE schema[o]
  <2>1. /\ result = Apply(schema, step, r)
        /\ R = step.drops \cup step.discards
        /\ new = Added(Without(schema, R), step)
    OBVIOUS
  <2> HIDE DEF step, R, left, new, result, uc
  <2>2. /\ \A o : o \in DOMAIN result <=>
                    \/ o \in DOMAIN schema /\ ~Cut(o, R)
                    \/ o \in new
        /\ \A o \in DOMAIN result :
            result[o] = IF o \in new \cup step.alters THEN r ELSE schema[o]
    BY <2>1, ResultFields
  <2> QED BY <1>2, <1>8, <1>9, <2>2
<1> HIDE DEF step, result, uc
<1>13. ASSUME NEW o, NEW q
       PROVE  Gives(S \cup {r}, o, q) <=> o \in DOMAIN result /\ result[o] = q
  <2>1. CASE q = r
    <3>1. Gives(S \cup {r}, o, q) <=> o \in Altered \cup {uc}
      BY <1>4, <2>1 DEF Gives, Replaced
    <3>2. o \in DOMAIN schema => schema[o] # r
      BY <1>1, <1>3 DEF Gives
    <3> QED BY <1>5, <1>6, <1>12, <2>1, <3>1, <3>2
  <2>2. CASE q # r
    <3>1. Gives(S \cup {r}, o, q) <=> Gives(S, o, q) /\ ~(q = first /\ o \in Lost \cup Altered)
      <4>1. PostGIS \notin Lost \cup Altered
        BY DEF PostGIS, Table, Lost, Altered, ApiLogFields, Of
      <4> QED BY <1>1, <2>2, <4>1 DEF Gives, Replaced
    <3>2. o \in DOMAIN schema => o # uc
      BY <1>7
    <3> QED BY <1>3, <1>6, <1>12, <2>2, <3>1, <3>2
  <2> QED BY <2>1, <2>2
<1> QED BY <1>11, <1>13 DEF Leads, IsOf, step, result

\* A revision that runs for the first time fits, and the schema is then that of
\* what ran before and of it.
LEMMA FirstRunLeads ==
  ASSUME NEW S, NEW schema, NEW r, Ready(S, schema, r)
  PROVE  Leads(S, schema, r)
<1>1. r \in Revisions
  BY DEF Ready
<1>2. CASE r = "60afb71f58fe"
  BY <1>2, FirstLeads
<1>3. CASE r \in {"daa5cac943ac", "bb_add_external_fields", "c1d2e3f4add",
                  "20251020_add_kepco_fields", "20251023_add_additional_kepco_fields",
                  "20251028_add_sale_price"}
  BY <1>3, AddersLead
<1>4. CASE r \in {"b7a145511e70", "d6b8f2f8579d", "9508604ce511", "0f42d4f96fa6",
                  "d8c47bac145f", "20251031_subsidy_data_migration"} \cup Repeats
  <2>1. S # {}
    BY <1>4, Parents DEF Ready, Repeats
  <2> QED BY <1>4, <2>1, OthersLead DEF Ready
<1>5. CASE r = "82564d70969d"
  BY <1>5, SubsidiesLead
<1>6. CASE r = "a22583938b64"
  BY <1>6, AlterationLeads
<1>7. CASE r = "20251028_convert_kepco_ts_to_timestamptz"
  BY <1>7, ConversionLeads
<1> QED BY <1>1, <1>2, <1>3, <1>4, <1>5, <1>6, <1>7, RevisionNames DEF Repeats

-----------------------------------------------------------------------------
(* A revision that runs again                                              *)

\* What a stamp may make run again: neither Stamped, nor what it comes after, nor
\* the branch of the subsidies.
Reruns == {"9508604ce511", "aa1b2c3d4e5f", "bb_add_external_fields", "c1d2e3f4add",
           "0f42d4f96fa6", "20251020_add_kepco_fields", "d8c47bac145f",
           "20251023_add_additional_kepco_fields", "20251025_add_station_api_compat",
           "20251025_add_cp_fields_migration", "20251028_convert_kepco_ts_to_timestamptz"}

LEMMA AgainLeads ==
  ASSUME NEW S, IsClosed(S), NEW schema, IsOf(schema, S),
         NEW r \in S, r \in Reruns \ {"20251028_convert_kepco_ts_to_timestamptz"}
  PROVE  Leads(S, schema, r)
<1> DEFINE step == Versions[r].upgrade
<1>1. PostGIS \in DOMAIN schema
  BY BuiltObjects
<1>2. CASE r \in {"9508604ce511", "0f42d4f96fa6", "d8c47bac145f"} \cup Repeats
  BY <1>2, OthersLead
<1>3. ASSUME NEW needs, NEW ensures, needs \subseteq {PostGIS}, ensures = Own(r),
             Adds(step, needs, {}, {}, ensures)
      PROVE  Leads(S, schema, r)
  <2>1. ensures \subseteq DOMAIN schema
    <3>1. r # "60afb71f58fe"
      BY DEF Reruns
    <3> QED BY <1>3, <3>1, BuiltObjects
  <2>2. needs \subseteq DOMAIN schema
    BY <1>1, <1>3
  <2> HIDE DEF step
  <2>3. Fits(schema, step) /\ IsOf(Apply(schema, step, r), S \cup {r})
    BY <1>1, <1>3, <2>1, <2>2, SameAgain
  <2> QED BY <2>3 DEF Leads, step
<1>4. CASE r \in {"bb_add_external_fields", "20251020_add_kepco_fields",
                  "20251023_add_additional_kepco_fields"}
  <2>1. Adds(step, {}, {}, {}, Own(r))
    BY <1>4, PlainUpgrades, OwnObjects
  <2> QED BY <1>3, <2>1
<1>5. CASE r = "c1d2e3f4add"
  <2>1. Adds(step, {PostGIS}, {}, {}, Own(r))
    BY <1>5, PlainUpgrades, OwnObjects
  <2> QED BY <1>3, <2>1
<1> QED BY <1>2, <1>4, <1>5 DEF Reruns, Repeats

\* The conversion of the KEPCO time does not fit its own result.
LEMMA ConversionFailsAgain ==
  ASSUME NEW S, IsClosed(S), NEW schema, IsOf(schema, S),
         "20251028_convert_kepco_ts_to_timestamptz" \in S
  PROVE  ~Fits(schema, Versions["20251028_convert_kepco_ts_to_timestamptz"].upgrade)
<1> DEFINE r == "20251028_convert_kepco_ts_to_timestamptz"
           step == Versions[r].upgrade
<1>1. Gives(S, Kepco, r)
  BY OwnObjects DEF Gives, Replaced
<1>2. schema[Kepco] = r
  BY <1>1, BuiltObjects
<1>3. step.types = {[of |-> Kepco, by |-> TextKepco]}
  BY OtherUpgrades
<1>4. r \notin TextKepco
  BY DEF TextKepco
<1> HIDE DEF step
<1>5. ~Fits(schema, step)
  BY <1>2, <1>3, <1>4 DEF Fits
<1> QED BY <1>5 DEF step

LEMMA StampedAncestors ==
  /\ Revisions \ Ancestors[Stamped] \subseteq
        Reruns \cup {"20251028_add_sale_price", "20251031_subsidy_data_migration"}
  /\ \A v \in Revisions : Stamped \in Ancestors[v] =>
        /\ "20251028_add_sale_price" \notin Ancestors[v]
        /\ "20251031_subsidy_data_migration" \notin Ancestors[v]
<1> DEFINE sale == "20251028_add_sale_price"
           data == "20251031_subsidy_data_migration"
           tz == "20251028_convert_kepco_ts_to_timestamptz"
<1>1. {"60afb71f58fe", "b7a145511e70", "a22583938b64", "d6b8f2f8579d", "82564d70969d",
       "daa5cac943ac"} \subseteq Ancestors[Stamped]
  <2>1. IsClosed(Ancestors[Stamped]) /\ "daa5cac943ac" \in Ancestors[Stamped]
    BY AncestorsOrder, ParentsAndAncestors, RevisionNames DEF IsClosed, Stamped
  <2>2. "82564d70969d" \in Ancestors[Stamped] /\ "d6b8f2f8579d" \in Ancestors[Stamped]
    BY <2>1, Parents DEF IsClosed
  <2>3. "a22583938b64" \in Ancestors[Stamped] /\ "b7a145511e70" \in Ancestors[Stamped]
    BY <2>1, <2>2, Parents DEF IsClosed
  <2>4. "60afb71f58fe" \in Ancestors[Stamped]
    BY <2>1, <2>3, Parents DEF IsClosed
  <2> QED BY <2>1, <2>2, <2>3, <2>4
<1>2. \A v \in Revisions : \A x \in Ancestors[v] : x \in Revisions /\ (x = v \/ Rank[x] < Rank[v])
  BY AllPlaced DEF Placed
<1>3. ASSUME NEW v \in Revisions, sale \in Ancestors[v] \/ data \in Ancestors[v]
      PROVE  v \in {sale, data}
  <2>1. v \in {sale, tz, data}
    BY <1>2, <1>3, RevisionNames DEF Rank
  <2>2. v # tz
    <3>1. Ancestors[tz] = {tz} \cup Ancestors["20251025_add_cp_fields_migration"]
      BY AncestorsOfParents, Parents, RevisionNames DEF Closed
    <3>2. /\ sale \notin Ancestors["20251025_add_cp_fields_migration"]
          /\ data \notin Ancestors["20251025_add_cp_fields_migration"]
      BY <1>2, RevisionNames DEF Rank
    <3> QED BY <1>3, <3>1, <3>2
  <2> QED BY <2>1, <2>2
<1>4. Stamped \notin Ancestors[sale] /\ Stamped \notin Ancestors[data]
  <2>1. Ancestors[sale] = {sale} \cup Ancestors["82564d70969d"]
    BY AncestorsOfParents, Parents, RevisionNames DEF Closed
  <2>2. Ancestors[data] = {data} \cup Ancestors[sale]
    BY AncestorsOfParents, Parents, RevisionNames DEF Closed
  <2>3. Stamped \notin Ancestors["82564d70969d"]
    BY <1>2, RevisionNames DEF Rank, Stamped
  <2> QED BY <2>1, <2>2, <2>3 DEF Stamped
<1> QED BY <1>1, <1>3, <1>4, RevisionNames DEF Reruns

\* A stamp takes away only what may run again.
LEMMA StampTakesAway ==
  ASSUME NEW version, IsVersion(version),
         NEW stamped, stamped = (version \ {v \in version : \/ v \in Ancestors[Stamped]
                                                           \/ Stamped \in Ancestors[v]})
                                    \cup {Stamped}
  PROVE  Applied(version) \ Applied(stamped) \subseteq Reruns
<1> SUFFICES ASSUME NEW x \in Applied(version), x \notin Applied(stamped)
             PROVE  x \in Reruns
  OBVIOUS
<1>1. PICK v \in version : x \in Ancestors[v]
  BY DEF Applied
<1>2. v \in Revisions /\ x \in Revisions
  BY <1>1, AncestorsOrder DEF IsVersion
<1>3. Stamped \in Revisions /\ Stamped \in stamped
  BY RevisionNames DEF Stamped
<1>4. v \notin stamped /\ x \notin Ancestors[Stamped]
  BY <1>1, <1>3 DEF Applied
<1>5. v \in Ancestors[Stamped] \/ Stamped \in Ancestors[v]
  BY <1>4
<1>6. v \notin Ancestors[Stamped]
  BY <1>1, <1>3, <1>4, AncestorsOrder
<1> QED BY <1>1, <1>2, <1>4, <1>5, <1>6, StampedAncestors

-----------------------------------------------------------------------------
(* The commands                                                            *)

\* As long as only upgrades changed the schema, and what is said to be applied
\* has run, the schema is that of what ran; in an upgrade, with what it ran so
\* far.
OrderInv ==
    LET before == Applied(db.version)
        applied == Applied(tx.version)
    IN  /\ tx.cmd # "none" => failure = NoFailure
        /\ touched = {} =>
            /\ ran \ before \subseteq Reruns
            /\ before \subseteq ran =>
                /\ IsClosed(ran) /\ IsOf(db.schema, ran)
                /\ tx.cmd = "upgrade" => IsOf(tx.schema, ran \cup applied)

LEMMA ClosedUnion ==
  ASSUME NEW S, IsClosed(S), NEW T, IsClosed(T)
  PROVE  IsClosed(S \cup T)
BY DEF IsClosed

\* The revisions an upgrade can run, on the schema of what ran.
LEMMA NextLeads ==
  ASSUME NEW S, IsClosed(S), NEW schema, IsOf(schema, S),
         NEW r \in Revisions, Versions[r].down_revision \subseteq S,
         r \in S => r \in Reruns
  PROVE  /\ Fits(schema, Versions[r].upgrade) =>
                IsOf(Apply(schema, Versions[r].upgrade, r), S \cup {r})
         /\ ~Fits(schema, Versions[r].upgrade) =>
                \/ r = "60afb71f58fe" /\ PostGIS \notin DOMAIN schema
                \/ r = "20251028_convert_kepco_ts_to_timestamptz" /\ r \in S
<1>1. CASE r \in S
  BY <1>1, AgainLeads, ConversionFailsAgain DEF Leads
<1>2. CASE r \notin S /\ PostGIS \in DOMAIN schema
  BY <1>2, FirstRunLeads DEF Leads, Ready
<1>3. CASE r \notin S /\ PostGIS \notin DOMAIN schema
  <2>1. S = {}
    BY <1>3, BuiltObjects
  <2>2. r = "60afb71f58fe"
    BY <2>1, RevisionNames, Parents
  <2>3. Versions[r].upgrade.needs = {PostGIS}
    BY <2>2, PlainUpgrades DEF Adds
  <2>4. ~Fits(schema, Versions[r].upgrade)
    BY <1>3, <2>3 DEF Fits
  <2> QED BY <1>3, <2>2, <2>4
<1> QED BY <1>1, <1>2, <1>3

\* An upgrade under way, as long as the schema is that of what ran.
LEMMA UpgradeInOrder ==
  ASSUME VersionInv, OrderInv, touched = {}, Applied(db.version) \subseteq ran,
         tx.cmd = "upgrade",
         NEW r \in Revisions, r \notin Applied(tx.version),
         Versions[r].down_revision \subseteq Applied(tx.version)
  PROVE  LET S == ran \cup Applied(tx.version)
         IN  /\ IsClosed(S) /\ IsOf(tx.schema, S)
             /\ Versions[r].down_revision \subseteq S
             /\ r \in S => r \in Reruns /\ r \in ran
<1>1. IsClosed(Applied(tx.version)) /\ IsClosed(ran)
  BY AppliedIsClosedSet DEF VersionInv, IsVersion, OrderInv
<1>2. Applied(db.version) \subseteq Applied(tx.version)
  BY DEF VersionInv, Underway
<1> QED BY <1>1, <1>2, ClosedUnion DEF OrderInv

LEMMA OrderInvInductive ==
  ASSUME VersionInv, LeftInv, OrderInv, [Next]_vars
  PROVE  OrderInv'
<1>1. ASSUME NEW cmd, NEW todo, Begin(cmd, todo)
      PROVE  OrderInv'
  <2>1. /\ tx'.schema = db.schema /\ tx'.version = db.version /\ db' = db /\ ran' = ran
        /\ touched' = touched /\ failure' = NoFailure
    BY <1>1 DEF Begin
  <2>2. ASSUME Applied(db.version) \subseteq ran
        PROVE  ran \cup Applied(db.version) = ran
    BY <2>2
  <2> QED BY <2>1, <2>2 DEF OrderInv
<1>2. CASE UpgradeHeads \/ UpgradeTo \/ DowngradeTo \/ DowngradeBase
  BY <1>1, <1>2 DEF UpgradeHeads, UpgradeTo, DowngradeTo, DowngradeBase
<1>3. CASE UpgradeHead
  BY <1>3, NoTxFields DEF UpgradeHead, OrderInv
<1>4. CASE StampDaa5
  <2>1. /\ db'.schema = db.schema /\ tx = NoTx /\ tx' = tx /\ ran' = ran
        /\ touched' = touched
        /\ Ancestors[Stamped] \subseteq Applied(db'.version)
        /\ Applied(db'.version) \subseteq Applied(db.version) \cup Ancestors[Stamped]
        /\ Applied(db.version) \ Applied(db'.version) \subseteq Reruns
    BY <1>4, StampedVersion, StampTakesAway DEF StampDaa5, VersionInv
  <2>2. Applied(db'.version) \subseteq ran => Applied(db.version) \subseteq ran
    BY <2>1 DEF LeftInv
  <2> QED BY <2>1, <2>2, NoTxFields DEF OrderInv
<1>5. CASE InitDb
  BY <1>5, NoTxFields DEF InitDb, OrderInv
<1>6. CASE RunUpgrade
  <2>1. PICK r \in Revisions :
          /\ tx.cmd = "upgrade" /\ r \notin Applied(tx.version)
          /\ Versions[r].down_revision \subseteq Applied(tx.version)
          /\ Fits(tx.schema, Versions[r].upgrade)
          /\ tx'.cmd = "upgrade"
          /\ tx'.schema = Apply(tx.schema, Versions[r].upgrade, r)
          /\ Applied(tx'.version) = Applied(tx.version) \cup {r}
          /\ UNCHANGED <<db, failure, ran, touched, repairs>>
    BY <1>6, UpgradeRun DEF IsTx
  <2>2. ASSUME touched = {}, Applied(db.version) \subseteq ran
        PROVE  IsOf(tx'.schema, ran \cup Applied(tx'.version))
    <3> DEFINE S == ran \cup Applied(tx.version)
    <3>1. /\ IsClosed(S) /\ IsOf(tx.schema, S) /\ Versions[r].down_revision \subseteq S
          /\ r \in S => r \in Reruns
      BY <2>1, <2>2, UpgradeInOrder
    <3>2. ran \cup Applied(tx'.version) = S \cup {r}
      BY <2>1
    <3> HIDE DEF S
    <3> QED BY <2>1, <3>1, <3>2, NextLeads
  <2> QED BY <2>1, <2>2 DEF OrderInv
<1>7. CASE RunDowngrade
  <2>1. /\ tx'.cmd = "downgrade" /\ tx.cmd = "downgrade"
        /\ UNCHANGED <<db, failure, ran, touched>>
    BY <1>7, DowngradeRun DEF IsTx
  <2> QED BY <2>1 DEF OrderInv
<1>8. CASE RevisionFails \/ Interrupted
  <2>1. tx' = NoTx /\ UNCHANGED <<db, ran, touched>>
    BY <1>8 DEF RevisionFails, Interrupted
  <2> QED BY <2>1, NoTxFields DEF OrderInv
<1>9. CASE Commit
  <2> DEFINE before == Applied(db.version)
             applied == Applied(tx.version)
  <2>1. /\ db'.schema = tx.schema /\ db'.version = tx.version /\ tx' = NoTx
        /\ ran' = IF tx.cmd = "upgrade"
                  THEN ran \cup ((applied \ before) \cup (before \ applied))
                  ELSE ran \ ((applied \ before) \cup (before \ applied))
        /\ touched' = IF tx.cmd = "upgrade" THEN touched ELSE touched \cup {"downgrade"}
    BY <1>9 DEF Commit
  <2>2. CASE tx.cmd = "upgrade"
    <3>1. before \subseteq applied
      BY <2>2 DEF VersionInv, Underway
    <3>2. ran' = ran \cup (applied \ before) /\ touched' = touched
      BY <2>1, <2>2, <3>1
    <3>3. applied \subseteq ran' => before \subseteq ran /\ ran' = ran \cup applied
      BY <3>1, <3>2
    <3>4. IsClosed(applied)
      BY AppliedIsClosedSet DEF VersionInv, IsVersion
    <3>5. ran' \ applied \subseteq ran \ before
      BY <3>1, <3>2
    <3>6. ASSUME touched = {}
          PROVE  ran' \ applied \subseteq Reruns
      BY <3>5, <3>6 DEF OrderInv
    <3>7. ASSUME touched = {}, applied \subseteq ran'
          PROVE  IsClosed(ran') /\ IsOf(tx.schema, ran')
      <4>1. /\ before \subseteq ran /\ ran' = ran \cup applied
            /\ IsClosed(ran) /\ IsOf(tx.schema, ran \cup applied)
        BY <2>2, <3>3, <3>7 DEF OrderInv
      <4> HIDE DEF applied
      <4> QED BY <3>4, <4>1, ClosedUnion
    <3>8. Applied(db'.version) = applied /\ tx'.cmd = "none"
      BY <2>1, NoTxFields
    <3> HIDE DEF applied
    <3> QED BY <2>1, <3>2, <3>6, <3>7, <3>8 DEF OrderInv
  <2>3. CASE tx.cmd # "upgrade"
    BY <2>1, <2>3, NoTxFields DEF OrderInv
  <2> QED BY <2>2, <2>3
<1>10. CASE UNCHANGED vars
  BY <1>10 DEF vars, OrderInv
<1> QED BY <1>2, <1>3, <1>4, <1>5, <1>6, <1>7, <1>8, <1>9, <1>10 DEF Next

LEMMA OrderInvHolds == Spec => []OrderInv
<1>1. Init => OrderInv
  <2> SUFFICES ASSUME Init
               PROVE  OrderInv
    OBVIOUS
  <2>1. db.schema \in {NoSchema, OnlyPostGIS} /\ tx = NoTx /\ ran = {}
    BY DEF Init
  <2>2. IsClosed({})
    BY DEF IsClosed
  <2>3. IsOf(NoSchema, {})
    BY NoTxFields DEF IsOf
  <2>4. IsOf(OnlyPostGIS, {})
    BY DEF IsOf, Gives, OnlyPostGIS
  <2> QED BY <2>1, <2>2, <2>3, <2>4, NoTxFields DEF OrderInv
<1> QED BY <1>1, OrderInvInductive, VersionInvHolds, LeftInvHolds, PTL DEF Spec

LEMMA FailedUpgrade ==
  ASSUME VersionInv, KeptInv, OrderInv, RevisionFails
  PROVE  UpgradesFit'
<1>1. PICK r \in Revisions :
        /\ \/ ReadyUp(r) /\ ~Fits(tx.schema, Versions[r].upgrade)
           \/ ReadyDown(r) /\ ~Fits(tx.schema, Versions[r].downgrade)
        /\ failure' = [cmd |-> tx.cmd, why |-> "schema", rev |-> r]
        /\ tx' = NoTx
        /\ UNCHANGED <<db, ran, touched, repairs>>
  BY DEF RevisionFails
<1> SUFFICES ASSUME touched = {}, Applied(db.version) \subseteq ran, tx.cmd = "upgrade"
             PROVE  \/ r = "60afb71f58fe" /\ PostGIS \notin DOMAIN db.schema
                    \/ r = "20251028_convert_kepco_ts_to_timestamptz" /\ r \in ran
  BY <1>1 DEF UpgradesFit, Upgraded
<1>2. ReadyUp(r) /\ ~Fits(tx.schema, Versions[r].upgrade)
  BY <1>1 DEF ReadyDown
<1>3. r \notin Applied(tx.version) /\ Versions[r].down_revision \subseteq Applied(tx.version)
  BY <1>2 DEF ReadyUp, VersionInv, Underway
<1> DEFINE S == ran \cup Applied(tx.version)
<1>4. /\ IsClosed(S) /\ IsOf(tx.schema, S) /\ Versions[r].down_revision \subseteq S
      /\ r \in S => r \in Reruns /\ r \in ran
  BY <1>3, UpgradeInOrder
<1> HIDE DEF S
<1>5. \/ r = "60afb71f58fe" /\ PostGIS \notin DOMAIN tx.schema
      \/ r = "20251028_convert_kepco_ts_to_timestamptz" /\ r \in S
  BY <1>2, <1>4, NextLeads
<1>6. PostGIS \in DOMAIN db.schema => PostGIS \in DOMAIN tx.schema
  BY DEF KeptInv, Kept
<1> QED BY <1>4, <1>5, <1>6

\* As long as only upgrades changed the schema, an upgrade that fails is one of
\* the first revision without PostGIS, or one that converts the KEPCO time again:
\* the statements of all other revisions fit what they find, in every order of
\* branches and commands and where a stamp makes them run again.
THEOREM FailuresAreKnown == Spec => []UpgradesFit
<1>1. Init => UpgradesFit
  BY DEF Init, UpgradesFit, NoFailure
<1>2. ASSUME VersionInv, KeptInv, OrderInv, UpgradesFit, [Next]_vars
      PROVE  UpgradesFit'
  <2>1. CASE RevisionFails
    BY <1>2, <2>1, FailedUpgrade
  <2>2. CASE failure' = NoFailure
    BY <2>2 DEF UpgradesFit, NoFailure
  <2>3. CASE UpgradeHead
    BY <2>3 DEF UpgradesFit, UpgradeHead
  <2>4. CASE RunUpgrade \/ RunDowngrade \/ Interrupted \/ Commit
    <3>1. failure' = failure
      BY <2>4 DEF RunUpgrade, RunDowngrade, Interrupted, Commit
    <3>2. tx.cmd # "none"
      BY <1>2, <2>4 DEF RunUpgrade, RunDowngrade, ReadyUp, ReadyDown, Interrupted, Commit, VersionInv
    <3>3. failure = NoFailure
      BY <1>2, <3>2 DEF OrderInv
    <3> QED BY <2>2, <3>1, <3>3
  <2>5. CASE UNCHANGED vars
    BY <1>2, <2>5 DEF vars, UpgradesFit, Upgraded
  <2>6. \/ RevisionFails \/ UpgradeHead \/ failure' = NoFailure
        \/ RunUpgrade \/ RunDowngrade \/ Interrupted \/ Commit \/ UNCHANGED vars
    BY <1>2 DEF Next, UpgradeHeads, UpgradeTo, DowngradeTo, DowngradeBase, Begin, StampDaa5, InitDb
  <2> QED BY <2>1, <2>2, <2>3, <2>4, <2>5, <2>6
<1> QED BY <1>1, <1>2, VersionInvHolds, KeptInvHolds, OrderInvHolds, PTL DEF Spec

LEMMA AllFromHeads == Applied(Heads) = Revisions
<1> DEFINE S == Applied(Heads)
<1>1. Heads \subseteq Revisions
  BY DEF Heads
<1>2. IsClosed(S) /\ Heads \subseteq S
  BY <1>1, AppliedIsClosedSet, AppliedIsClosed
<1>3. /\ "20251025_add_station_api_compat" \in Heads
      /\ "20251028_convert_kepco_ts_to_timestamptz" \in Heads
      /\ "20251031_subsidy_data_migration" \in Heads
  <2>1. \A c \in Revisions :
          Versions[c].down_revision \cap
            {"20251025_add_station_api_compat", "20251028_convert_kepco_ts_to_timestamptz",
             "20251031_subsidy_data_migration"} = {}
    BY RevisionNames, Parents
  <2> QED BY <2>1, RevisionNames DEF Heads
<1> HIDE DEF S
<1>4. \A r \in S : Versions[r].down_revision \subseteq S
  BY <1>2 DEF IsClosed
<1>5. /\ "20251025_add_station_api_compat" \in S
      /\ "20251028_convert_kepco_ts_to_timestamptz" \in S
      /\ "20251031_subsidy_data_migration" \in S
  BY <1>2, <1>3
<1>6. {"20251028_add_sale_price", "82564d70969d", "20251025_add_cp_fields_migration",
       "20251023_add_additional_kepco_fields"} \subseteq S
  BY <1>4, <1>5, Parents
<1>7. {"d8c47bac145f", "0f42d4f96fa6", "20251020_add_kepco_fields"} \subseteq S
  BY <1>4, <1>6, Parents
<1>8. {"9508604ce511", "daa5cac943ac", "c1d2e3f4add", "bb_add_external_fields",
       "aa1b2c3d4e5f"} \subseteq S
  BY <1>4, <1>7, Parents
<1>9. {"d6b8f2f8579d", "a22583938b64", "b7a145511e70", "60afb71f58fe"} \subseteq S
  BY <1>4, <1>6, Parents
<1>10. Revisions \subseteq S
  BY <1>5, <1>6, <1>7, <1>8, <1>9, RevisionNames
<1> QED BY <1>2, <1>10 DEF IsClosed, S

\* What the handlers name is defined by one revision or another.
LEMMA ServedIsDefined ==
  Served \subseteq
    (Own("60afb71f58fe") \ Lost) \cup ExternalColumns \cup KepcoFields \cup AdditionalFields
        \cup Own("82564d70969d") \cup SalePrice
<1>1. SearchNames \subseteq (Own("60afb71f58fe") \ Lost) \cup KepcoFields \cup AdditionalFields
  BY OwnObjects DEF SearchNames, KepcoFields, AdditionalFields, Of, Lost
<1>2. StationNames \subseteq
        (Own("60afb71f58fe") \ Lost) \cup KepcoFields \cup ExternalColumns \cup AdditionalFields
  BY OwnObjects DEF StationNames, KepcoFields, ExternalColumns, AdditionalFields, Of, Lost
<1>3. DetailNames \subseteq (Own("60afb71f58fe") \ Lost) \cup KepcoFields \cup AdditionalFields
  BY OwnObjects DEF DetailNames, KepcoFields, AdditionalFields, Of, Lost
<1>4. ChargerNames \subseteq (Own("60afb71f58fe") \ Lost) \cup KepcoFields \cup AdditionalFields
  BY OwnObjects DEF ChargerNames, KepcoFields, AdditionalFields, Of, Lost
<1>5. SubsidyNames \subseteq Own("82564d70969d") \cup SalePrice
  BY OwnObjects DEF SubsidyNames, SalePrice, Of
<1> QED BY <1>1, <1>2, <1>3, <1>4, <1>5 DEF Served

\* What defines cp_id comes after what makes charger_code NOT NULL.
LEMMA CpIdComesLater ==
  ASSUME NEW S, IsClosed(S), NEW q \in S, <<"chargers", "cp_id">> \in Own(q)
  PROVE  "a22583938b64" \in S
<1> DEFINE cpId == <<"chargers", "cp_id">>
           fields == "20251023_add_additional_kepco_fields"
<1>1. \A r \in S : r \in Revisions /\ Versions[r].down_revision \subseteq S
  BY DEF IsClosed
<1>2. cpId \in Own(fields) /\ fields \in Revisions
  BY OwnObjects, RevisionNames DEF AdditionalFields, Of
<1>3. cpId \notin Altered /\ cpId # <<"api_logs", "response_msg">> /\ cpId # Kepco
  BY DEF Altered, ApiLogFields, Kepco, Of
<1>4. q = fields
  <2> SUFFICES ASSUME q # fields
               PROVE  FALSE
    OBVIOUS
  <2>1. cpId \in Own(q) \cap Own(fields)
    BY <1>2
  <2> HIDE DEF cpId, fields
  <2> QED BY <1>1, <1>2, <1>3, <2>1, OwnersDiffer
<1>5. "d8c47bac145f" \in S
  BY <1>1, <1>4, Parents
<1>6. "9508604ce511" \in S
  BY <1>1, <1>5, Parents
<1>7. "82564d70969d" \in S
  BY <1>1, <1>6, Parents
<1> QED BY <1>7, ClosedSets

\* A schema that revisions build refuses the upserts of the handlers.
LEMMA UpsertsRefused ==
  ASSUME NEW S, IsClosed(S), NEW schema, IsOf(schema, S), NEW s \in Upserts
  PROVE  ~Accepts(schema, s)
<1> SUFFICES ASSUME Accepts(schema, s)
             PROVE  FALSE
  OBVIOUS
<1>1. s.names \subseteq DOMAIN schema
  BY DEF Accepts
<1>2. CASE s.into = "stations"
  <2> DEFINE csId == <<"stations", "ix_stations_cs_id">>
  <2>1. s.names = StationNames /\ s.types = {UniqueCsId}
    BY <1>2 DEF Upserts, Statement
  <2>2. csId \in DOMAIN schema \ {PostGIS}
    BY <1>1, <2>1 DEF StationNames, Of, PostGIS, Table
  <2>3. schema[csId] = "models"
    BY <2>1 DEF Accepts, UniqueCsId
  <2>4. schema[csId] \in Revisions
    BY <2>2, BuiltObjects DEF IsClosed
  <2> QED BY <2>3, <2>4, RevisionNames
<1>3. CASE s.into = "chargers"
  <2> DEFINE cpId == <<"chargers", "cp_id">>
             code == <<"chargers", "charger_code">>
  <2>1. s.names = ChargerNames
    BY <1>3 DEF Upserts, Statement
  <2>2. cpId \in DOMAIN schema \ {PostGIS}
    BY <1>1, <2>1 DEF ChargerNames, Of, PostGIS, Table
  <2>3. schema[cpId] \in S /\ cpId \in Own(schema[cpId])
    BY <2>2, BuiltObjects
  <2>4. "a22583938b64" \in S
    BY <2>3, CpIdComesLater
  <2>5. Gives(S, code, "a22583938b64")
    BY <2>4, OwnObjects DEF Gives, Replaced, Altered, Of
  <2>6. code \in DOMAIN schema /\ schema[code] = "a22583938b64"
    BY <2>4, <2>5, BuiltObjects
  <2>7. [of |-> code, by |-> {"a22583938b64", "models"}] \in Required
    BY DEF Required, Of
  <2>8. code \in s.names
    BY <1>3, <2>6, <2>7 DEF Accepts
  <2> QED BY <2>1, <2>8 DEF ChargerNames, Of
<1> QED BY <1>2, <1>3 DEF Upserts, Statement

\* A schema that all revisions build accepts whatever the handlers read.
LEMMA ReadsAccepted ==
  ASSUME NEW schema, IsOf(schema, Revisions), IsClosed(Revisions), NEW s \in Reads
  PROVE  Accepts(schema, s)
<1>1. \A r \in Revisions : r # "60afb71f58fe" => Own(r) \subseteq DOMAIN schema
  BY RevisionNames, BuiltObjects
<1>2. Own("60afb71f58fe") \ Lost \subseteq DOMAIN schema
  BY RevisionNames, BaseIsThere
<1>3. /\ ExternalColumns \subseteq DOMAIN schema /\ KepcoFields \subseteq DOMAIN schema
      /\ AdditionalFields \subseteq DOMAIN schema /\ SalePrice \subseteq DOMAIN schema
      /\ Own("82564d70969d") \subseteq DOMAIN schema
  BY <1>1, OwnObjects, RevisionNames
<1>4. Served \subseteq DOMAIN schema
  BY <1>2, <1>3, ServedIsDefined
<1>5. s.names \subseteq Served /\ s.types = {} /\ s.into = "none"
  BY DEF Reads, Statement, Served
<1>6. \A c \in Required : c.of[1] # "none"
  BY DEF Required, Of
<1> QED BY <1>4, <1>5, <1>6 DEF Accepts

\* In whatever order and commands revisions came, the schema refuses the upserts
\* by which the handlers keep what KEPCO told them, and with all of them it has
\* whatever the handlers read.
THEOREM MigratedHandlersOnlyRead == Spec => []HandlersOnlyRead
<1>1. ASSUME OrderInv, Upgraded
      PROVE  IsClosed(ran) /\ IsOf(db.schema, ran)
  BY <1>1 DEF Upgraded, OrderInv
<1>2. ASSUME OrderInv, Upgraded, db.version = Heads
      PROVE  ran = Revisions
  BY <1>1, <1>2, AllFromHeads DEF Upgraded, IsClosed
<1>3. OrderInv => HandlersOnlyRead
  BY <1>1, <1>2, UpsertsRefused, ReadsAccepted DEF HandlersOnlyRead
<1> QED BY <1>3, OrderInvHolds, PTL

-----------------------------------------------------------------------------
(* The schema built by date                                                *)

LEMMA HistoryPlaces ==
  /\ Len(History) = 19
  /\ \A i \in 1 .. 19 : History[i] \in Revisions /\ Rank[History[i]] = i
  /\ \A r \in Revisions : Rank[r] \in 1 .. 19
<1>1. Len(History) = 19
  BY DEF History
<1>2. /\ History[1] = "60afb71f58fe" /\ History[2] = "b7a145511e70"
      /\ History[3] = "a22583938b64" /\ History[4] = "d6b8f2f8579d"
      /\ History[5] = "82564d70969d" /\ History[6] = "daa5cac943ac"
      /\ History[7] = "9508604ce511" /\ History[8] = "aa1b2c3d4e5f"
      /\ History[9] = "bb_add_external_fields" /\ History[10] = "c1d2e3f4add"
      /\ History[11] = "0f42d4f96fa6" /\ History[12] = "20251020_add_kepco_fields"
      /\ History[13] = "d8c47bac145f"
      /\ History[14] = "20251023_add_additional_kepco_fields"
      /\ History[15] = "20251025_add_station_api_compat"
      /\ History[16] = "20251025_add_cp_fields_migration"
      /\ History[17] = "20251028_add_sale_price"
      /\ History[18] = "20251028_convert_kepco_ts_to_timestamptz"
      /\ History[19] = "20251031_subsidy_data_migration"
  BY DEF History
<1>3. \A i \in 1 .. 19 : i \in {1, 2, 3, 4, 5, 6, 7, 8, 9, 10, 11, 12, 13, 14, 15, 16, 17, 18, 19}
  OBVIOUS
<1>4. \A i \in 1 .. 19 : History[i] \in Revisions
  BY <1>2, <1>3, RevisionNames
<1>5. \A i \in 1 .. 19 : Rank[History[i]] = i
  BY <1>2, <1>3 DEF Rank
<1>6. \A r \in Revisions : Rank[r] \in 1 .. 19
  BY RevisionNames DEF Rank
<1> QED BY <1>1, <1>4, <1>5, <1>6

LEMMA OnePlace ==
  ASSUME NEW q \in Revisions, NEW r \in Revisions, Rank[q] = Rank[r]
  PROVE  q = r
BY RevisionNames DEF Rank

\* The schema after the first i revisions of History, of which those of S run.
After(start, S, f, i) ==
    IF i = 0 THEN start
    ELSE IF History[i] \in S
         THEN Apply(f[i - 1], Versions[History[i]].upgrade, History[i])
         ELSE f[i - 1]

IsBuild(start, S, f, n) == f = [i \in 0 .. n |-> After(start, S, f, i)]

LEMMA BuildExtends ==
  ASSUME NEW start, NEW S, NEW n \in Nat, \E f : IsBuild(start, S, f, n)
  PROVE  \E f : IsBuild(start, S, f, n + 1)
<1>1. PICK f : IsBuild(start, S, f, n)
  OBVIOUS
<1> DEFINE g == [i \in 0 .. n + 1 |-> After(start, S, f, i)]
<1>2. \A i \in 0 .. n : g[i] = f[i]
  BY <1>1 DEF IsBuild
<1>3. \A i \in 0 .. n + 1 : i # 0 => i - 1 \in 0 .. n
  OBVIOUS
<1>4. \A i \in 0 .. n + 1 : After(start, S, f, i) = After(start, S, g, i)
  <2> HIDE DEF g
  <2> QED BY <1>2, <1>3 DEF After
<1>5. g = [i \in 0 .. n + 1 |-> After(start, S, g, i)]
  <2>1. g = [i \in 0 .. n + 1 |-> After(start, S, f, i)]
    OBVIOUS
  <2> HIDE DEF g
  <2> QED BY <1>4, <2>1
<1> QED BY <1>5 DEF IsBuild

LEMMA BuildExists ==
  ASSUME NEW start, NEW S
  PROVE  \E f : IsBuild(start, S, f, 19)
<1> DEFINE built(n) == \E f : IsBuild(start, S, f, n)
<1>1. built(0)
  <2> DEFINE f == [i \in 0 .. 0 |-> start]
  <2>1. \A i \in 0 .. 0 : After(start, S, f, i) = start
    BY DEF After
  <2>2. f = [i \in 0 .. 0 |-> After(start, S, f, i)]
    BY <2>1
  <2> QED BY <2>2 DEF IsBuild
<1>2. \A n \in 0 .. 18 : built(n) => built(n + 1)
  BY BuildExtends
<1> HIDE DEF built
<1>3. built(1)
  BY <1>1, <1>2
<1>4. built(2)
  BY <1>3, <1>2
<1>5. built(3)
  BY <1>4, <1>2
<1>6. built(4)
  BY <1>5, <1>2
<1>7. built(5)
  BY <1>6, <1>2
<1>8. built(6)
  BY <1>7, <1>2
<1>9. built(7)
  BY <1>8, <1>2
<1>10. built(8)
  BY <1>9, <1>2
<1>11. built(9)
  BY <1>10, <1>2
<1>12. built(10)
  BY <1>11, <1>2
<1>13. built(11)
  BY <1>12, <1>2
<1>14. built(12)
  BY <1>13, <1>2
<1>15. built(13)
  BY <1>14, <1>2
<1>16. built(14)
  BY <1>15, <1>2
<1>17. built(15)
  BY <1>16, <1>2
<1>18. built(16)
  BY <1>17, <1>2
<1>19. built(17)
  BY <1>18, <1>2
<1>20. built(18)
  BY <1>19, <1>2
<1>21. built(19)
  BY <1>20, <1>2
<1> QED BY <1>21 DEF built

IsFunction(schema) == schema = [o \in DOMAIN schema |-> schema[o]]

LEMMA AppliedIsFunction ==
  ASSUME NEW schema, NEW step, NEW by
  PROVE  IsFunction(Apply(schema, step, by))
<1> DEFINE left == Without(schema, step.drops \cup step.discards)
           new == Added(left, step)
           result == Apply(schema, step, by)
<1>1. result = [o \in DOMAIN left \cup new |-> IF o \in new \cup step.alters THEN by ELSE left[o]]
  BY DEF Apply
<1> HIDE DEF left, new, result
<1>2. IsFunction(result)
  BY <1>1 DEF IsFunction
<1> QED BY <1>2 DEF result

\* The revisions of S among the first n of History.
Prefix(S, n) == {r \in S : Rank[r] <= n}

\* The schema built so far is that of the revisions so far.
BuiltSoFar(start, S, schema, n) ==
    /\ IsOf(schema, Prefix(S, n)) /\ IsFunction(schema)
    /\ PostGIS \in DOMAIN schema <=> PostGIS \in DOMAIN start

LEMMA BuildGoesOn ==
  ASSUME NEW S, IsClosed(S), NEW start, S # {} => PostGIS \in DOMAIN start,
         NEW f, IsBuild(start, S, f, 19), NEW n \in 0 .. 18, BuiltSoFar(start, S, f[n], n)
  PROVE  BuiltSoFar(start, S, f[n + 1], n + 1)
<1> DEFINE r == History[n + 1]
           P == Prefix(S, n)
           old == f[n]
           new == f[n + 1]
<1>1. n + 1 \in 1 .. 19 /\ n + 1 # 0 /\ (n + 1) - 1 = n
  OBVIOUS
<1>2. r \in Revisions /\ Rank[r] = n + 1
  BY <1>1, HistoryPlaces
<1>3. new = IF r \in S THEN Apply(old, Versions[r].upgrade, r) ELSE old
  <2>1. new = After(start, S, f, n + 1)
    BY <1>1 DEF IsBuild
  <2> QED BY <1>1, <2>1 DEF After
<1>4. \A q \in S : q \in Revisions /\ Rank[q] \in Nat
  BY ParentsComeFirst DEF IsClosed
<1>5. \A q \in S : Rank[q] = n + 1 => q = r
  BY <1>2, <1>4, OnePlace
<1>6. Prefix(S, n + 1) = IF r \in S THEN P \cup {r} ELSE P
  BY <1>2, <1>4, <1>5 DEF Prefix
<1>7. IsClosed(P) /\ r \notin P
  <2>1. \A q \in P : \A p \in Versions[q].down_revision : p \in S /\ Rank[p] < Rank[q]
    BY <1>4, ParentsComeFirst DEF IsClosed, Prefix
  <2>2. \A q \in P : \A p \in Versions[q].down_revision : p \in P
    BY <1>4, <2>1 DEF Prefix
  <2> QED BY <1>2, <1>4, <2>2 DEF IsClosed, Prefix
<1> HIDE DEF r, P, old, new
<1>8. CASE r \notin S
  BY <1>3, <1>6, <1>8 DEF BuiltSoFar, P, old, new
<1>9. CASE r \in S
  <2>1. PostGIS \in DOMAIN start /\ PostGIS \in DOMAIN old /\ IsOf(old, P)
    BY <1>9 DEF BuiltSoFar, P, old
  <2>2. Versions[r].down_revision \subseteq P
    <3>1. \A p \in Versions[r].down_revision : p \in S /\ Rank[p] < Rank[r]
      BY <1>2, <1>9, ParentsComeFirst DEF IsClosed
    <3> QED BY <1>2, <1>4, <3>1 DEF P, Prefix
  <2>3. IsOf(new, P \cup {r})
    <3>1. Leads(P, old, r)
      BY <1>2, <1>7, <2>1, <2>2, FirstRunLeads DEF Ready
    <3> QED BY <1>3, <1>9, <3>1 DEF Leads
  <2>4. IsClosed(P \cup {r})
    BY <1>2, <1>7, <2>2, ClosedByOneMore
  <2>5. PostGIS \in DOMAIN new
    BY <2>3, <2>4, BuiltObjects
  <2>6. IsFunction(new)
    BY <1>3, <1>9, AppliedIsFunction
  <2> QED BY <1>6, <1>9, <2>1, <2>3, <2>5, <2>6 DEF BuiltSoFar, new
<1> QED BY <1>8, <1>9

LEMMA PrefixesGrow ==
  ASSUME NEW S, IsClosed(S)
  PROVE  Prefix(S, 0) = {} /\ Prefix(S, 19) = S
<1>1. \A r \in S : Rank[r] \in 1 .. 19
  BY HistoryPlaces DEF IsClosed
<1>2. \A r \in S : ~(Rank[r] <= 0) /\ Rank[r] <= 19
  BY <1>1
<1> QED BY <1>2 DEF Prefix

\* What running the revisions of S once, by date, builds is the schema of S.
LEMMA BuiltByDate ==
  ASSUME NEW S, IsClosed(S), NEW start \in {NoSchema, OnlyPostGIS},
         S # {} => PostGIS \in DOMAIN start, NEW f, IsBuild(start, S, f, 19)
  PROVE  BuiltSoFar(start, S, f[19], 19)
<1> DEFINE done(n) == BuiltSoFar(start, S, f[n], n)
<1>1. done(0)
  <2>1. f[0] = start
    BY DEF IsBuild, After
  <2>2. IsOf(start, {})
    BY NoTxFields DEF IsOf, Gives, OnlyPostGIS
  <2>3. IsFunction(start)
    BY DEF IsFunction, NoSchema, OnlyPostGIS
  <2> QED BY <2>1, <2>2, <2>3, PrefixesGrow DEF BuiltSoFar
<1>2. \A n \in 0 .. 18 : done(n) => done(n + 1)
  BY BuildGoesOn
<1> HIDE DEF done
<1>3. done(1)
  BY <1>1, <1>2
<1>4. done(2)
  BY <1>3, <1>2
<1>5. done(3)
  BY <1>4, <1>2
<1>6. done(4)
  BY <1>5, <1>2
<1>7. done(5)
  BY <1>6, <1>2
<1>8. done(6)
  BY <1>7, <1>2
<1>9. done(7)
  BY <1>8, <1>2
<1>10. done(8)
  BY <1>9, <1>2
<1>11. done(9)
  BY <1>10, <1>2
<1>12. done(10)
  BY <1>11, <1>2
<1>13. done(11)
  BY <1>12, <1>2
<1>14. done(12)
  BY <1>13, <1>2
<1>15. done(13)
  BY <1>14, <1>2
<1>16. done(14)
  BY <1>15, <1>2
<1>17. done(15)
  BY <1>16, <1>2
<1>18. done(16)
  BY <1>17, <1>2
<1>19. done(17)
  BY <1>18, <1>2
<1>20. done(18)
  BY <1>19, <1>2
<1>21. done(19)
  BY <1>20, <1>2
<1> QED BY <1>21 DEF done

\* Two schemas of one set of revisions are one.
LEMMA OneSchema ==
  ASSUME NEW S, IsClosed(S), NEW a, IsOf(a, S), IsFunction(a), NEW b, IsOf(b, S), IsFunction(b),
         PostGIS \in DOMAIN a <=> PostGIS \in DOMAIN b
  PROVE  a = b
<1>1. DOMAIN a = DOMAIN b /\ \A o \in DOMAIN a : a[o] = b[o]
  <2>1. CASE PostGIS \in DOMAIN a
    <3>1. \A o, r : Gives(S, o, r) <=> o \in DOMAIN a /\ a[o] = r
      BY <2>1, BuiltObjects
    <3>2. \A o, r : Gives(S, o, r) <=> o \in DOMAIN b /\ b[o] = r
      BY <2>1, BuiltObjects
    <3>3. \A o \in DOMAIN a : o \in DOMAIN b /\ b[o] = a[o]
      BY <3>1, <3>2
    <3>4. \A o \in DOMAIN b : o \in DOMAIN a
      BY <3>1, <3>2
    <3> QED BY <3>3, <3>4
  <2>2. CASE PostGIS \notin DOMAIN a
    <3>1. DOMAIN a = {} /\ DOMAIN b = {}
      BY <2>2, BuiltObjects
    <3> QED BY <3>1
  <2> QED BY <2>1, <2>2
<1>2. [o \in DOMAIN a |-> a[o]] = [o \in DOMAIN b |-> b[o]]
  BY <1>1
<1> QED BY <1>2 DEF IsFunction

\* The schema that Built defines is one built so.
LEMMA BuiltIsABuild ==
  ASSUME NEW S
  PROVE  LET start == IF PostGIS \in DOMAIN db.schema THEN OnlyPostGIS ELSE NoSchema
         IN  \E f : IsBuild(start, S, f, 19) /\ Built(S) = f[19]
<1> DEFINE start == IF PostGIS \in DOMAIN db.schema THEN OnlyPostGIS ELSE NoSchema
           E(f) == f = [i \in 0 .. Len(History) |->
                IF i = 0 THEN IF PostGIS \in DOMAIN db.schema THEN OnlyPostGIS ELSE NoSchema
                ELSE IF History[i] \in S
                     THEN Apply(f[i - 1], Versions[History[i]].upgrade, History[i])
                     ELSE f[i - 1]]
           after == CHOOSE f : E(f)
<1>1. ASSUME NEW f
      PROVE  E(f) <=> IsBuild(start, S, f, 19)
  <2>1. Len(History) = 19
    BY HistoryPlaces
  <2> QED BY <2>1 DEF IsBuild, After
<1>2. \E f : IsBuild(start, S, f, 19)
  BY BuildExists
<1>3. Built(S) = after[Len(History)]
  BY DEF Built
<1> HIDE DEF E
<1>4. \E f : E(f)
  BY <1>1, <1>2
<1>5. E(after)
  BY <1>4
<1> HIDE DEF after, start
<1>6. IsBuild(start, S, after, 19)
  BY <1>1, <1>5
<1> QED BY <1>3, <1>6, HistoryPlaces DEF start

\* Schemas are functions.
FunctionInv == IsFunction(db.schema) /\ IsFunction(tx.schema)

LEMMA FunctionInvInductive ==
  ASSUME FunctionInv, VersionInv, [Next]_vars
  PROVE  FunctionInv'
<1>0. IsFunction(NoSchema)
  BY DEF IsFunction, NoSchema
<1>1. CASE UpgradeHeads \/ UpgradeTo \/ DowngradeTo \/ DowngradeBase
  <2>1. tx'.schema = db.schema /\ db' = db
    BY <1>1 DEF UpgradeHeads, UpgradeTo, DowngradeTo, DowngradeBase, Begin
  <2> QED BY <2>1 DEF FunctionInv
<1>2. CASE UpgradeHead \/ UNCHANGED vars
  BY <1>2 DEF UpgradeHead, vars, FunctionInv
<1>3. CASE StampDaa5
  <2>1. db'.schema = db.schema /\ tx' = tx
    BY <1>3 DEF StampDaa5, VersionInv
  <2> QED BY <2>1 DEF FunctionInv
<1>4. CASE InitDb
  <2>1. db'.schema = Apply(db.schema, Models, "models") /\ tx' = tx
    BY <1>4 DEF InitDb, VersionInv
  <2> QED BY <2>1, AppliedIsFunction DEF FunctionInv
<1>5. CASE RunUpgrade
  <2>1. PICK r \in Revisions :
          tx'.schema = Apply(tx.schema, Versions[r].upgrade, r) /\ db' = db
    BY <1>5 DEF RunUpgrade, VersionInv
  <2> QED BY <2>1, AppliedIsFunction DEF FunctionInv
<1>6. CASE RunDowngrade
  <2>1. PICK r \in Revisions :
          tx'.schema = Apply(tx.schema, Versions[r].downgrade, Versions[r].restores) /\ db' = db
    BY <1>6 DEF RunDowngrade, VersionInv
  <2> QED BY <2>1, AppliedIsFunction DEF FunctionInv
<1>7. CASE RevisionFails \/ Interrupted
  <2>1. tx' = NoTx /\ db' = db
    BY <1>7 DEF RevisionFails, Interrupted
  <2> QED BY <1>0, <2>1 DEF FunctionInv, NoTx
<1>8. CASE Commit
  <2>1. tx' = NoTx /\ db'.schema = tx.schema
    BY <1>8 DEF Commit
  <2> QED BY <1>0, <2>1 DEF FunctionInv, NoTx
<1> QED BY <1>1, <1>2, <1>3, <1>4, <1>5, <1>6, <1>7, <1>8 DEF Next

LEMMA FunctionInvHolds == Spec => []FunctionInv
<1>1. Init => FunctionInv
  <2> SUFFICES ASSUME Init
               PROVE  FunctionInv
    OBVIOUS
  <2>1. db.schema \in {NoSchema, OnlyPostGIS} /\ tx.schema = NoSchema
    BY DEF Init, NoTx
  <2>2. IsFunction(NoSchema) /\ IsFunction(OnlyPostGIS)
    BY DEF IsFunction, NoSchema, OnlyPostGIS
  <2> QED BY <2>1, <2>2 DEF FunctionInv
<1> QED BY <1>1, FunctionInvInductive, VersionInvHolds, PTL DEF Spec

\* In whatever order branches and single revisions are upgraded, in however many
\* commands, and where a stamp makes revisions run again over their own results,
\* the schema is the one that running each of them once, by date, builds.
THEOREM SchemasDoNotDependOnOrder == Spec => []SchemaIsWhatRan
<1>1. ASSUME OrderInv, FunctionInv, Upgraded
      PROVE  db.schema = Built(ran)
  <2> DEFINE schema == db.schema
             start == IF PostGIS \in DOMAIN schema THEN OnlyPostGIS ELSE NoSchema
  <2>1. IsClosed(ran) /\ IsOf(schema, ran) /\ IsFunction(schema)
    BY <1>1 DEF Upgraded, OrderInv, FunctionInv
  <2>2. PICK f : IsBuild(start, ran, f, 19) /\ Built(ran) = f[19]
    BY BuiltIsABuild
  <2> HIDE DEF schema
  <2>3. ran # {} => PostGIS \in DOMAIN schema
    BY <2>1, BuiltObjects
  <2>4. PostGIS \in DOMAIN start <=> PostGIS \in DOMAIN schema
    BY DEF NoSchema, OnlyPostGIS
  <2>5. start \in {NoSchema, OnlyPostGIS}
    OBVIOUS
  <2> HIDE DEF start
  <2>6. BuiltSoFar(start, ran, f[19], 19)
    BY <2>1, <2>2, <2>3, <2>4, <2>5, BuiltByDate
  <2>7. IsOf(f[19], ran) /\ IsFunction(f[19])
    BY <2>1, <2>6, PrefixesGrow DEF BuiltSoFar
  <2>8. PostGIS \in DOMAIN f[19] <=> PostGIS \in DOMAIN schema
    BY <2>4, <2>6 DEF BuiltSoFar
  <2>9. schema = f[19]
    BY <2>1, <2>7, <2>8, OneSchema
  <2> QED BY <2>2, <2>9 DEF schema
<1>2. OrderInv /\ FunctionInv => SchemaIsWhatRan
  BY <1>1 DEF SchemaIsWhatRan
<1> QED BY <1>2, OrderInvHolds, FunctionInvHolds, PTL

===============================================================================
