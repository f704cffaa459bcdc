--------------------------- MODULE MigrationsProofs ---------------------------
(***************************************************************************)
(* Theorems about Migrations, for every number of repairs: what the        *)
(* revisions leave of the schema, in whatever order commands run them.     *)
(*                                                                         *)
(* The first part is about the graph of the revisions, the second about    *)
(* one step on a schema, and the rest about the commands.                  *)
(***************************************************************************)
EXTENDS Migrations, TLAPS

-----------------------------------------------------------------------------
(* The revisions                                                           *)

LEMMA RevisionNames ==
  Revisions =
    {"60afb71f58fe", "b7a145511e70", "a22583938b64", "d6b8f2f8579d", "82564d70969d",
     "daa5cac943ac", "9508604ce511", "aa1b2c3d4e5f", "bb_add_external_fields",
     "c1d2e3f4add", "0f42d4f96fa6", "20251020_add_kepco_fields", "d8c47bac145f",
     "20251023_add_additional_kepco_fields", "20251025_add_station_api_compat",
     "20251025_add_cp_fields_migration", "20251028_add_sale_price",
     "20251028_convert_kepco_ts_to_timestamptz", "20251031_subsidy_data_migration"}
BY DEF Revisions, Versions

LEMMA RevisionsByName ==
  /\ Versions["60afb71f58fe"] = Rev_60afb71f58fe
  /\ Versions["b7a145511e70"] = Rev_b7a145511e70
  /\ Versions["a22583938b64"] = Rev_a22583938b64
  /\ Versions["d6b8f2f8579d"] = Rev_d6b8f2f8579d
  /\ Versions["82564d70969d"] = Rev_82564d70969d
  /\ Versions["daa5cac943ac"] = Rev_daa5cac943ac
  /\ Versions["9508604ce511"] = Rev_9508604ce511
  /\ Versions["aa1b2c3d4e5f"] = Rev_aa1b2c3d4e5f
  /\ Versions["bb_add_external_fields"] = Rev_bb_add_external_fields
  /\ Versions["c1d2e3f4add"] = Rev_c1d2e3f4add
  /\ Versions["0f42d4f96fa6"] = Rev_0f42d4f96fa6
  /\ Versions["20251020_add_kepco_fields"] = Rev_20251020_add_kepco_fields
  /\ Versions["d8c47bac145f"] = Rev_d8c47bac145f
  /\ Versions["20251023_add_additional_kepco_fields"] =
        Rev_20251023_add_additional_kepco_fields
  /\ Versions["20251025_add_station_api_compat"] = Rev_20251025_add_station_api_compat
  /\ Versions["20251025_add_cp_fields_migration"] = Rev_20251025_add_cp_fields_migration
  /\ Versions["20251028_add_sale_price"] = Rev_20251028_add_sale_price
  /\ Versions["20251028_convert_kepco_ts_to_timestamptz"] =
        Rev_20251028_convert_kepco_ts_to_timestamptz
  /\ Versions["20251031_subsidy_data_migration"] = Rev_20251031_subsidy_data_migration
BY DEF Versions

LEMMA Parents ==
  /\ Versions["60afb71f58fe"].down_revision = {}
  /\ Versions["b7a145511e70"].down_revision = {"60afb71f58fe"}
  /\ Versions["a22583938b64"].down_revision = {"b7a145511e70"}
  /\ Versions["d6b8f2f8579d"].down_revision = {"a22583938b64"}
  /\ Versions["82564d70969d"].down_revision = {"d6b8f2f8579d"}
  /\ Versions["daa5cac943ac"].down_revision = {"82564d70969d"}
  /\ Versions["9508604ce511"].down_revision = {"daa5cac943ac"}
  /\ Versions["aa1b2c3d4e5f"].down_revision = {"60afb71f58fe"}
  /\ Versions["bb_add_external_fields"].down_revision = {"aa1b2c3d4e5f"}
  /\ Versions["c1d2e3f4add"].down_revision = {"bb_add_external_fields"}
  /\ Versions["0f42d4f96fa6"].down_revision = {"9508604ce511", "c1d2e3f4add"}
  /\ Versions["20251020_add_kepco_fields"].down_revision = {"bb_add_external_fields"}
  /\ Versions["d8c47bac145f"].down_revision = {"0f42d4f96fa6", "20251020_add_kepco_fields"}
  /\ Versions["20251023_add_additional_kepco_fields"].down_revision = {"d8c47bac145f"}
  /\ Versions["20251025_add_station_api_compat"].down_revision =
        {"20251023_add_additional_kepco_fields"}
  /\ Versions["20251025_add_cp_fields_migration"].down_revision =
        {"20251023_add_additional_kepco_fields"}
  /\ Versions["20251028_add_sale_price"].down_revision = {"82564d70969d"}
  /\ Versions["20251028_convert_kepco_ts_to_timestamptz"].down_revision =
        {"20251025_add_cp_fields_migration"}
  /\ Versions["20251031_subsidy_data_migration"].down_revision = {"20251028_add_sale_price"}
<1>1. Rev_60afb71f58fe.down_revision = {}
  BY DEF Rev_60afb71f58fe, Revision, Pass
<1>2. Rev_b7a145511e70.down_revision = {"60afb71f58fe"}
  BY DEF Rev_b7a145511e70, Revision, Pass
<1>3. Rev_a22583938b64.down_revision = {"b7a145511e70"}
  BY DEF Rev_a22583938b64, Revision, Pass
<1>4. Rev_d6b8f2f8579d.down_revision = {"a22583938b64"}
  BY DEF Rev_d6b8f2f8579d, Revision, Pass
<1>5. Rev_82564d70969d.down_revision = {"d6b8f2f8579d"}
  BY DEF Rev_82564d70969d, Revision, Pass
<1>6. Rev_daa5cac943ac.down_revision = {"82564d70969d"}
  BY DEF Rev_daa5cac943ac, Revision, Pass
<1>7. Rev_9508604ce511.down_revision = {"daa5cac943ac"}
  BY DEF Rev_9508604ce511, Revision, Pass
<1>8. Rev_aa1b2c3d4e5f.down_revision = {"60afb71f58fe"}
  BY DEF Rev_aa1b2c3d4e5f, Revision, Pass
<1>9. Rev_bb_add_external_fields.down_revision = {"aa1b2c3d4e5f"}
  BY DEF Rev_bb_add_external_fields, Revision, Pass
<1>10. Rev_c1d2e3f4add.down_revision = {"bb_add_external_fields"}
  BY DEF Rev_c1d2e3f4add, Revision, Pass
<1>11. Rev_0f42d4f96fa6.down_revision = {"9508604ce511", "c1d2e3f4add"}
  BY DEF Rev_0f42d4f96fa6, Revision, Pass
<1>12. Rev_20251020_add_kepco_fields.down_revision = {"bb_add_external_fields"}
  BY DEF Rev_20251020_add_kepco_fields, Revision, Pass
<1>13. Rev_d8c47bac145f.down_revision = {"0f42d4f96fa6", "20251020_add_kepco_fields"}
  BY DEF Rev_d8c47bac145f, Revision, Pass
<1>14. Rev_20251023_add_additional_kepco_fields.down_revision = {"d8c47bac145f"}
  BY DEF Rev_20251023_add_additional_kepco_fields, Revision, Pass
<1>15. Rev_20251025_add_station_api_compat.down_revision =
         {"20251023_add_additional_kepco_fields"}
  BY DEF Rev_20251025_add_station_api_compat, Revision, Pass
<1>16. Rev_20251025_add_cp_fields_migration.down_revision =
         {"20251023_add_additional_kepco_fields"}
  BY DEF Rev_20251025_add_cp_fields_migration, Revision, Pass
<1>17. Rev_20251028_add_sale_price.down_revision = {"82564d70969d"}
  BY DEF Rev_20251028_add_sale_price, Revision, Pass
<1>18. Rev_20251028_convert_kepco_ts_to_timestamptz.down_revision =
         {"20251025_add_cp_fields_migration"}
  BY DEF Rev_20251028_convert_kepco_ts_to_timestamptz, Revision, Pass
<1>19. Rev_20251031_subsidy_data_migration.down_revision = {"20251028_add_sale_price"}
  BY DEF Rev_20251031_subsidy_data_migration, Revision, Pass
<1> QED BY RevisionsByName, <1>1, <1>2, <1>3, <1>4, <1>5, <1>6, <1>7, <1>8, <1>9, <1>10, <1>11, <1>12,
           <1>13, <1>14, <1>15, <1>16, <1>17, <1>18, <1>19

\* The place of a revision in History.
Rank ==
    [60afb71f58fe |-> 1,
     b7a145511e70 |-> 2,
     a22583938b64 |-> 3,
     d6b8f2f8579d |-> 4,
     82564d70969d |-> 5,
     daa5cac943ac |-> 6,
     9508604ce511 |-> 7,
     aa1b2c3d4e5f |-> 8,
     bb_add_external_fields |-> 9,
     c1d2e3f4add |-> 10,
     0f42d4f96fa6 |-> 11,
     20251020_add_kepco_fields |-> 12,
     d8c47bac145f |-> 13,
     20251023_add_additional_kepco_fields |-> 14,
     20251025_add_station_api_compat |-> 15,
     20251025_add_cp_fields_migration |-> 16,
     20251028_add_sale_price |-> 17,
     20251028_convert_kepco_ts_to_timestamptz |-> 18,
     20251031_subsidy_data_migration |-> 19]

LEMMA ParentsComeFirst ==
  ASSUME NEW r \in Revisions
  PROVE  /\ Versions[r].down_revision \subseteq Revisions
         /\ Rank[r] \in Nat /\ \A p \in Versions[r].down_revision : Rank[p] < Rank[r]
BY RevisionNames, Parents DEF Rank

\* What defines Ancestors, at r.
Closed(f, r) == f[r] = {r} \cup UNION {f[p] : p \in Versions[r].down_revision}

\* There is such a function.
LEMMA ClosureExists ==
  \E f : f = [r \in Revisions |-> {r} \cup UNION {f[p] : p \in Versions[r].down_revision}]
<1> DEFINE a1 == {"60afb71f58fe"}
           a2 == a1 \cup {"b7a145511e70"}
           a3 == a2 \cup {"a22583938b64"}
           a4 == a3 \cup {"d6b8f2f8579d"}
           a5 == a4 \cup {"82564d70969d"}
           a6 == a5 \cup {"daa5cac943ac"}
           a7 == a6 \cup {"9508604ce511"}
           a8 == a1 \cup {"aa1b2c3d4e5f"}
           a9 == a8 \cup {"bb_add_external_fields"}
           a10 == a9 \cup {"c1d2e3f4add"}
           a11 == a7 \cup a10 \cup {"0f42d4f96fa6"}
           a12 == a9 \cup {"20251020_add_kepco_fields"}
           a13 == a11 \cup a12 \cup {"d8c47bac145f"}
           a14 == a13 \cup {"20251023_add_additional_kepco_fields"}
           a15 == a14 \cup {"20251025_add_station_api_compat"}
           a16 == a14 \cup {"20251025_add_cp_fields_migration"}
           a17 == a5 \cup {"20251028_add_sale_price"}
           a18 == a16 \cup {"20251028_convert_kepco_ts_to_timestamptz"}
           a19 == a17 \cup {"20251031_subsidy_data_migration"}
           f == [60afb71f58fe |-> a1,
                 b7a145511e70 |-> a2,
                 a22583938b64 |-> a3,
                 d6b8f2f8579d |-> a4,
                 82564d70969d |-> a5,
                 daa5cac943ac |-> a6,
                 9508604ce511 |-> a7,
                 aa1b2c3d4e5f |-> a8,
                 bb_add_external_fields |-> a9,
                 c1d2e3f4add |-> a10,
                 0f42d4f96fa6 |-> a11,
                 20251020_add_kepco_fields |-> a12,
                 d8c47bac145f |-> a13,
                 20251023_add_additional_kepco_fields |-> a14,
                 20251025_add_station_api_compat |-> a15,
                 20251025_add_cp_fields_migration |-> a16,
                 20251028_add_sale_price |-> a17,
                 20251028_convert_kepco_ts_to_timestamptz |-> a18,
                 20251031_subsidy_data_migration |-> a19]
<1>1. DOMAIN f = Revisions
  BY RevisionNames
<1>2. Closed(f, "60afb71f58fe")
  BY Parents DEF Closed
<1>3. Closed(f, "b7a145511e70")
  BY Parents DEF Closed
<1>4. Closed(f, "a22583938b64")
  BY Parents DEF Closed
<1>5. Closed(f, "d6b8f2f8579d")
  BY Parents DEF Closed
<1>6. Closed(f, "82564d70969d")
  BY Parents DEF Closed
<1>7. Closed(f, "daa5cac943ac")
  BY Parents DEF Closed
<1>8. Closed(f, "9508604ce511")
  BY Parents DEF Closed
<1>9. Closed(f, "aa1b2c3d4e5f")
  BY Parents DEF Closed
<1>10. Closed(f, "bb_add_external_fields")
  BY Parents DEF Closed
<1>11. Closed(f, "c1d2e3f4add")
  BY Parents DEF Closed
<1>12. Closed(f, "0f42d4f96fa6")
  BY Parents DEF Closed
<1>13. Closed(f, "20251020_add_kepco_fields")
  BY Parents DEF Closed
<1>14. Closed(f, "d8c47bac145f")
  BY Parents DEF Closed
<1>15. Closed(f, "20251023_add_additional_kepco_fields")
  BY Parents DEF Closed
<1>16. Closed(f, "20251025_add_station_api_compat")
  BY Parents DEF Closed
<1>17. Closed(f, "20251025_add_cp_fields_migration")
  BY Parents DEF Closed
<1>18. Closed(f, "20251028_add_sale_price")
  BY Parents DEF Closed
<1>19. Closed(f, "20251028_convert_kepco_ts_to_timestamptz")
  BY Parents DEF Closed
<1>20. Closed(f, "20251031_subsidy_data_migration")
  BY Parents DEF Closed
<1> HIDE DEF f
<1>21. \A r \in Revisions : Closed(f, r)
  BY RevisionNames, <1>2, <1>3, <1>4, <1>5, <1>6, <1>7, <1>8, <1>9, <1>10, <1>11, <1>12,
     <1>13, <1>14, <1>15, <1>16, <1>17, <1>18, <1>19, <1>20
<1>22. f = [r \in Revisions |-> f[r]]
  BY <1>1 DEF f
<1>23. f = [r \in Revisions |-> {r} \cup UNION {f[p] : p \in Versions[r].down_revision}]
  BY <1>21, <1>22 DEF Closed
<1> QED BY <1>23

\* The ancestors of a revision are itself and those of its parents.
LEMMA AncestorsOfParents ==
  /\ DOMAIN Ancestors = Revisions
  /\ \A r \in Revisions : Closed(Ancestors, r)
<1> DEFINE E(f) == f = [r \in Revisions |->
                            {r} \cup UNION {f[p] : p \in Versions[r].down_revision}]
           from == CHOOSE f : E(f)
<1>1. E(from)
  <2>1. \E f : E(f)
    BY ClosureExists
  <2> HIDE DEF E
  <2> QED BY <2>1
<1>2. Ancestors = [r \in Revisions |-> from[r]]
  BY DEF Ancestors
<1>3. \A r \in Revisions : Closed(from, r)
  BY <1>1 DEF Closed
<1> HIDE DEF from
<1>4. \A r \in Revisions : \A p \in Versions[r].down_revision : Ancestors[p] = from[p]
  BY <1>2, ParentsComeFirst
<1> QED BY <1>2, <1>3, <1>4 DEF Closed

\* The ancestors of r are revisions, ordered by descent, and come before r by date.
Placed(r) ==
    /\ r \in Ancestors[r] /\ Ancestors[r] \subseteq Revisions
    /\ \A x \in Ancestors[r] : Ancestors[x] \subseteq Ancestors[r]
    /\ \A x \in Ancestors[r] : x # r => Rank[x] < Rank[r]

LEMMA PlacedByParents ==
  ASSUME NEW r \in Revisions, \A p \in Versions[r].down_revision : Placed(p)
  PROVE  Placed(r)
<1>1. Ancestors[r] = {r} \cup UNION {Ancestors[p] : p \in Versions[r].down_revision}
  BY AncestorsOfParents DEF Closed
<1>2. \A p \in Versions[r].down_revision : p \in Revisions /\ Rank[p] < Rank[r]
  BY ParentsComeFirst
<1>3. ASSUME NEW x \in Ancestors[r], x # r
      PROVE  x \in Revisions /\ Ancestors[x] \subseteq Ancestors[r] /\ Rank[x] < Rank[r]
  <2>1. PICK p \in Versions[r].down_revision : x \in Ancestors[p]
    BY <1>1, <1>3
  <2>2. Placed(p) /\ p \in Revisions /\ Rank[p] < Rank[r] /\ Ancestors[p] \subseteq Ancestors[r]
    BY <1>1, <1>2
  <2>3. x \in Revisions /\ Rank[x] \in Nat /\ Rank[p] \in Nat /\ Rank[r] \in Nat
    BY <2>1, <2>2, ParentsComeFirst DEF Placed
  <2>4. Rank[x] < Rank[r]
    BY <2>1, <2>2, <2>3 DEF Placed
  <2> QED BY <2>1, <2>2, <2>3, <2>4 DEF Placed
<1> QED BY <1>1, <1>3 DEF Placed

LEMMA AllPlaced == \A r \in Revisions : Placed(r)
<1>1. Placed("60afb71f58fe")
  BY RevisionNames, Parents, PlacedByParents
<1>2. Placed("b7a145511e70")
  BY <1>1, RevisionNames, Parents, PlacedByParents
<1>3. Placed("a22583938b64")
  BY <1>2, RevisionNames, Parents, PlacedByParents
<1>4. Placed("d6b8f2f8579d")
  BY <1>3, RevisionNames, Parents, PlacedByParents
<1>5. Placed("82564d70969d")
  BY <1>4, RevisionNames, Parents, PlacedByParents
<1>6. Placed("daa5cac943ac")
  BY <1>5, RevisionNames, Parents, PlacedByParents
<1>7. Placed("9508604ce511")
  BY <1>6, RevisionNames, Parents, PlacedByParents
<1>8. Placed("aa1b2c3d4e5f")
  BY <1>1, RevisionNames, Parents, PlacedByParents
<1>9. Placed("bb_add_external_fields")
  BY <1>8, RevisionNames, Parents, PlacedByParents
<1>10. Placed("c1d2e3f4add")
  BY <1>9, RevisionNames, Parents, PlacedByParents
<1>11. Placed("0f42d4f96fa6")
  BY <1>7, <1>10, RevisionNames, Parents, PlacedByParents
<1>12. Placed("20251020_add_kepco_fields")
  BY <1>9, RevisionNames, Parents, PlacedByParents
<1>13. Placed("d8c47bac145f")
  BY <1>11, <1>12, RevisionNames, Parents, PlacedByParents
<1>14. Placed("20251023_add_additional_kepco_fields")
  BY <1>13, RevisionNames, Parents, PlacedByParents
<1>15. Placed("20251025_add_station_api_compat")
  BY <1>14, RevisionNames, Parents, PlacedByParents
<1>16. Placed("20251025_add_cp_fields_migration")
  BY <1>14, RevisionNames, Parents, PlacedByParents
<1>17. Placed("20251028_add_sale_price")
  BY <1>5, RevisionNames, Parents, PlacedByParents
<1>18. Placed("20251028_convert_kepco_ts_to_timestamptz")
  BY <1>16, RevisionNames, Parents, PlacedByParents
<1>19. Placed("20251031_subsidy_data_migration")
  BY <1>17, RevisionNames, Parents, PlacedByParents
<1> QED BY RevisionNames, <1>1, <1>2, <1>3, <1>4, <1>5, <1>6, <1>7, <1>8, <1>9, <1>10,
           <1>11, <1>12, <1>13, <1>14, <1>15, <1>16, <1>17, <1>18, <1>19

LEMMA AncestorsOrder ==
  /\ \A r \in Revisions : r \in Ancestors[r] /\ Ancestors[r] \subseteq Revisions
  /\ \A r \in Revisions : \A x \in Ancestors[r] : Ancestors[x] \subseteq Ancestors[r]
  /\ \A r, x \in Revisions : x \in Ancestors[r] /\ r \in Ancestors[x] => x = r
<1>1. \A r, x \in Revisions : x \in Ancestors[r] /\ r \in Ancestors[x] => x = r
  <2> SUFFICES ASSUME NEW r \in Revisions, NEW x \in Revisions,
                      x \in Ancestors[r], r \in Ancestors[x], x # r
               PROVE  FALSE
    OBVIOUS
  <2>1. Rank[x] < Rank[r] /\ Rank[r] < Rank[x]
    BY AllPlaced DEF Placed
  <2> QED BY <2>1, ParentsComeFirst
<1> QED BY <1>1, AllPlaced DEF Placed

LEMMA ParentsAndAncestors ==
  ASSUME NEW r \in Revisions
  PROVE  /\ Versions[r].down_revision \subseteq Ancestors[r] \ {r}
         /\ \A p \in Versions[r].down_revision : p \in Revisions /\ r \notin Ancestors[p]
         /\ \A x \in Ancestors[r] \ {r} :
                \E p \in Versions[r].down_revision : x \in Ancestors[p]
<1>1. Ancestors[r] = {r} \cup UNION {Ancestors[p] : p \in Versions[r].down_revision}
  BY AncestorsOfParents DEF Closed
<1>2. \A p \in Versions[r].down_revision :
        p \in Revisions /\ p \in Ancestors[p] /\ p \in Ancestors[r]
  BY <1>1, ParentsComeFirst, AncestorsOrder
<1>3. \A p \in Versions[r].down_revision : p # r
  BY ParentsComeFirst
<1> QED BY <1>1, <1>2, <1>3, AncestorsOrder

\* Neither parent of a merge comes after the other.
LEMMA ParentsAreApart ==
  ASSUME NEW r \in Revisions, NEW p \in Versions[r].down_revision,
         NEW q \in Versions[r].down_revision, p \in Ancestors[q]
  PROVE  p = q
<1>1. Ancestors["60afb71f58fe"] = {"60afb71f58fe"}
  BY AncestorsOfParents, Parents, RevisionNames DEF Closed
<1>2. Ancestors["aa1b2c3d4e5f"] = {"60afb71f58fe", "aa1b2c3d4e5f"}
  BY <1>1, AncestorsOfParents, Parents, RevisionNames DEF Closed
<1>3. Ancestors["bb_add_external_fields"] =
        {"60afb71f58fe", "aa1b2c3d4e5f", "bb_add_external_fields"}
  BY <1>2, AncestorsOfParents, Parents, RevisionNames DEF Closed
<1>4. Ancestors["c1d2e3f4add"] =
        {"60afb71f58fe", "aa1b2c3d4e5f", "bb_add_external_fields", "c1d2e3f4add"}
  BY <1>3, AncestorsOfParents, Parents, RevisionNames DEF Closed
<1>5. Ancestors["20251020_add_kepco_fields"] =
        {"60afb71f58fe", "aa1b2c3d4e5f", "bb_add_external_fields", "20251020_add_kepco_fields"}
  BY <1>3, AncestorsOfParents, Parents, RevisionNames DEF Closed
<1>6. p = q \/ r \in {"0f42d4f96fa6", "d8c47bac145f"}
  BY RevisionNames, Parents
<1>7. p \in Revisions /\ q \in Revisions /\ (p = q \/ Rank[p] < Rank[q])
  BY AllPlaced, ParentsAndAncestors DEF Placed
<1>8. CASE r = "0f42d4f96fa6"
  <2>1. p = q \/ (p = "9508604ce511" /\ q = "c1d2e3f4add")
    BY <1>7, <1>8, Parents DEF Rank
  <2> QED BY <1>4, <2>1
<1>9. CASE r = "d8c47bac145f"
  <2>1. p = q \/ (p = "0f42d4f96fa6" /\ q = "20251020_add_kepco_fields")
    BY <1>7, <1>9, Parents DEF Rank
  <2> QED BY <1>5, <2>1
<1> QED BY <1>6, <1>8, <1>9

-----------------------------------------------------------------------------
(* alembic_version                                                         *)

LEMMA AppliedIsClosed ==
  ASSUME NEW version \in SUBSET Revisions
  PROVE  /\ version \subseteq Applied(version) /\ Applied(version) \subseteq Revisions
         /\ \A x \in Applied(version) : Ancestors[x] \subseteq Applied(version)
BY AncestorsOrder DEF Applied

LEMMA AdvancedApplies ==
  ASSUME NEW version, IsVersion(version), NEW r \in Revisions \ Applied(version),
         Versions[r].down_revision \subseteq Applied(version)
  PROVE  /\ IsVersion(Advanced(version, r))
         /\ Applied(Advanced(version, r)) = Applied(version) \cup {r}
<1>1. version \subseteq Revisions
  BY DEF IsVersion
<1>2. ASSUME NEW x \in Ancestors[r], x # r
      PROVE  x \in Applied(version)
  BY <1>1, <1>2, ParentsAndAncestors, AppliedIsClosed
<1>3. \A v \in version : r \notin Ancestors[v]
  BY DEF Applied
<1>4. IsVersion(Advanced(version, r))
  BY <1>1, <1>3 DEF IsVersion, Advanced
<1>5. Applied(Advanced(version, r)) \subseteq Applied(version) \cup {r}
  BY <1>2 DEF Advanced, Applied
<1>6. r \in Applied(Advanced(version, r))
  BY AncestorsOrder DEF Advanced, Applied
<1>7. ASSUME NEW v \in version, NEW x \in Ancestors[v]
      PROVE  x \in Applied(Advanced(version, r))
  <2>1. CASE v \in Ancestors[r]
    BY <2>1, AncestorsOrder DEF Advanced, Applied
  <2>2. CASE v \notin Ancestors[r]
    BY <2>2 DEF Advanced, Applied
  <2> QED BY <2>1, <2>2
<1>8. Applied(version) \subseteq Applied(Advanced(version, r))
  BY <1>7 DEF Applied
<1> QED BY <1>4, <1>5, <1>6, <1>8

LEMMA RetreatedRemoves ==
  ASSUME NEW version, IsVersion(version), NEW r \in Applied(version),
         \A x \in Applied(version) : r \in Ancestors[x] => x = r
  PROVE  /\ IsVersion(Retreated(version, r))
         /\ Applied(Retreated(version, r)) = Applied(version) \ {r}
<1> DEFINE rest == version \ {r}
           new == Versions[r].down_revision \ Applied(rest)
<1>1. version \subseteq Revisions /\ version \subseteq Applied(version) /\ r \in Revisions
  BY AppliedIsClosed DEF IsVersion
<1>2. r \in version
  <2>1. PICK v \in version : r \in Ancestors[v]
    BY DEF Applied
  <2> QED BY <1>1, <2>1
<1>3. Retreated(version, r) = rest \cup new
  BY DEF Retreated
<1>4. rest \subseteq Revisions /\ new \subseteq Revisions
  BY <1>1, ParentsComeFirst
<1>5. \A v \in rest : r \notin Ancestors[v]
  BY <1>1
<1>6. \A p \in new : r \notin Ancestors[p] /\ Ancestors[p] \subseteq Ancestors[r]
  BY <1>1, ParentsAndAncestors, AncestorsOrder
<1>7. \A p \in new, v \in rest : p \notin Ancestors[v]
  BY DEF Applied
<1>8. \A p \in new, v \in rest : v \notin Ancestors[p]
  BY <1>2, <1>6 DEF IsVersion
<1>9. \A p, q \in new : p \in Ancestors[q] => p = q
  BY <1>1, ParentsAreApart
<1>10. IsVersion(rest \cup new)
  BY <1>4, <1>7, <1>8, <1>9 DEF IsVersion
<1>11. Applied(rest \cup new) \subseteq Applied(version) \ {r}
  BY <1>2, <1>5, <1>6 DEF Applied
<1>12. ASSUME NEW x \in Ancestors[r], x # r
       PROVE  x \in Applied(rest \cup new)
  <2>1. PICK p \in Versions[r].down_revision : x \in Ancestors[p]
    BY <1>1, <1>12, ParentsAndAncestors
  <2>2. CASE p \in new
    BY <2>1, <2>2 DEF Applied
  <2>3. CASE p \in Applied(rest)
    <3>1. x \in Applied(rest)
      BY <1>4, <2>1, <2>3, AppliedIsClosed
    <3> QED BY <3>1 DEF Applied
  <2> QED BY <2>2, <2>3
<1>13. Applied(version) \ {r} \subseteq Applied(rest \cup new)
  BY <1>12 DEF Applied
<1> QED BY <1>3, <1>10, <1>11, <1>13

LEMMA StampedVersion ==
  ASSUME NEW version, IsVersion(version),
         NEW stamped, stamped = (version \ {v \in version : \/ v \in Ancestors[Stamped]
                                                           \/ Stamped \in Ancestors[v]})
                                    \cup {Stamped}
  PROVE  /\ IsVersion(stamped)
         /\ Ancestors[Stamped] \subseteq Applied(stamped)
         /\ Applied(stamped) \subseteq Applied(version) \cup Ancestors[Stamped]
BY RevisionNames DEF IsVersion, Stamped, Applied

-----------------------------------------------------------------------------
(* The rows of alembic_version while a command runs                        *)

\* An upgrade has still to run revisions that are not applied, each behind its
\* parents; a downgrade, applied ones, each with all that come after it.
Underway ==
    LET applied == Applied(tx.version)
    IN  /\ tx.cmd = "upgrade" =>
            /\ Applied(db.version) \subseteq applied
            /\ tx.todo \cap applied = {}
            /\ \A r \in tx.todo : Versions[r].down_revision \subseteq tx.todo \cup applied
        /\ tx.cmd = "downgrade" =>
            /\ applied \subseteq Applied(db.version)
            /\ tx.todo \subseteq applied
            /\ \A r \in tx.todo, x \in applied : r \in Ancestors[x] => x \in tx.todo

VersionInv ==
    /\ db = [schema |-> db.schema, version |-> db.version]
    /\ tx = [cmd |-> tx.cmd, todo |-> tx.todo, schema |-> tx.schema, version |-> tx.version]
    /\ tx.cmd \in {"none", "upgrade", "downgrade"} /\ tx.todo \subseteq Revisions
    /\ tx.cmd = "none" <=> tx = NoTx
    /\ IsVersion(db.version) /\ IsVersion(tx.version)
    /\ Underway

\* t is a transaction with these fields.
IsTx(t, cmd, todo, schema) ==
    /\ t = [cmd |-> cmd, todo |-> todo, schema |-> schema, version |-> t.version]
    /\ t.cmd = cmd /\ t.todo = todo /\ t.schema = schema /\ IsVersion(t.version)

\* What RunUpgrade does, with the revision it runs.
LEMMA UpgradeRun ==
  ASSUME VersionInv, RunUpgrade
  PROVE  \E r \in Revisions :
            /\ tx.cmd = "upgrade" /\ r \in tx.todo /\ r \notin Applied(tx.version)
            /\ Versions[r].down_revision \subseteq Applied(tx.version)
            /\ Fits(tx.schema, Versions[r].upgrade)
            /\ IsTx(tx', "upgrade", tx.todo \ {r}, Apply(tx.schema, Versions[r].upgrade, r))
            /\ Applied(tx'.version) = Applied(tx.version) \cup {r}
            /\ UNCHANGED <<db, failure, ran, touched, repairs>>
<1>1. PICK r \in Revisions :
        /\ ReadyUp(r) /\ Fits(tx.schema, Versions[r].upgrade)
        /\ tx' = [tx EXCEPT !.todo = @ \ {r},
                            !.schema = Apply(@, Versions[r].upgrade, r),
                            !.version = Advanced(@, r)]
        /\ UNCHANGED <<db, failure, ran, touched, repairs>>
  BY DEF RunUpgrade
<1>2. tx = [cmd |-> tx.cmd, todo |-> tx.todo, schema |-> tx.schema, version |-> tx.version]
  BY DEF VersionInv
<1> DEFINE schema == Apply(tx.schema, Versions[r].upgrade, r)
<1>3. tx' = [tx EXCEPT !.todo = @ \ {r}, !.schema = schema, !.version = Advanced(@, r)]
  BY <1>1
<1> HIDE DEF schema
<1>4. /\ tx'.cmd = tx.cmd /\ tx'.todo = tx.todo \ {r} /\ tx'.schema = schema
      /\ tx'.version = Advanced(tx.version, r)
      /\ tx' = [cmd |-> tx.cmd, todo |-> tx.todo \ {r}, schema |-> schema,
                version |-> tx'.version]
  BY <1>2, <1>3
<1>5. /\ r \notin Applied(tx.version) /\ Versions[r].down_revision \subseteq Applied(tx.version)
      /\ tx.cmd = "upgrade" /\ r \in tx.todo /\ IsVersion(tx.version)
  BY <1>1 DEF VersionInv, Underway, ReadyUp
<1>6. /\ IsVersion(tx'.version)
      /\ Applied(tx'.version) = Applied(tx.version) \cup {r}
  BY <1>4, <1>5, AdvancedApplies
<1>7. IsTx(tx', "upgrade", tx.todo \ {r}, schema)
  BY <1>4, <1>5, <1>6 DEF IsTx
<1> QED BY <1>1, <1>5, <1>6, <1>7 DEF schema

\* What RunDowngrade does, with the revision it runs.
LEMMA DowngradeRun ==
  ASSUME VersionInv, RunDowngrade
  PROVE  \E r \in Revisions :
            /\ tx.cmd = "downgrade" /\ r \in tx.todo /\ r \in Applied(tx.version)
            /\ \A x \in Applied(tx.version) : r \in Ancestors[x] => x = r
            /\ Fits(tx.schema, Versions[r].downgrade)
            /\ IsTx(tx', "downgrade", tx.todo \ {r},
                    Apply(tx.schema, Versions[r].downgrade, Versions[r].restores))
            /\ Applied(tx'.version) = Applied(tx.version) \ {r}
            /\ UNCHANGED <<db, failure, ran, touched, repairs>>
<1>1. PICK r \in Revisions :
        /\ ReadyDown(r) /\ Fits(tx.schema, Versions[r].downgrade)
        /\ tx' = [tx EXCEPT !.todo = @ \ {r},
                            !.schema = Apply(@, Versions[r].downgrade, Versions[r].restores),
                            !.version = Retreated(@, r)]
        /\ UNCHANGED <<db, failure, ran, touched, repairs>>
  BY DEF RunDowngrade
<1>2. tx = [cmd |-> tx.cmd, todo |-> tx.todo, schema |-> tx.schema, version |-> tx.version]
  BY DEF VersionInv
<1> DEFINE schema == Apply(tx.schema, Versions[r].downgrade, Versions[r].restores)
<1>3. tx' = [tx EXCEPT !.todo = @ \ {r}, !.schema = schema, !.version = Retreated(@, r)]
  BY <1>1
<1> HIDE DEF schema
<1>4. /\ tx'.cmd = tx.cmd /\ tx'.todo = tx.todo \ {r} /\ tx'.schema = schema
      /\ tx'.version = Retreated(tx.version, r)
      /\ tx' = [cmd |-> tx.cmd, todo |-> tx.todo \ {r}, schema |-> schema,
                version |-> tx'.version]
  BY <1>2, <1>3
<1>5. /\ r \in Applied(tx.version) /\ \A x \in Applied(tx.version) : r \in Ancestors[x] => x = r
      /\ tx.cmd = "downgrade" /\ r \in tx.todo /\ IsVersion(tx.version)
  BY <1>1 DEF VersionInv, Underway, ReadyDown
<1>6. /\ IsVersion(tx'.version)
      /\ Applied(tx'.version) = Applied(tx.version) \ {r}
  BY <1>4, <1>5, RetreatedRemoves
<1>7. IsTx(tx', "downgrade", tx.todo \ {r}, schema)
  BY <1>4, <1>5, <1>6 DEF IsTx
<1> QED BY <1>1, <1>5, <1>6, <1>7 DEF schema

LEMMA NoTxFields ==
  /\ NoTx.cmd = "none" /\ NoTx.todo = {} /\ NoTx.schema = NoSchema /\ NoTx.version = {}
  /\ NoTx = [cmd |-> NoTx.cmd, todo |-> NoTx.todo, schema |-> NoTx.schema,
             version |-> NoTx.version]
  /\ IsVersion({}) /\ DOMAIN NoSchema = {}
BY DEF NoTx, IsVersion, NoSchema

LEMMA EndKeepsVersionInv ==
  ASSUME VersionInv, tx' = NoTx, db'.version \in {db.version, tx.version},
         db' = [schema |-> db'.schema, version |-> db'.version]
  PROVE  VersionInv'
BY NoTxFields DEF VersionInv, Underway

LEMMA BeginKeepsVersionInv ==
  ASSUME VersionInv, NEW cmd \in {"upgrade", "downgrade"}, NEW todo, Begin(cmd, todo),
         cmd = "upgrade" =>
            /\ todo \subseteq Revisions \ Applied(db.version)
            /\ \A r \in todo : Versions[r].down_revision \subseteq todo \cup Applied(db.version),
         cmd = "downgrade" =>
            /\ todo \subseteq Applied(db.version)
            /\ \A r \in todo, x \in Applied(db.version) : r \in Ancestors[x] => x \in todo
  PROVE  VersionInv'
<1>1. /\ tx' = [cmd |-> cmd, todo |-> todo, schema |-> db.schema, version |-> db.version]
      /\ db' = db
  BY DEF Begin
<1>2. /\ tx'.cmd = cmd /\ tx'.todo = todo /\ tx'.version = db.version
      /\ tx' = [cmd |-> tx'.cmd, todo |-> tx'.todo, schema |-> tx'.schema,
                version |-> tx'.version]
  BY <1>1
<1>3. IsVersion(db.version) /\ Applied(db.version) \subseteq Revisions
  BY AppliedIsClosed DEF VersionInv, IsVersion
<1>4. todo \subseteq Revisions
  BY <1>3
<1>5. tx' # NoTx
  BY <1>2, NoTxFields
<1> QED BY <1>1, <1>2, <1>3, <1>4, <1>5 DEF VersionInv, Underway

LEMMA RunsKeepVersionInv ==
  ASSUME VersionInv, RunUpgrade \/ RunDowngrade
  PROVE  VersionInv'
<1>1. CASE RunUpgrade
  <2>1. PICK r \in Revisions :
          /\ tx.cmd = "upgrade" /\ r \in tx.todo
          /\ IsTx(tx', "upgrade", tx.todo \ {r}, Apply(tx.schema, Versions[r].upgrade, r))
          /\ db' = db
          /\ Applied(tx'.version) = Applied(tx.version) \cup {r}
    BY <1>1, UpgradeRun
  <2>2. tx' # NoTx
    BY <2>1, NoTxFields DEF IsTx
  <2> QED BY <2>1, <2>2 DEF VersionInv, Underway, IsTx
<1>2. CASE RunDowngrade
  <2>1. PICK r \in Revisions :
          /\ tx.cmd = "downgrade" /\ r \in tx.todo
          /\ \A x \in Applied(tx.version) : r \in Ancestors[x] => x = r
          /\ IsTx(tx', "downgrade", tx.todo \ {r},
                  Apply(tx.schema, Versions[r].downgrade, Versions[r].restores))
          /\ db' = db
          /\ Applied(tx'.version) = Applied(tx.version) \ {r}
    BY <1>2, DowngradeRun
  <2>2. tx' # NoTx
    BY <2>1, NoTxFields DEF IsTx
  <2> QED BY <2>1, <2>2 DEF VersionInv, Underway, IsTx
<1> QED BY <1>1, <1>2

LEMMA VersionInvInductive ==
  ASSUME VersionInv, [Next]_vars
  PROVE  VersionInv'
<1>1. IsVersion(db.version) /\ db.version \in SUBSET Revisions
  BY DEF VersionInv, IsVersion
<1>2. CASE UpgradeHeads
  <2>1. Begin("upgrade", Revisions \ Applied(db.version))
    BY <1>2 DEF UpgradeHeads
  <2> QED BY <2>1, BeginKeepsVersionInv, ParentsComeFirst
<1>3. CASE UpgradeTo
  <2>1. PICK r \in Revisions : Begin("upgrade", Ancestors[r] \ Applied(db.version))
    BY <1>3 DEF UpgradeTo
  <2>2. \A x \in Ancestors[r] : x \in Revisions /\ Versions[x].down_revision \subseteq Ancestors[r]
    BY ParentsAndAncestors, AncestorsOrder
  <2> QED BY <2>1, <2>2, BeginKeepsVersionInv
<1>4. CASE DowngradeTo
  <2>1. PICK r \in Applied(db.version) :
          Begin("downgrade", {x \in Applied(db.version) \ {r} : r \in Ancestors[x]})
    BY <1>4 DEF DowngradeTo
  <2> DEFINE todo == {x \in Applied(db.version) \ {r} : r \in Ancestors[x]}
  <2>2. \A x \in todo, y \in Applied(db.version) : x \in Ancestors[y] => y \in todo
    BY <1>1, AppliedIsClosed, AncestorsOrder
  <2>3. todo \subseteq Applied(db.version) /\ Begin("downgrade", todo)
    BY <2>1
  <2> HIDE DEF todo
  <2> QED BY <2>2, <2>3, BeginKeepsVersionInv
<1>5. CASE DowngradeBase
  <2>1. Begin("downgrade", Applied(db.version))
    BY <1>5 DEF DowngradeBase
  <2> QED BY <2>1, BeginKeepsVersionInv
<1>6. CASE UpgradeHead
  BY <1>6 DEF UpgradeHead, VersionInv, Underway
<1>7. CASE StampDaa5
  <2>1. /\ IsVersion(db'.version) /\ db' = [schema |-> db'.schema, version |-> db'.version]
        /\ tx = NoTx /\ tx' = tx
    BY <1>1, <1>7, StampedVersion DEF StampDaa5, VersionInv
  <2> QED BY <2>1, NoTxFields DEF VersionInv, Underway
<1>8. CASE InitDb
  <2>1. /\ db'.version = db.version /\ db' = [schema |-> db'.schema, version |-> db'.version]
        /\ tx = NoTx /\ tx' = tx
    BY <1>8 DEF InitDb, VersionInv
  <2> QED BY <2>1, EndKeepsVersionInv
<1>9. CASE RunUpgrade \/ RunDowngrade
  BY <1>9, RunsKeepVersionInv
<1>10. CASE RevisionFails \/ Interrupted
  BY <1>10, EndKeepsVersionInv DEF RevisionFails, Interrupted, VersionInv
<1>11. CASE Commit
  BY <1>11, EndKeepsVersionInv DEF Commit
<1>12. CASE UNCHANGED vars
  BY <1>12 DEF vars, VersionInv, Underway
<1> QED BY <1>2, <1>3, <1>4, <1>5, <1>6, <1>7, <1>8, <1>9, <1>10, <1>11, <1>12 DEF Next

LEMMA VersionInvHolds == Spec => []VersionInv
<1>1. Init => VersionInv
  <2> SUFFICES ASSUME Init
               PROVE  VersionInv
    OBVIOUS
  <2>1. db = [schema |-> db.schema, version |-> db.version] /\ db.version = {}
    BY DEF Init
  <2>2. tx = NoTx
    BY DEF Init
  <2> QED BY <2>1, <2>2, NoTxFields DEF VersionInv, Underway
<1> QED BY <1>1, VersionInvInductive, PTL DEF Spec

-----------------------------------------------------------------------------
(* One step on a schema                                                    *)

LEMMA ColumnsAreNotIndexes ==
  /\ "table" \notin DOMAIN On
  /\ \A n \in DOMAIN On : \A c \in On[n] : c \notin DOMAIN On /\ c # "table"
BY DEF On

LEMMA Dependencies ==
  ASSUME NEW o
  PROVE  /\ Table(o[1]) \in DependsOn(o)
         /\ \A d \in DependsOn(o) : /\ d[1] = o[1] /\ d[2] \notin DOMAIN On
                                    /\ DependsOn(d) \subseteq DependsOn(o)
BY ColumnsAreNotIndexes DEF DependsOn, Table, Of

\* What o loses when R is dropped.
Cut(o, R) == \E d \in R : d = o \/ d \in DependsOn(o)

LEMMA WithoutFields ==
  ASSUME NEW schema, NEW R
  PROVE  /\ \A o : o \in DOMAIN Without(schema, R) <=> o \in DOMAIN schema /\ ~Cut(o, R)
         /\ \A o \in DOMAIN Without(schema, R) : Without(schema, R)[o] = schema[o]
BY DEF Without, Cut

\* What a step may define.
Defines(step) == step.creates \cup step.tables \cup step.ensures \cup step.alters

LEMMA AppliedFields ==
  ASSUME NEW schema, NEW step, NEW by
  PROVE  LET R == step.drops \cup step.discards
             new == Added(Without(schema, R), step)
             result == Apply(schema, step, by)
         IN  /\ \A o : o \in DOMAIN result <=>
                        \/ o \in DOMAIN schema /\ ~Cut(o, R)
                        \/ o \in new
             /\ \A o \in DOMAIN result :
                    result[o] = IF o \in new \cup step.alters THEN by ELSE schema[o]
             /\ new \subseteq Defines(step)
             /\ result = [o \in DOMAIN result |-> result[o]]
<1> DEFINE R == step.drops \cup step.discards
           left == Without(schema, R)
           new == Added(left, step)
           result == Apply(schema, step, by)
<1>1. result = [o \in DOMAIN left \cup new |-> IF o \in new \cup step.alters THEN by ELSE left[o]]
  BY DEF Apply
<1>2. /\ \A o : o \in DOMAIN left <=> o \in DOMAIN schema /\ ~Cut(o, R)
      /\ \A o \in DOMAIN left : left[o] = schema[o]
  BY WithoutFields
<1>3. new \subseteq Defines(step)
  BY DEF Added, Defines
<1> HIDE DEF left, new, result
<1>4. DOMAIN result = DOMAIN left \cup new
  BY <1>1
<1>5. \A o \in DOMAIN result :
        result[o] = IF o \in new \cup step.alters THEN by ELSE schema[o]
  BY <1>1, <1>2, <1>4
<1> QED BY <1>1, <1>2, <1>3, <1>4, <1>5 DEF result, new, left

\* The same, of a result that has a name.
LEMMA ResultFields ==
  ASSUME NEW schema, NEW step, NEW by,
         NEW result, result = Apply(schema, step, by),
         NEW R, R = step.drops \cup step.discards,
         NEW new, new = Added(Without(schema, R), step)
  PROVE  /\ \A o : o \in DOMAIN result <=>
                     \/ o \in DOMAIN schema /\ ~Cut(o, R)
                     \/ o \in new
         /\ \A o \in DOMAIN result :
                result[o] = IF o \in new \cup step.alters THEN by ELSE schema[o]
         /\ new \subseteq Defines(step)
<1> DEFINE rest == step.drops \cup step.discards
           more == Added(Without(schema, rest), step)
           res == Apply(schema, step, by)
<1>1. /\ \A o : o \in DOMAIN res <=>
                    \/ o \in DOMAIN schema /\ ~Cut(o, rest)
                    \/ o \in more
      /\ \A o \in DOMAIN res :
            res[o] = IF o \in more \cup step.alters THEN by ELSE schema[o]
      /\ more \subseteq Defines(step)
  BY AppliedFields
<1>2. rest = R
  OBVIOUS
<1>3. more = new
  BY <1>2
<1>4. res = result
  OBVIOUS
<1> HIDE DEF rest, more, res
<1> QED BY <1>1, <1>2, <1>3, <1>4

LEMMA StepKeepsSchema ==
  ASSUME NEW schema, IsSchema(schema), NEW step, Fits(schema, step),
         NEW by, by \in Definers \/ Defines(step) = {}
  PROVE  IsSchema(Apply(schema, step, by))
<1> DEFINE R == step.drops \cup step.discards
           new == Added(Without(schema, R), step)
           result == Apply(schema, step, by)
<1>1. /\ \A o : o \in DOMAIN result <=>
                    \/ o \in DOMAIN schema /\ ~Cut(o, R)
                    \/ o \in new
      /\ \A o \in DOMAIN result :
            result[o] = IF o \in new \cup step.alters THEN by ELSE schema[o]
      /\ new \subseteq Defines(step)
  BY AppliedFields
<1>2. \A o \in new : DependsOn(o) \subseteq DOMAIN Without(schema, R) \cup new
  BY DEF Fits
<1>3. \A o \in new : \A d \in DependsOn(o) : d \in DOMAIN result
  BY <1>1, <1>2, WithoutFields
<1> HIDE DEF new, result
<1>4. ASSUME NEW o \in DOMAIN schema, ~Cut(o, R), NEW d \in DependsOn(o)
      PROVE  d \in DOMAIN result
  <2>1. d \in DOMAIN schema
    BY DEF IsSchema
  <2>2. ~Cut(d, R)
    BY <1>4, Dependencies DEF Cut
  <2> QED BY <1>1, <2>1, <2>2
<1>5. \A o \in DOMAIN result : \A d \in DependsOn(o) : d \in DOMAIN result
  BY <1>1, <1>3, <1>4
<1>6. \A o \in DOMAIN result : result[o] \in Definers
  BY <1>1 DEF IsSchema, Defines
<1> QED BY <1>5, <1>6 DEF IsSchema, result

\* A table that has the columns its indexes are on.
LEMMA TableIsClosed ==
  ASSUME NEW t, NEW names, "table" \in names,
         \A n \in names : n \in DOMAIN On => On[n] \subseteq names
  PROVE  \A o \in Of(t, names) : o[1] = t /\ DependsOn(o) \subseteq Of(t, names)
<1> SUFFICES ASSUME NEW n \in names
             PROVE  DependsOn(<<t, n>>) \subseteq Of(t, names)
  BY DEF Of
<1>1. CASE n \in DOMAIN On
  <2>1. DependsOn(<<t, n>>) = {Table(t)} \cup Of(t, On[n])
    BY <1>1 DEF DependsOn
  <2> QED BY <1>1, <2>1 DEF Of, Table
<1>2. CASE n \notin DOMAIN On
  <2>1. DependsOn(<<t, n>>) = {Table(t)}
    BY <1>2 DEF DependsOn
  <2> QED BY <2>1 DEF Of, Table
<1> QED BY <1>1, <1>2

LEMMA ModelsAreClosed ==
  \A o \in Models.tables : \A d \in DependsOn(o) : d \in Models.tables /\ d[1] = o[1]
<1> DEFINE A == {"table", "id", "endpoint", "method", "api_type", "status_code",
                 "response_code", "response_msg", "ix_api_logs_id"}
           S == {"table", "id", "station_code", "name", "address", "provider", "location",
                 "created_at", "updated_at", "cs_id", "cs_nm", "addr", "lat", "longi",
                 "static_data_updated_at", "dynamic_data_updated_at", "ix_stations_id",
                 "ix_stations_station_code", "ix_stations_cs_id", "ix_stations_addr",
                 "idx_stations_location", "ix_stations_location"}
           C == {"table", "id", "station_id", "charger_code", "charger_type", "output_kw",
                 "connector_type", "status_code", "created_at", "updated_at", "cp_id", "cp_nm",
                 "charge_tp", "cp_tp", "cp_stat", "kepco_stat_update_datetime", "cs_id",
                 "ix_chargers_id", "ix_chargers_station_id", "_station_charger_uc",
                 "ix_chargers_cp_id", "ix_chargers_cp_stat", "ix_chargers_cs_id"}
           U == {"table", "id", "manufacturer", "model_group", "model_name",
                 "subsidy_national_10k_won", "subsidy_local_10k_won",
                 "subsidy_total_10k_won", "sale_price"}
           I == {"ix_subsidies_id", "ix_subsidies_manufacturer", "ix_subsidies_model_group"}
           V == {"table", "id", "username", "hashed_password", "role", "created_at",
                 "updated_at", "ix_users_id", "ix_users_role", "ix_users_username"}
           SX == {"external_bid", "external_cp_id", "raw_data", "last_synced_at", "cs_id"}
           CX == {"external_charger_id", "manufacturer", "model", "connector_types",
                  "cp_stat_raw", "stat_update_datetime"}
<1>1. Models.tables = {PostGIS} \cup Of("api_logs", A) \cup Of("stations", S)
            \cup Of("chargers", C) \cup ExternalColumns \cup KepcoFields
            \cup Of("subsidies", U) \cup SubsidyIndexes \cup Of("users", V)
  BY DEF Models, Pass
<1>2. /\ ExternalColumns \cup KepcoFields = Of("stations", SX) \cup Of("chargers", CX)
      /\ SubsidyIndexes = Of("subsidies", I)
  BY DEF ExternalColumns, KepcoFields, SubsidyIndexes, Of
<1>3. \A o \in Of("api_logs", A) : o[1] = "api_logs" /\ DependsOn(o) \subseteq Of("api_logs", A)
  <2>1. \A n \in A : n \in DOMAIN On => On[n] \subseteq A
    BY DEF On
  <2> HIDE DEF A
  <2> QED BY <2>1, TableIsClosed DEF A
<1>4. \A o \in Of("stations", S \cup SX) :
        o[1] = "stations" /\ DependsOn(o) \subseteq Of("stations", S \cup SX)
  <2>1. \A n \in S \cup SX : n \in DOMAIN On => On[n] \subseteq S \cup SX
    BY DEF On
  <2>2. "table" \in S \cup SX
    OBVIOUS
  <2> HIDE DEF S, SX
  <2> QED BY <2>1, <2>2, TableIsClosed
<1>5. \A o \in Of("chargers", C \cup CX) :
        o[1] = "chargers" /\ DependsOn(o) \subseteq Of("chargers", C \cup CX)
  <2>1. \A n \in C \cup CX : n \in DOMAIN On => On[n] \subseteq C \cup CX
    BY DEF On
  <2>2. "table" \in C \cup CX
    OBVIOUS
  <2> HIDE DEF C, CX
  <2> QED BY <2>1, <2>2, TableIsClosed
<1>6. \A o \in Of("subsidies", U \cup I) :
        o[1] = "subsidies" /\ DependsOn(o) \subseteq Of("subsidies", U \cup I)
  <2>1. \A n \in U \cup I : n \in DOMAIN On => On[n] \subseteq U \cup I
    BY DEF On
  <2>2. "table" \in U \cup I
    OBVIOUS
  <2> HIDE DEF U, I
  <2> QED BY <2>1, <2>2, TableIsClosed
<1>7. \A o \in Of("users", V) : o[1] = "users" /\ DependsOn(o) \subseteq Of("users", V)
  <2>1. \A n \in V : n \in DOMAIN On => On[n] \subseteq V
    BY DEF On
  <2>2. "table" \in V
    OBVIOUS
  <2> HIDE DEF V
  <2> QED BY <2>1, <2>2, TableIsClosed
<1>8. DependsOn(PostGIS) = {PostGIS}
  BY ColumnsAreNotIndexes DEF DependsOn, PostGIS, Table
<1> HIDE DEF A, S, C, U, I, V, SX, CX
<1>9. /\ Of("stations", S \cup SX) = Of("stations", S) \cup Of("stations", SX)
      /\ Of("chargers", C \cup CX) = Of("chargers", C) \cup Of("chargers", CX)
      /\ Of("subsidies", U \cup I) = Of("subsidies", U) \cup Of("subsidies", I)
  BY DEF Of
<1>10. Models.tables = {PostGIS} \cup Of("api_logs", A) \cup Of("stations", S \cup SX)
            \cup Of("chargers", C \cup CX) \cup Of("subsidies", U \cup I) \cup Of("users", V)
  BY <1>1, <1>2, <1>9
<1> QED BY <1>3, <1>4, <1>5, <1>6, <1>7, <1>8, <1>10, Dependencies

LEMMA ModelsFit ==
  ASSUME NEW schema
  PROVE  Fits(schema, Models) /\ Defines(Models) = Models.tables
<1>1. /\ Models.needs = {} /\ Models.types = {} /\ Models.drops = {} /\ Models.discards = {}
      /\ Models.creates = {} /\ Models.ensures = {} /\ Models.alters = {}
  BY DEF Models, Pass
<1>2. Without(schema, Models.drops \cup Models.discards) = schema
  BY <1>1 DEF Without
<1>3. Added(schema, Models) = {o \in Models.tables : Table(o[1]) \notin DOMAIN schema}
  BY <1>1 DEF Added
<1>4. \A o \in Added(schema, Models) : DependsOn(o) \subseteq Added(schema, Models)
  BY <1>3, ModelsAreClosed
<1>5. UNION {DependsOn(o) : o \in Added(schema, Models)} \subseteq Added(schema, Models)
  BY <1>4
<1>6. Fits(schema, Models)
  BY <1>1, <1>2, <1>5 DEF Fits
<1> QED BY <1>1, <1>6 DEF Defines

-----------------------------------------------------------------------------
(* The downgrades                                                          *)

\* The step defines nothing and drops R.
Drops(step, R) == Defines(step) = {} /\ step.drops \cup step.discards = R

\* All downgrades but three only drop.
LEMMA PlainDowngrades ==
  /\ Drops(Versions["60afb71f58fe"].downgrade,
           {Table("chargers"), Table("stations"), Table("api_logs")})
  /\ Drops(Versions["b7a145511e70"].downgrade, {})
  /\ Drops(Versions["d6b8f2f8579d"].downgrade, {})
  /\ Drops(Versions["daa5cac943ac"].downgrade, DropEverything.drops)
  /\ Drops(Versions["9508604ce511"].downgrade, DropEverything.drops)
  /\ Drops(Versions["aa1b2c3d4e5f"].downgrade, Of("stations", {"idx_stations_location"}))
  /\ Drops(Versions["bb_add_external_fields"].downgrade, ExternalColumns)
  /\ Drops(Versions["c1d2e3f4add"].downgrade, ChargerLocation)
  /\ Drops(Versions["0f42d4f96fa6"].downgrade, {})
  /\ Drops(Versions["20251020_add_kepco_fields"].downgrade, KepcoFields)
  /\ Drops(Versions["d8c47bac145f"].downgrade, {})
  /\ Drops(Versions["20251023_add_additional_kepco_fields"].downgrade, AdditionalFields)
  /\ Drops(Versions["20251025_add_station_api_compat"].downgrade, CompatFields)
  /\ Drops(Versions["20251025_add_cp_fields_migration"].downgrade, CpFields)
  /\ Drops(Versions["20251028_add_sale_price"].downgrade, SalePrice)
  /\ Drops(Versions["20251031_subsidy_data_migration"].downgrade, {})
<1>1. Drops(Rev_60afb71f58fe.downgrade,
            {Table("chargers"), Table("stations"), Table("api_logs")})
  BY DEF Rev_60afb71f58fe, Revision, Pass, Drops, Defines
<1>2. Drops(Rev_b7a145511e70.downgrade, {})
  BY DEF Rev_b7a145511e70, Revision, Pass, Drops, Defines
<1>3. Drops(Rev_d6b8f2f8579d.downgrade, {})
  BY DEF Rev_d6b8f2f8579d, Revision, Pass, Drops, Defines
<1>4. Drops(Rev_daa5cac943ac.downgrade, DropEverything.drops)
  BY DEF Rev_daa5cac943ac, Revision, Pass, Drops, Defines, DropEverything
<1>5. Drops(Rev_9508604ce511.downgrade, DropEverything.drops)
  BY DEF Rev_9508604ce511, Revision, Pass, Drops, Defines, DropEverything
<1>6. Drops(Rev_aa1b2c3d4e5f.downgrade, Of("stations", {"idx_stations_location"}))
  BY DEF Rev_aa1b2c3d4e5f, Revision, Pass, Drops, Defines
<1>7. Drops(Rev_bb_add_external_fields.downgrade, ExternalColumns)
  BY DEF Rev_bb_add_external_fields, Revision, Pass, Drops, Defines
<1>8. Drops(Rev_c1d2e3f4add.downgrade, ChargerLocation)
  BY DEF Rev_c1d2e3f4add, Revision, Pass, Drops, Defines
<1>9. Drops(Rev_0f42d4f96fa6.downgrade, {})
  BY DEF Rev_0f42d4f96fa6, Revision, Pass, Drops, Defines
<1>10. Drops(Rev_20251020_add_kepco_fields.downgrade, KepcoFields)
  BY DEF Rev_20251020_add_kepco_fields, Revision, Pass, Drops, Defines
<1>11. Drops(Rev_d8c47bac145f.downgrade, {})
  BY DEF Rev_d8c47bac145f, Revision, Pass, Drops, Defines
<1>12. Drops(Rev_20251023_add_additional_kepco_fields.downgrade, AdditionalFields)
  BY DEF Rev_20251023_add_additional_kepco_fields, Revision, Pass, Drops, Defines
<1>13. Drops(Rev_20251025_add_station_api_compat.downgrade, CompatFields)
  BY DEF Rev_20251025_add_station_api_compat, Revision, Pass, Drops, Defines
<1>14. Drops(Rev_20251025_add_cp_fields_migration.downgrade, CpFields)
  BY DEF Rev_20251025_add_cp_fields_migration, Revision, Pass, Drops, Defines
<1>15. Drops(Rev_20251028_add_sale_price.downgrade, SalePrice)
  BY DEF Rev_20251028_add_sale_price, Revision, Pass, Drops, Defines
<1>16. Drops(Rev_20251031_subsidy_data_migration.downgrade, {})
  BY DEF Rev_20251031_subsidy_data_migration, Revision, Pass, Drops, Defines
<1> QED BY RevisionsByName, <1>1, <1>2, <1>3, <1>4, <1>5, <1>6, <1>7, <1>8, <1>9, <1>10,
           <1>11, <1>12, <1>13, <1>14, <1>15, <1>16

LEMMA OtherDowngrades ==
  /\ Versions["a22583938b64"].downgrade = Downgrade_a22583938b64
  /\ Versions["a22583938b64"].restores = "60afb71f58fe"
  /\ Versions["82564d70969d"].downgrade = Downgrade_82564d70969d
  /\ Versions["82564d70969d"].restores = "legacy"
  /\ LET step == Versions["20251028_convert_kepco_ts_to_timestamptz"].downgrade
     IN  /\ Defines(step) = {Kepco} /\ step.creates = {Kepco}
         /\ step.drops = {Kepco} /\ step.discards = {}
  /\ Versions["20251028_convert_kepco_ts_to_timestamptz"].restores =
        "20251023_add_additional_kepco_fields"
<1>1. Rev_a22583938b64.downgrade = Downgrade_a22583938b64
  BY DEF Rev_a22583938b64, Revision
<1>2. Rev_a22583938b64.restores = "60afb71f58fe"
  BY DEF Rev_a22583938b64, Revision, Pass
<1>3. Rev_82564d70969d.downgrade = Downgrade_82564d70969d
  BY DEF Rev_82564d70969d, Revision
<1>4. Rev_82564d70969d.restores = "legacy"
  BY DEF Rev_82564d70969d, Revision, Pass
<1>5. LET step == Rev_20251028_convert_kepco_ts_to_timestamptz.downgrade
      IN  /\ Defines(step) = {Kepco} /\ step.creates = {Kepco}
          /\ step.drops = {Kepco} /\ step.discards = {}
  BY DEF Rev_20251028_convert_kepco_ts_to_timestamptz, Revision, Pass, Defines
<1>6. Rev_20251028_convert_kepco_ts_to_timestamptz.restores =
        "20251023_add_additional_kepco_fields"
  BY DEF Rev_20251028_convert_kepco_ts_to_timestamptz, Revision, Pass
<1> QED BY RevisionsByName, <1>1, <1>2, <1>3, <1>4, <1>5, <1>6

\* What a downgrade brings back has an author.
LEMMA Restorers ==
  ASSUME NEW r \in Revisions
  PROVE  Versions[r].restores \in Definers \/ Defines(Versions[r].downgrade) = {}
BY RevisionNames, PlainDowngrades, OtherDowngrades DEF Drops, Definers

-----------------------------------------------------------------------------
(* Types                                                                   *)

LEMMA NewSchemas ==
  IsSchema(NoSchema) /\ IsSchema(OnlyPostGIS) /\ OnlyPostGIS[PostGIS] = "postgis"
<1>1. DependsOn(PostGIS) = {PostGIS}
  BY ColumnsAreNotIndexes DEF DependsOn, PostGIS, Table
<1>2. DOMAIN OnlyPostGIS = {PostGIS} /\ OnlyPostGIS[PostGIS] = "postgis"
  BY DEF OnlyPostGIS
<1> QED BY <1>1, <1>2, NoTxFields DEF IsSchema, Definers

\* TypeOK, but for what VersionInv says.
SchemaInv ==
    /\ IsSchema(db.schema) /\ IsSchema(tx.schema)
    /\ failure = [cmd |-> failure.cmd, why |-> failure.why, rev |-> failure.rev]
    /\ failure.cmd \in {"none", "upgrade", "downgrade", "upgrade head"}
    /\ failure.why \in {"none", "schema", "multiple heads"}
    /\ failure.rev \in Revisions \cup {"none"}
    /\ ran \subseteq Revisions
    /\ touched \subseteq {"downgrade", "models"}
    /\ repairs \in 0 .. MaxRepairs

LEMMA FailureFields ==
  /\ NoFailure = [cmd |-> NoFailure.cmd, why |-> NoFailure.why, rev |-> NoFailure.rev]
  /\ NoFailure.cmd = "none" /\ NoFailure.why = "none" /\ NoFailure.rev = "none"
BY DEF NoFailure

LEMMA SchemaInvInductive ==
  ASSUME VersionInv, SchemaInv, [Next]_vars
  PROVE  SchemaInv'
<1>1. ASSUME NEW cmd, NEW todo, Begin(cmd, todo), repairs' \in 0 .. MaxRepairs
      PROVE  SchemaInv'
  <2>1. tx'.schema = db.schema /\ db' = db /\ failure' = NoFailure /\ UNCHANGED <<ran, touched>>
    BY <1>1 DEF Begin
  <2> QED BY <1>1, <2>1, FailureFields DEF SchemaInv
<1>2. Repair => repairs' \in 0 .. MaxRepairs
  <2>1. repairs \in 0 .. MaxRepairs /\ MaxRepairs \in Nat
    BY RepairBound DEF SchemaInv
  <2> QED BY <2>1 DEF Repair
<1>3. repairs' = repairs => repairs' \in 0 .. MaxRepairs
  BY DEF SchemaInv
<1>4. CASE UpgradeHeads \/ UpgradeTo
  BY <1>1, <1>3, <1>4 DEF UpgradeHeads, UpgradeTo
<1>5. CASE DowngradeTo \/ DowngradeBase
  BY <1>1, <1>2, <1>5 DEF DowngradeTo, DowngradeBase
<1>6. CASE UpgradeHead
  BY <1>6 DEF UpgradeHead, SchemaInv
<1>7. CASE StampDaa5
  <2>1. db'.schema = db.schema /\ UNCHANGED <<tx, ran, touched>> /\ failure' = NoFailure
        /\ Repair
    BY <1>7 DEF StampDaa5, VersionInv
  <2> QED BY <1>2, <2>1, FailureFields DEF SchemaInv
<1>8. CASE InitDb
  <2>1. db'.schema = Apply(db.schema, Models, "models") /\ UNCHANGED <<tx, ran>>
        /\ touched' = touched \cup {"models"} /\ failure' = NoFailure /\ Repair
    BY <1>8 DEF InitDb, VersionInv
  <2>2. IsSchema(Apply(db.schema, Models, "models"))
    BY ModelsFit, StepKeepsSchema DEF SchemaInv, Definers
  <2> QED BY <1>2, <2>1, <2>2, FailureFields DEF SchemaInv
<1>9. CASE RunUpgrade
  <2>1. PICK r \in Revisions :
          /\ Fits(tx.schema, Versions[r].upgrade)
          /\ tx'.schema = Apply(tx.schema, Versions[r].upgrade, r)
          /\ UNCHANGED <<db, failure, ran, touched, repairs>>
    BY <1>9, UpgradeRun DEF IsTx
  <2>2. IsSchema(Apply(tx.schema, Versions[r].upgrade, r))
    BY <2>1, StepKeepsSchema DEF SchemaInv, Definers
  <2> QED BY <2>1, <2>2 DEF SchemaInv
<1>10. CASE RunDowngrade
  <2>1. PICK r \in Revisions :
          /\ Fits(tx.schema, Versions[r].downgrade)
          /\ tx'.schema = Apply(tx.schema, Versions[r].downgrade, Versions[r].restores)
          /\ UNCHANGED <<db, failure, ran, touched, repairs>>
    BY <1>10, DowngradeRun DEF IsTx
  <2>2. IsSchema(Apply(tx.schema, Versions[r].downgrade, Versions[r].restores))
    BY <2>1, StepKeepsSchema, Restorers DEF SchemaInv
  <2> QED BY <2>1, <2>2 DEF SchemaInv
<1>11. CASE RevisionFails
  <2>1. PICK r \in Revisions :
          /\ failure' = [cmd |-> tx.cmd, why |-> "schema", rev |-> r] /\ tx' = NoTx
          /\ UNCHANGED <<db, ran, touched, repairs>>
    BY <1>11 DEF RevisionFails
  <2> QED BY <2>1, NoTxFields, NewSchemas DEF SchemaInv, VersionInv
<1>12. CASE Interrupted
  BY <1>12, NoTxFields, NewSchemas DEF Interrupted, SchemaInv
<1>13. CASE Commit
  <2>1. /\ db'.schema = tx.schema /\ tx' = NoTx /\ UNCHANGED <<failure, repairs>>
        /\ touched' \subseteq touched \cup {"downgrade"}
    BY <1>13 DEF Commit
  <2>2. ran' \subseteq ran \cup Applied(tx.version) \cup Applied(db.version)
    BY <1>13 DEF Commit
  <2>3. Applied(tx.version) \subseteq Revisions /\ Applied(db.version) \subseteq Revisions
    BY AppliedIsClosed DEF VersionInv, IsVersion
  <2> QED BY <2>1, <2>2, <2>3, NoTxFields, NewSchemas DEF SchemaInv
<1>14. CASE UNCHANGED vars
  BY <1>14 DEF vars, SchemaInv
<1> QED BY <1>4, <1>5, <1>6, <1>7, <1>8, <1>9, <1>10, <1>11, <1>12, <1>13, <1>14 DEF Next

LEMMA SchemaInvHolds == Spec => []SchemaInv
<1>1. Init => SchemaInv
  <2> SUFFICES ASSUME Init
               PROVE  SchemaInv
    OBVIOUS
  <2>1. db.schema \in {NoSchema, OnlyPostGIS} /\ tx.schema = NoSchema
    BY NoTxFields DEF Init
  <2>2. failure = NoFailure /\ ran = {} /\ touched = {} /\ repairs = 0
    BY DEF Init
  <2> QED BY <2>1, <2>2, NewSchemas, FailureFields, RepairBound DEF SchemaInv
<1> QED BY <1>1, SchemaInvInductive, VersionInvHolds, PTL DEF Spec

\* In every order of commands, the schema is closed under what its objects
\* depend on, each object has an author, and the rows of alembic_version are
\* the latest revisions of their branches.
THEOREM MigrationsTypeCorrect == Spec => []TypeOK
<1>1. VersionInv /\ SchemaInv => TypeOK
  BY DEF VersionInv, SchemaInv, TypeOK
<1> QED BY <1>1, VersionInvHolds, SchemaInvHolds, PTL

-----------------------------------------------------------------------------
(* The upgrades                                                            *)

\* The step has these fields, and drops and alters nothing.
Adds(step, needs, creates, tables, ensures) ==
    /\ step.needs = needs /\ step.creates = creates
    /\ step.tables = tables /\ step.ensures = ensures
    /\ step.types = {} /\ step.alters = {} /\ step.drops = {} /\ step.discards = {}

\* All upgrades but three only add.
LEMMA PlainUpgrades ==
  /\ Adds(Versions["60afb71f58fe"].upgrade,
          {PostGIS}, {}, Rev_60afb71f58fe.upgrade.tables, Rev_60afb71f58fe.upgrade.ensures)
  /\ Adds(Versions["b7a145511e70"].upgrade, {}, {}, {}, {})
  /\ Adds(Versions["d6b8f2f8579d"].upgrade, {}, {}, {}, {})
  /\ Adds(Versions["daa5cac943ac"].upgrade, {}, Rev_daa5cac943ac.upgrade.creates, {}, {})
  /\ Adds(Versions["9508604ce511"].upgrade, {}, {}, {}, {})
  /\ Adds(Versions["aa1b2c3d4e5f"].upgrade,
          {}, {}, {PostGIS}, Of("stations", {"idx_stations_location"}))
  /\ Adds(Versions["bb_add_external_fields"].upgrade, {}, {}, {}, ExternalColumns)
  /\ Adds(Versions["c1d2e3f4add"].upgrade, {PostGIS}, {}, {}, ChargerLocation)
  /\ Adds(Versions["0f42d4f96fa6"].upgrade, {}, {}, {}, {})
  /\ Adds(Versions["20251020_add_kepco_fields"].upgrade, {}, {}, {}, KepcoFields)
  /\ Adds(Versions["d8c47bac145f"].upgrade, {}, {}, {}, {})
  /\ Adds(Versions["20251023_add_additional_kepco_fields"].upgrade,
          {}, {}, {}, AdditionalFields)
  /\ Adds(Versions["20251025_add_station_api_compat"].upgrade,
          Rev_20251025_add_station_api_compat.upgrade.needs, {}, {}, CompatFields)
  /\ Adds(Versions["20251025_add_cp_fields_migration"].upgrade, {}, {}, {}, CpFields)
  /\ Adds(Versions["20251028_add_sale_price"].upgrade, {}, SalePrice, {}, {})
  /\ Adds(Versions["20251031_subsidy_data_migration"].upgrade,
          Of("subsidies", {"model_name"}), {}, {}, {})
<1>1. Adds(Rev_60afb71f58fe.upgrade,
           {PostGIS}, {}, Rev_60afb71f58fe.upgrade.tables, Rev_60afb71f58fe.upgrade.ensures)
  BY DEF Rev_60afb71f58fe, Revision, Pass, Adds
<1>2. Adds(Rev_b7a145511e70.upgrade, {}, {}, {}, {})
  BY DEF Rev_b7a145511e70, Revision, Pass, Adds
<1>3. Adds(Rev_d6b8f2f8579d.upgrade, {}, {}, {}, {})
  BY DEF Rev_d6b8f2f8579d, Revision, Pass, Adds
<1>4. Adds(Rev_daa5cac943ac.upgrade, {}, Rev_daa5cac943ac.upgrade.creates, {}, {})
  BY DEF Rev_daa5cac943ac, Revision, Pass, Adds
<1>5. Adds(Rev_9508604ce511.upgrade, {}, {}, {}, {})
  BY DEF Rev_9508604ce511, Revision, Pass, Adds
<1>6. Adds(Rev_aa1b2c3d4e5f.upgrade,
           {}, {}, {PostGIS}, Of("stations", {"idx_stations_location"}))
  BY DEF Rev_aa1b2c3d4e5f, Revision, Pass, Adds
<1>7. Adds(Rev_bb_add_external_fields.upgrade, {}, {}, {}, ExternalColumns)
  BY DEF Rev_bb_add_external_fields, Revision, Pass, Adds
<1>8. Adds(Rev_c1d2e3f4add.upgrade, {PostGIS}, {}, {}, ChargerLocation)
  BY DEF Rev_c1d2e3f4add, Revision, Pass, Adds
<1>9. Adds(Rev_0f42d4f96fa6.upgrade, {}, {}, {}, {})
  BY DEF Rev_0f42d4f96fa6, Revision, Pass, Adds
<1>10. Adds(Rev_20251020_add_kepco_fields.upgrade, {}, {}, {}, KepcoFields)
  BY DEF Rev_20251020_add_kepco_fields, Revision, Pass, Adds
<1>11. Adds(Rev_d8c47bac145f.upgrade, {}, {}, {}, {})
  BY DEF Rev_d8c47bac145f, Revision, Pass, Adds
<1>12. Adds(Rev_20251023_add_additional_kepco_fields.upgrade, {}, {}, {}, AdditionalFields)
  BY DEF Rev_20251023_add_additional_kepco_fields, Revision, Pass, Adds
<1>13. Adds(Rev_20251025_add_station_api_compat.upgrade,
           Rev_20251025_add_station_api_compat.upgrade.needs, {}, {}, CompatFields)
  BY DEF Rev_20251025_add_station_api_compat, Revision, Pass, Adds
<1>14. Adds(Rev_20251025_add_cp_fields_migration.upgrade, {}, {}, {}, CpFields)
  BY DEF Rev_20251025_add_cp_fields_migration, Revision, Pass, Adds
<1>15. Adds(Rev_20251028_add_sale_price.upgrade, {}, SalePrice, {}, {})
  BY DEF Rev_20251028_add_sale_price, Revision, Pass, Adds
<1>16. Adds(Rev_20251031_subsidy_data_migration.upgrade,
           Of("subsidies", {"model_name"}), {}, {}, {})
  BY DEF Rev_20251031_subsidy_data_migration, Revision, Pass, Adds
<1> QED BY RevisionsByName, <1>1, <1>2, <1>3, <1>4, <1>5, <1>6, <1>7, <1>8, <1>9, <1>10,
           <1>11, <1>12, <1>13, <1>14, <1>15, <1>16

LEMMA OtherUpgrades ==
  /\ LET step == Versions["a22583938b64"].upgrade
     IN  /\ step.needs = Of("api_logs", {"response_code"}) \cup
                         Of("chargers", {"charger_type", "connector_type", "status_code"})
         /\ step.drops = Of("api_logs", {"request_time", "response_time_ms", "response_msg"})
         /\ step.discards = LegacyTables \cup Of("chargers", {"uq_station_charger_code"})
         /\ step.creates = Of("chargers", {"_station_charger_uc"})
         /\ step.alters = ApiLogFields \cup Of("chargers", {"charger_code", "output_kw"})
         /\ step.types = {} /\ step.tables = {} /\ step.ensures = {}
  /\ LET step == Versions["82564d70969d"].upgrade
     IN  /\ step.needs = Commented
         /\ step.creates =
                Of("subsidies", {"table", "id", "manufacturer", "model_group", "model_name",
                    "subsidy_national_10k_won", "subsidy_local_10k_won",
                    "subsidy_total_10k_won"}) \cup
                SubsidyIndexes \cup Of("api_logs", {"response_msg"})
         /\ step.discards = Of("stations", {"ix_stations_name"})
         /\ step.drops = {} /\ step.types = {} /\ step.tables = {} /\ step.ensures = {}
         /\ step.alters = {}
  /\ LET step == Versions["20251028_convert_kepco_ts_to_timestamptz"].upgrade
     IN  /\ step.types = {[of |-> Kepco, by |-> TextKepco]}
         /\ step.drops = {Kepco} /\ step.creates = {Kepco}
         /\ step.needs = {} /\ step.discards = {} /\ step.tables = {} /\ step.ensures = {}
         /\ step.alters = {}
<1> DEFINE a22 == Rev_a22583938b64.upgrade
           r82 == Rev_82564d70969d.upgrade
           tz == Rev_20251028_convert_kepco_ts_to_timestamptz.upgrade
<1>1. /\ a22.needs = Of("api_logs", {"response_code"}) \cup
                     Of("chargers", {"charger_type", "connector_type", "status_code"})
      /\ a22.drops = Of("api_logs", {"request_time", "response_time_ms", "response_msg"})
      /\ a22.discards = LegacyTables \cup Of("chargers", {"uq_station_charger_code"})
      /\ a22.creates = Of("chargers", {"_station_charger_uc"})
      /\ a22.alters = ApiLogFields \cup Of("chargers", {"charger_code", "output_kw"})
      /\ a22.types = {} /\ a22.tables = {} /\ a22.ensures = {}
  BY DEF Rev_a22583938b64, Revision, Pass
<1>2. /\ r82.needs = Commented
      /\ r82.creates =
            Of("subsidies", {"table", "id", "manufacturer", "model_group", "model_name",
                "subsidy_national_10k_won", "subsidy_local_10k_won",
                "subsidy_total_10k_won"}) \cup
            SubsidyIndexes \cup Of("api_logs", {"response_msg"})
      /\ r82.discards = Of("stations", {"ix_stations_name"})
      /\ r82.drops = {} /\ r82.types = {} /\ r82.tables = {} /\ r82.ensures = {}
      /\ r82.alters = {}
  BY DEF Rev_82564d70969d, Revision, Pass
<1>3. /\ tz.types = {[of |-> Kepco, by |-> TextKepco]}
      /\ tz.drops = {Kepco} /\ tz.creates = {Kepco}
      /\ tz.needs = {} /\ tz.discards = {} /\ tz.tables = {} /\ tz.ensures = {}
      /\ tz.alters = {}
  BY DEF Rev_20251028_convert_kepco_ts_to_timestamptz, Revision, Pass
<1> HIDE DEF a22, r82, tz
<1> QED BY RevisionsByName, <1>1, <1>2, <1>3 DEF a22, r82, tz

-----------------------------------------------------------------------------
(* Upgrades keep what is served                                            *)

LEMMA ServedNames ==
  \A o \in Served : /\ o[1] \in {"stations", "chargers", "subsidies"}
                    /\ o[2] \notin {"ix_stations_name", "uq_station_charger_code"}
BY DEF Served, SearchNames, StationNames, DetailNames, ChargerNames, SubsidyNames, Of

\* What an upgrade never drops.
Kept == Served \cup {PostGIS}

\* Nothing stands or falls with an index, or with the column Kepco.
LEMMA CutByIndex ==
  ASSUME NEW o, NEW d, d[2] \in DOMAIN On \cup {"kepco_stat_update_datetime"}
  PROVE  d \notin DependsOn(o)
<1>1. \A n \in DOMAIN On : "kepco_stat_update_datetime" \notin On[n]
  BY DEF On
<1>2. ASSUME d \in DependsOn(o), d[2] = "kepco_stat_update_datetime"
      PROVE  FALSE
  <2>1. d # Table(o[1])
    BY <1>2 DEF Table
  <2>2. o[2] \in DOMAIN On /\ d \in Of(o[1], On[o[2]])
    BY <1>2, <2>1 DEF DependsOn
  <2>3. d[2] \in On[o[2]]
    BY <2>2 DEF Of
  <2> QED BY <1>1, <1>2, <2>2, <2>3
<1> QED BY <1>2, Dependencies

LEMMA OnlyThreeDrop ==
  ASSUME NEW r \in Revisions
  PROVE  \/ Versions[r].upgrade.drops = {} /\ Versions[r].upgrade.discards = {}
         \/ r \in {"a22583938b64", "82564d70969d",
                  "20251028_convert_kepco_ts_to_timestamptz"}
<1> DEFINE none(q) == Versions[q].upgrade.drops = {} /\ Versions[q].upgrade.discards = {}
<1>1. /\ none("60afb71f58fe") /\ none("b7a145511e70") /\ none("d6b8f2f8579d")
      /\ none("daa5cac943ac") /\ none("9508604ce511") /\ none("aa1b2c3d4e5f")
      /\ none("bb_add_external_fields") /\ none("c1d2e3f4add")
  BY PlainUpgrades DEF Adds
<1>2. /\ none("0f42d4f96fa6") /\ none("20251020_add_kepco_fields") /\ none("d8c47bac145f")
      /\ none("20251023_add_additional_kepco_fields")
      /\ none("20251025_add_station_api_compat")
      /\ none("20251025_add_cp_fields_migration")
      /\ none("20251028_add_sale_price") /\ none("20251031_subsidy_data_migration")
  BY PlainUpgrades DEF Adds
<1>3. none(r) \/ r \in {"a22583938b64", "82564d70969d",
                        "20251028_convert_kepco_ts_to_timestamptz"}
  <2> HIDE DEF none
  <2> QED BY <1>1, <1>2, RevisionNames
<1> QED BY <1>3

LEMMA UpgradeKeeps ==
  ASSUME NEW schema, NEW r \in Revisions, NEW o \in Kept \cap DOMAIN schema
  PROVE  o \in DOMAIN Apply(schema, Versions[r].upgrade, r)
<1> DEFINE step == Versions[r].upgrade
           R == step.drops \cup step.discards
<1>1. \/ ~Cut(o, R)
      \/ o \in Added(Without(schema, R), step)
      => o \in DOMAIN Apply(schema, step, r)
  BY AppliedFields
<1>2. o[1] \in {"stations", "chargers", "subsidies", "spatial_ref_sys"}
      /\ o[2] \notin {"ix_stations_name", "uq_station_charger_code"}
  BY ServedNames DEF Kept, PostGIS, Table
<1>3. CASE R = {}
  BY <1>1, <1>3 DEF Cut
<1>4. CASE r = "a22583938b64"
  <2>1. \A d \in R : /\ d[1] \in {"api_logs", "api_log", "station", "charger"}
                        \/ d = <<"chargers", "uq_station_charger_code">>
    BY <1>4, OtherUpgrades DEF LegacyTables, Of, Table
  <2>2. ASSUME NEW d \in R
        PROVE  d # o /\ d \notin DependsOn(o)
    <3>1. CASE d[1] \in {"api_logs", "api_log", "station", "charger"}
      BY <1>2, <3>1, Dependencies
    <3>2. CASE d = <<"chargers", "uq_station_charger_code">>
      <4>1. d[2] \in DOMAIN On
        BY <3>2 DEF On
      <4> QED BY <1>2, <3>2, <4>1, CutByIndex
    <3> QED BY <2>1, <3>1, <3>2
  <2> QED BY <1>1, <2>2 DEF Cut
<1>5. CASE r = "82564d70969d"
  <2>1. R = {<<"stations", "ix_stations_name">>}
    BY <1>5, OtherUpgrades DEF Of
  <2>2. "ix_stations_name" \in DOMAIN On
    BY DEF On
  <2> QED BY <1>1, <1>2, <2>1, <2>2, CutByIndex DEF Cut
<1>6. CASE r = "20251028_convert_kepco_ts_to_timestamptz"
  <2>1. R = {Kepco} /\ step.creates = {Kepco}
    BY <1>6, OtherUpgrades
  <2>2. Kepco[2] = "kepco_stat_update_datetime"
    BY DEF Kepco
  <2>3. Kepco \notin DependsOn(o)
    BY <2>2, CutByIndex
  <2>4. o = Kepco => o \in Added(Without(schema, R), step)
    BY <2>1 DEF Added
  <2> QED BY <1>1, <2>1, <2>3, <2>4 DEF Cut
<1>7. R = {} \/ r \in {"a22583938b64", "82564d70969d",
                       "20251028_convert_kepco_ts_to_timestamptz"}
  <2>1. \A q \in Revisions : \/ Versions[q].upgrade.drops = {} /\ Versions[q].upgrade.discards = {}
                            \/ q \in {"a22583938b64", "82564d70969d",
                                     "20251028_convert_kepco_ts_to_timestamptz"}
    BY OnlyThreeDrop
  <2> QED BY <2>1
<1> QED BY <1>3, <1>4, <1>5, <1>6, <1>7

\* An upgrade under way has taken nothing away that is served.
KeptInv == tx.cmd = "upgrade" => Kept \cap DOMAIN db.schema \subseteq DOMAIN tx.schema

LEMMA KeptInvInductive ==
  ASSUME VersionInv, KeptInv, [Next]_vars
  PROVE  KeptInv'
<1>1. ASSUME NEW cmd, NEW todo, Begin(cmd, todo)
      PROVE  KeptInv'
  <2>1. tx'.schema = db.schema /\ db' = db
    BY <1>1 DEF Begin
  <2> QED BY <2>1 DEF KeptInv
<1>2. CASE UpgradeHeads \/ UpgradeTo \/ DowngradeTo \/ DowngradeBase
  BY <1>1, <1>2 DEF UpgradeHeads, UpgradeTo, DowngradeTo, DowngradeBase
<1>3. CASE tx' = NoTx
  BY <1>3, NoTxFields DEF KeptInv
<1>4. CASE UpgradeHead \/ StampDaa5 \/ InitDb
  BY <1>3, <1>4 DEF UpgradeHead, StampDaa5, InitDb
<1>5. CASE RevisionFails \/ Interrupted \/ Commit
  BY <1>3, <1>5 DEF RevisionFails, Interrupted, Commit
<1>6. CASE RunUpgrade
  <2>1. PICK r \in Revisions : /\ tx.cmd = "upgrade" /\ db' = db
                               /\ tx'.schema = Apply(tx.schema, Versions[r].upgrade, r)
    BY <1>6, UpgradeRun DEF IsTx
  <2> QED BY <2>1, UpgradeKeeps DEF KeptInv
<1>7. CASE RunDowngrade
  <2>1. tx'.cmd = "downgrade"
    BY <1>7, DowngradeRun DEF IsTx
  <2> QED BY <2>1 DEF KeptInv
<1>8. CASE UNCHANGED vars
  BY <1>8 DEF vars, KeptInv
<1> QED BY <1>2, <1>4, <1>5, <1>6, <1>7, <1>8 DEF Next

LEMMA KeptInvHolds == Spec => []KeptInv
<1>1. Init => KeptInv
  BY NoTxFields DEF Init, KeptInv
<1> QED BY <1>1, KeptInvInductive, VersionInvHolds, PTL DEF Spec

\* While an upgrade runs next to the handlers, and when it commits, it takes
\* away nothing their statements name, whatever happened to the schema before.
THEOREM UpgradesKeepServed == Spec => ServedSurvive
<1>1. VersionInv /\ KeptInv /\ [Next]_vars =>
        (tx.cmd = "upgrade" => Served \cap DOMAIN db.schema \subseteq DOMAIN db'.schema)
  <2> SUFFICES ASSUME VersionInv, KeptInv, [Next]_vars, tx.cmd = "upgrade"
               PROVE  Served \cap DOMAIN db.schema \subseteq DOMAIN db'.schema
    OBVIOUS
  <2>1. tx # NoTx
    BY NoTxFields
  <2>2. CASE Commit
    BY <2>2 DEF Commit, KeptInv, Kept
  <2>3. CASE db' = db
    BY <2>3
  <2>4. Commit \/ db' = db
    BY <2>1 DEF Next, vars, Begin, UpgradeHeads, UpgradeTo, UpgradeHead, DowngradeTo,
                DowngradeBase, StampDaa5, InitDb, RunUpgrade, RunDowngrade, RevisionFails,
                Interrupted
  <2> QED BY <2>2, <2>3, <2>4
<1>2. VersionInv /\ KeptInv /\ [Next]_vars =>
        [tx.cmd = "upgrade" => Served \cap DOMAIN db.schema \subseteq DOMAIN db'.schema]_vars
  BY <1>1
<1> QED BY <1>2, VersionInvHolds, KeptInvHolds, PTL DEF Spec, ServedSurvive

-----------------------------------------------------------------------------
(* Authors of definitions                                                  *)

BaseTables == {Table("stations"), Table("chargers")}

\* What the first revision defines is of these tables.
LEMMA FirstRevision ==
  \A o \in Defines(Versions["60afb71f58fe"].upgrade) :
        o[1] \in {"api_logs", "stations", "chargers"}
<1>1. Defines(Versions["60afb71f58fe"].upgrade) =
        Rev_60afb71f58fe.upgrade.tables \cup Rev_60afb71f58fe.upgrade.ensures
  BY PlainUpgrades DEF Adds, Defines
<1>2. Rev_60afb71f58fe.upgrade.tables =
        Of("api_logs", {"table", "id", "endpoint", "method", "api_type", "request_time",
            "status_code", "response_code", "response_msg", "response_time_ms"}) \cup
        Of("stations", {"table", "id", "station_code", "name", "address", "location",
            "provider", "created_at", "updated_at"}) \cup
        Of("chargers", {"table", "id", "station_id", "charger_code", "charger_type",
            "output_kw", "connector_type", "status_code", "created_at", "updated_at"})
  BY DEF Rev_60afb71f58fe, Revision, Pass
<1>3. Rev_60afb71f58fe.upgrade.ensures =
        Of("api_logs", {"ix_api_logs_id"}) \cup
        Of("stations", {"ix_stations_station_code", "ix_stations_id",
            "idx_stations_location"}) \cup
        Of("chargers", {"ix_chargers_id", "ix_chargers_station_id"})
  BY DEF Rev_60afb71f58fe, Revision, Pass
<1>4. \A t, names : \A o \in Of(t, names) : o[1] = t
  BY DEF Of
<1> QED BY <1>1, <1>2, <1>3, <1>4

LEMMA UpgradesDefine ==
  /\ \A r \in {"b7a145511e70", "d6b8f2f8579d", "9508604ce511", "0f42d4f96fa6",
               "d8c47bac145f", "20251031_subsidy_data_migration"} :
        Defines(Versions[r].upgrade) = {}
  /\ Defines(Versions["aa1b2c3d4e5f"].upgrade) =
        {PostGIS} \cup Of("stations", {"idx_stations_location"})
  /\ Defines(Versions["bb_add_external_fields"].upgrade) = ExternalColumns
  /\ Defines(Versions["c1d2e3f4add"].upgrade) = ChargerLocation
  /\ Defines(Versions["20251020_add_kepco_fields"].upgrade) = KepcoFields
  /\ Defines(Versions["20251023_add_additional_kepco_fields"].upgrade) = AdditionalFields
  /\ Defines(Versions["20251025_add_station_api_compat"].upgrade) = CompatFields
  /\ Defines(Versions["20251025_add_cp_fields_migration"].upgrade) = CpFields
  /\ Defines(Versions["20251028_add_sale_price"].upgrade) = SalePrice
  /\ Defines(Versions["20251028_convert_kepco_ts_to_timestamptz"].upgrade) = {Kepco}
<1>1. \A r \in {"b7a145511e70", "d6b8f2f8579d", "9508604ce511", "0f42d4f96fa6",
                "d8c47bac145f", "20251031_subsidy_data_migration"} :
        Defines(Versions[r].upgrade) = {}
  <2> DEFINE none(r) == Defines(Versions[r].upgrade) = {}
  <2>1. none("b7a145511e70") /\ none("d6b8f2f8579d") /\ none("9508604ce511")
    BY PlainUpgrades DEF Adds, Defines
  <2>2. none("0f42d4f96fa6") /\ none("d8c47bac145f") /\ none("20251031_subsidy_data_migration")
    BY PlainUpgrades DEF Adds, Defines
  <2> HIDE DEF none
  <2>3. \A r \in {"b7a145511e70", "d6b8f2f8579d", "9508604ce511", "0f42d4f96fa6",
                 "d8c47bac145f", "20251031_subsidy_data_migration"} : none(r)
    BY <2>1, <2>2
  <2> QED BY <2>3 DEF none
<1>2. /\ Defines(Versions["aa1b2c3d4e5f"].upgrade) =
            {PostGIS} \cup Of("stations", {"idx_stations_location"})
      /\ Defines(Versions["bb_add_external_fields"].upgrade) = ExternalColumns
      /\ Defines(Versions["c1d2e3f4add"].upgrade) = ChargerLocation
      /\ Defines(Versions["20251020_add_kepco_fields"].upgrade) = KepcoFields
  BY PlainUpgrades, SMTT(20) DEF Adds, Defines
<1>3. /\ Defines(Versions["20251023_add_additional_kepco_fields"].upgrade) = AdditionalFields
      /\ Defines(Versions["20251025_add_station_api_compat"].upgrade) = CompatFields
      /\ Defines(Versions["20251025_add_cp_fields_migration"].upgrade) = CpFields
      /\ Defines(Versions["20251028_add_sale_price"].upgrade) = SalePrice
  BY PlainUpgrades DEF Adds, Defines
<1>4. Defines(Versions["20251028_convert_kepco_ts_to_timestamptz"].upgrade) = {Kepco}
  BY OtherUpgrades DEF Defines
<1> QED BY <1>1, <1>2, <1>3, <1>4

LEMMA UsersOf_daa5cac943ac ==
  \A o \in Defines(Versions["daa5cac943ac"].upgrade) : o[1] = "users"
<1>1. Defines(Versions["daa5cac943ac"].upgrade) = Rev_daa5cac943ac.upgrade.creates
  BY PlainUpgrades DEF Adds, Defines
<1>2. \A o \in Rev_daa5cac943ac.upgrade.creates : o[1] = "users"
  BY DEF Rev_daa5cac943ac, Revision, Pass, Of
<1> QED BY <1>1, <1>2

LEMMA SubsidiesOf_82564d70969d ==
  \A o \in Defines(Versions["82564d70969d"].upgrade) :
        o[1] = "subsidies" \/ o \in Of("api_logs", {"response_msg"})
BY OtherUpgrades DEF Defines, SubsidyIndexes, Of

LEMMA ColumnsOf_a22583938b64 ==
  \A o \in Defines(Versions["a22583938b64"].upgrade) :
        o[1] \in {"api_logs", "chargers"} /\ o[2] # "table"
BY OtherUpgrades DEF Defines, ApiLogFields, Of

\* Only the first revision defines the tables of stations and of chargers, and
\* only the second on its branch that of the extension.
LEMMA DefinersOfTables ==
  ASSUME NEW r \in Revisions, NEW o \in Defines(Versions[r].upgrade)
  PROVE  /\ o \in BaseTables => r = "60afb71f58fe"
         /\ o = PostGIS => r = "aa1b2c3d4e5f"
<1> DEFINE Column(x) == x[1] \in {"stations", "chargers"} /\ x[2] # "table"
<1>1. \A x \in ExternalColumns \cup ChargerLocation \cup KepcoFields : Column(x)
  BY DEF ExternalColumns, ChargerLocation, KepcoFields, Of
<1>2. \A x \in AdditionalFields \cup CompatFields \cup CpFields \cup {Kepco} : Column(x)
  BY DEF AdditionalFields, CompatFields, CpFields, Kepco, Of
<1>3. \A x \in SalePrice : x[1] = "subsidies"
  BY DEF SalePrice, Of
<1>4. \A x \in Of("stations", {"idx_stations_location"}) : Column(x)
  BY DEF Of
<1>5. Column(o) => o \notin BaseTables \cup {PostGIS}
  BY DEF BaseTables, Table, PostGIS
<1>6. o[1] \in {"subsidies", "users"} => o \notin BaseTables \cup {PostGIS}
  BY DEF BaseTables, Table, PostGIS
<1>7. CASE r = "60afb71f58fe"
  BY <1>7, FirstRevision DEF PostGIS, Table
<1>8. CASE r = "aa1b2c3d4e5f"
  BY <1>4, <1>5, <1>8, UpgradesDefine DEF PostGIS, BaseTables, Table
<1>9. CASE r \in {"bb_add_external_fields", "c1d2e3f4add", "20251020_add_kepco_fields",
                  "20251023_add_additional_kepco_fields", "20251025_add_station_api_compat",
                  "20251025_add_cp_fields_migration",
                  "20251028_convert_kepco_ts_to_timestamptz"}
  <2>1. Column(o)
    BY <1>1, <1>2, <1>9, UpgradesDefine
  <2> QED BY <1>5, <2>1
<1>10. CASE r \in {"20251028_add_sale_price", "daa5cac943ac"}
  BY <1>3, <1>6, <1>10, UpgradesDefine, UsersOf_daa5cac943ac
<1>11. CASE r = "82564d70969d"
  BY <1>6, <1>11, SubsidiesOf_82564d70969d DEF BaseTables, PostGIS, Table, Of
<1>12. CASE r = "a22583938b64"
  BY <1>12, ColumnsOf_a22583938b64 DEF BaseTables, PostGIS, Table
<1>13. r \notin {"b7a145511e70", "d6b8f2f8579d", "9508604ce511", "0f42d4f96fa6",
                 "d8c47bac145f", "20251031_subsidy_data_migration"}
  BY UpgradesDefine
<1> QED BY <1>7, <1>8, <1>9, <1>10, <1>11, <1>12, <1>13, RevisionNames

\* The tables of stations and of chargers are there only with the extension.
Rooted(schema) == BaseTables \cap DOMAIN schema # {} => PostGIS \in DOMAIN schema

\* What is said to be a revision's is defined by it; the extension is no revision's.
Owned(schema) ==
    \A o \in DOMAIN schema : schema[o] \in Revisions =>
        o \in Defines(Versions[schema[o]].upgrade) /\ o # PostGIS

LEMMA UpgradeKeepsAuthors ==
  ASSUME NEW schema, IsSchema(schema), Rooted(schema), Owned(schema),
         NEW r \in Revisions, Fits(schema, Versions[r].upgrade)
  PROVE  /\ Rooted(Apply(schema, Versions[r].upgrade, r))
         /\ Owned(Apply(schema, Versions[r].upgrade, r))
<1> DEFINE step == Versions[r].upgrade
           R == step.drops \cup step.discards
           left == Without(schema, R)
           new == Added(left, step)
           result == Apply(schema, step, r)
<1>1. /\ \A o : o \in DOMAIN result <=>
                    \/ o \in DOMAIN schema /\ ~Cut(o, R)
                    \/ o \in new
      /\ \A o \in DOMAIN result :
            result[o] = IF o \in new \cup step.alters THEN r ELSE schema[o]
      /\ new \subseteq Defines(step)
  <2>1. /\ result = Apply(schema, step, r)
        /\ R = step.drops \cup step.discards
        /\ new = Added(Without(schema, R), step)
    OBVIOUS
  <2> HIDE DEF step, R, left, new, result
  <2> QED BY <2>1, ResultFields
<1>2. PostGIS \in DOMAIN schema => PostGIS \in DOMAIN result
  BY UpgradeKeeps DEF Kept
<1>3. step.alters \subseteq Defines(step) /\ step.needs \subseteq DOMAIN schema
  BY DEF Defines, Fits
<1>4. new \cap BaseTables # {} => PostGIS \in DOMAIN schema
  BY <1>1, <1>3, DefinersOfTables, PlainUpgrades DEF Adds
<1>5. Rooted(result)
  <2> HIDE DEF new, result
  <2> QED BY <1>1, <1>2, <1>4 DEF Rooted
<1>6. PostGIS \notin new \cup step.alters
  <2> SUFFICES ASSUME PostGIS \in new \cup step.alters
               PROVE  FALSE
    OBVIOUS
  <2>1. r = "aa1b2c3d4e5f"
    BY <1>1, <1>3, DefinersOfTables
  <2>2. /\ step.tables = {PostGIS} /\ step.ensures = Of("stations", {"idx_stations_location"})
        /\ step.creates = {} /\ step.alters = {} /\ R = {}
    BY <2>1, PlainUpgrades DEF Adds
  <2>3. left = schema
    BY <2>2 DEF Without
  <2>4. PostGIS \notin DOMAIN schema
    BY <2>2, <2>3 DEF Added, PostGIS, Table, Of
  <2>5. Table("stations") \notin DOMAIN schema
    BY <2>4 DEF Rooted, BaseTables
  <2>6. DependsOn(<<"stations", "idx_stations_location">>) \subseteq DOMAIN schema
    <3>1. CASE <<"stations", "idx_stations_location">> \in DOMAIN schema
      BY <3>1 DEF IsSchema
    <3>2. CASE <<"stations", "idx_stations_location">> \notin DOMAIN schema
      <4>1. <<"stations", "idx_stations_location">> \in new
        BY <2>2, <2>3, <3>2 DEF Added, Of
      <4>2. DependsOn(<<"stations", "idx_stations_location">>) \subseteq DOMAIN schema \cup new
        BY <2>3, <4>1 DEF Fits
      <4>3. Table("stations") \notin new
        BY <1>1, <2>1, DefinersOfTables DEF BaseTables
      <4>4. Table("stations") \in DependsOn(<<"stations", "idx_stations_location">>)
        BY Dependencies
      <4> QED BY <2>5, <4>2, <4>3, <4>4
    <3> QED BY <3>1, <3>2
  <2>7. Table("stations") \in DependsOn(<<"stations", "idx_stations_location">>)
    BY Dependencies
  <2> QED BY <2>5, <2>6, <2>7
<1>7. Owned(result)
  <2> HIDE DEF new, result
  <2> QED BY <1>1, <1>3, <1>6 DEF Owned
<1> QED BY <1>5, <1>7

-----------------------------------------------------------------------------
(* Downgrades leave nothing                                                *)

\* The downgrade of a22583938b64 needs columns of chargers, and creates the table
\* of the extension that every such column comes with.
LEMMA NeverUndone ==
  ASSUME NEW schema, IsSchema(schema), Rooted(schema)
  PROVE  ~Fits(schema, Versions["a22583938b64"].downgrade)
<1> SUFFICES ASSUME Fits(schema, Downgrade_a22583938b64)
             PROVE  FALSE
  BY OtherDowngrades
<1> DEFINE step == Downgrade_a22583938b64
           R == step.drops \cup step.discards
<1>1. /\ <<"chargers", "charger_type">> \in step.needs /\ PostGIS \in step.creates
      /\ R = {<<"chargers", "_station_charger_uc">>}
  <2>1. step.needs = Of("api_logs", {"id", "response_code"}) \cup
                     Of("chargers", {"charger_type", "connector_type", "status_code"}) \cup
                     Of("station", {"station_station_id_seq"})
    BY DEF Downgrade_a22583938b64, Pass
  <2>2. step.creates = LegacyTables \cup {PostGIS} \cup
                       Of("chargers", {"uq_station_charger_code"}) \cup
                       Of("api_logs", {"request_time", "response_time_ms", "response_msg"})
    BY DEF Downgrade_a22583938b64, Pass
  <2>3. step.drops = {} /\ step.discards = Of("chargers", {"_station_charger_uc"})
    BY DEF Downgrade_a22583938b64, Pass
  <2> QED BY <2>1, <2>2, <2>3 DEF Of
<1> HIDE DEF step
<1>2. <<"chargers", "charger_type">> \in DOMAIN schema /\ step.creates \cap DOMAIN Without(schema, R) = {}
  BY <1>1 DEF Fits, step
<1>3. Table("chargers") \in DOMAIN schema
  BY <1>2, Dependencies DEF IsSchema
<1>4. PostGIS \in DOMAIN schema
  BY <1>3 DEF Rooted, BaseTables
<1>5. "_station_charger_uc" \in DOMAIN On
  BY DEF On
<1>6. ~Cut(PostGIS, R)
  BY <1>1, <1>5, CutByIndex DEF Cut, PostGIS, Table
<1> QED BY <1>1, <1>2, <1>4, <1>6, WithoutFields

Undropped(r) == {"legacy"} \cup
    (IF r = "20251028_convert_kepco_ts_to_timestamptz"
     THEN {"20251023_add_additional_kepco_fields"} ELSE {})

\* A downgrade drops what the upgrade defines, and keeps the extension.
LEMMA DowngradeCuts ==
  ASSUME NEW r \in Revisions \ {"a22583938b64"}
  PROVE  LET step == Versions[r].downgrade
             R == step.drops \cup step.discards
         IN  /\ \A o \in Defines(Versions[r].upgrade) \ {PostGIS} : Cut(o, R)
             /\ ~Cut(PostGIS, R)
             /\ Defines(step) # {} => Versions[r].restores \in Undropped(r)
<1> DEFINE step == Versions[r].downgrade
           R == step.drops \cup step.discards
           new == Defines(Versions[r].upgrade)
<1>1. \A d : d[1] # "spatial_ref_sys" => d # PostGIS /\ d \notin DependsOn(PostGIS)
  BY Dependencies DEF PostGIS, Table
<1>2. ASSUME \A d \in R : d[1] # "spatial_ref_sys"
      PROVE  ~Cut(PostGIS, R)
  BY <1>1, <1>2 DEF Cut
<1>3. ASSUME R = new
      PROVE  \A o \in new : Cut(o, R)
  BY <1>3 DEF Cut
<1>4. \A t, names : \A o \in Of(t, names) : o[1] = t
  BY DEF Of
<1> HIDE DEF R, step
<1>5. CASE r = "60afb71f58fe"
  <2>1. R = {Table("chargers"), Table("stations"), Table("api_logs")} /\ Defines(step) = {}
    BY <1>5, PlainDowngrades DEF Drops, R, step
  <2>2. \A o \in new : Table(o[1]) \in R /\ Table(o[1]) \in DependsOn(o)
    BY <1>5, <2>1, FirstRevision, Dependencies
  <2>3. \A d \in R : d[1] # "spatial_ref_sys"
    BY <2>1 DEF Table
  <2> QED BY <1>2, <2>1, <2>2, <2>3 DEF Cut, R, step
<1>6. CASE r = "aa1b2c3d4e5f"
  <2>1. R = Of("stations", {"idx_stations_location"}) /\ Defines(step) = {}
    BY <1>6, PlainDowngrades DEF Drops, R, step
  <2>2. new \ {PostGIS} \subseteq R
    BY <1>6, <2>1, UpgradesDefine
  <2> QED BY <1>2, <1>4, <2>1, <2>2 DEF Cut, R, step
<1>7. CASE r \in {"b7a145511e70", "d6b8f2f8579d", "0f42d4f96fa6", "d8c47bac145f",
                  "20251031_subsidy_data_migration"}
  <2>1. R = {} /\ Defines(step) = {} /\ new = {}
    BY <1>7, PlainDowngrades, UpgradesDefine DEF Drops, R, step
  <2> QED BY <2>1 DEF Cut, R, step
<1>8. CASE r \in {"daa5cac943ac", "9508604ce511"}
  <2>1. R = DropEverything.drops /\ Defines(step) = {}
    BY <1>8, PlainDowngrades DEF Drops, R, step
  <2>2. DropEverything.drops = {Table("chargers"), Table("users"), Table("subsidies"),
                                Table("stations"), Table("api_logs")}
    BY DEF DropEverything, Pass
  <2>3. \A o \in new : Table(o[1]) \in R /\ Table(o[1]) \in DependsOn(o)
    BY <1>8, <2>1, <2>2, UsersOf_daa5cac943ac, UpgradesDefine, Dependencies
  <2>4. \A d \in R : d[1] # "spatial_ref_sys"
    BY <2>1, <2>2 DEF Table
  <2> QED BY <1>2, <2>1, <2>3, <2>4 DEF Cut, R, step
<1>9. CASE r \in {"bb_add_external_fields", "c1d2e3f4add", "20251020_add_kepco_fields",
                  "20251023_add_additional_kepco_fields", "20251025_add_station_api_compat",
                  "20251025_add_cp_fields_migration", "20251028_add_sale_price"}
  <2>1. R = new /\ Defines(step) = {}
    BY <1>9, PlainDowngrades, UpgradesDefine DEF Drops, R, step
  <2>2. \A d \in new : d[1] # "spatial_ref_sys"
    BY <1>4, <1>9, UpgradesDefine DEF ExternalColumns, ChargerLocation, KepcoFields,
       AdditionalFields, CompatFields, CpFields, SalePrice
  <2> QED BY <1>2, <1>3, <2>1, <2>2 DEF R, step
<1>10. CASE r = "82564d70969d"
  <2>1. R = Of("api_logs", {"response_msg"}) \cup {Table("subsidies")}
    <3>1. /\ Downgrade_82564d70969d.drops = Of("api_logs", {"response_msg"})
                                               \cup {Table("subsidies")}
          /\ Downgrade_82564d70969d.discards = {}
      BY DEF Downgrade_82564d70969d, Pass
    <3> QED BY <1>10, <3>1, OtherDowngrades DEF R, step
  <2>2. \A o \in new : o \in R \/ (Table(o[1]) \in R /\ Table(o[1]) \in DependsOn(o))
    BY <1>10, <2>1, SubsidiesOf_82564d70969d, Dependencies
  <2>3. \A d \in R : d[1] # "spatial_ref_sys"
    BY <1>4, <2>1 DEF Table
  <2>4. Versions[r].restores \in Undropped(r)
    BY <1>10, OtherDowngrades DEF Undropped
  <2> QED BY <1>2, <2>2, <2>3, <2>4 DEF Cut, R, step
<1>11. CASE r = "20251028_convert_kepco_ts_to_timestamptz"
  <2>1. R = new /\ new = {Kepco} /\ Versions[r].restores \in Undropped(r)
    BY <1>11, OtherDowngrades, UpgradesDefine DEF Undropped, R, step
  <2> QED BY <1>2, <1>3, <2>1 DEF Kepco, R, step
<1> QED BY <1>5, <1>6, <1>7, <1>8, <1>9, <1>10, <1>11, RevisionNames

LEMMA DowngradeKeepsAuthors ==
  ASSUME NEW schema, IsSchema(schema), Rooted(schema), Owned(schema),
         NEW r \in Revisions, Fits(schema, Versions[r].downgrade),
         NEW result, result = Apply(schema, Versions[r].downgrade, Versions[r].restores)
  PROVE  /\ Rooted(result) /\ Owned(result)
         /\ \A o \in DOMAIN result :
                \/ result[o] \in Undropped(r)
                \/ o \in DOMAIN schema /\ result[o] = schema[o] /\ result[o] # r
<1> DEFINE step == Versions[r].downgrade
           by == Versions[r].restores
           R == step.drops \cup step.discards
           new == Added(Without(schema, R), step)
<1>1. /\ \A o : o \in DOMAIN result <=>
                    \/ o \in DOMAIN schema /\ ~Cut(o, R)
                    \/ o \in new
      /\ \A o \in DOMAIN result :
            result[o] = IF o \in new \cup step.alters THEN by ELSE schema[o]
      /\ new \subseteq Defines(step)
  <2>1. /\ result = Apply(schema, step, by)
        /\ R = step.drops \cup step.discards
        /\ new = Added(Without(schema, R), step)
    OBVIOUS
  <2> HIDE DEF step, by, R, new
  <2> QED BY <2>1, ResultFields
<1>2. step.alters \subseteq Defines(step)
  BY DEF Defines
<1>3. r # "a22583938b64"
  BY NeverUndone
<1>4. /\ \A o \in Defines(Versions[r].upgrade) \ {PostGIS} : Cut(o, R)
      /\ ~Cut(PostGIS, R)
      /\ Defines(step) # {} => by \in Undropped(r)
  BY <1>3, DowngradeCuts
<1>5. \A o \in DOMAIN result :
        \/ o \in new \cup step.alters /\ result[o] = by /\ by \in Undropped(r)
        \/ o \in DOMAIN schema /\ ~Cut(o, R) /\ result[o] = schema[o]
  BY <1>1, <1>2, <1>4
<1>6. \A o \in DOMAIN schema : schema[o] = r /\ ~Cut(o, R) => FALSE
  BY <1>4 DEF Owned
<1>7. \A o \in DOMAIN result :
        \/ result[o] \in Undropped(r)
        \/ o \in DOMAIN schema /\ result[o] = schema[o] /\ result[o] # r
  BY <1>5, <1>6
<1>8. Owned(result)
  <2> SUFFICES ASSUME NEW o \in DOMAIN result, result[o] \in Revisions
               PROVE  o \in Defines(Versions[result[o]].upgrade) /\ o # PostGIS
    BY DEF Owned
  <2>1. CASE o \in DOMAIN schema /\ result[o] = schema[o]
    BY <2>1 DEF Owned
  <2>2. CASE o \in new \cup step.alters /\ result[o] = by /\ by \in Undropped(r)
    <3>1. "legacy" \notin Revisions
      BY RevisionNames
    <3>2. /\ r = "20251028_convert_kepco_ts_to_timestamptz"
          /\ result[o] = "20251023_add_additional_kepco_fields"
      BY <2>2, <3>1 DEF Undropped
    <3>3. Defines(step) = {Kepco}
      BY <3>2, OtherDowngrades
    <3>4. o = Kepco
      BY <1>1, <1>2, <2>2, <3>3
    <3> QED BY <3>2, <3>4, UpgradesDefine DEF AdditionalFields, Kepco, Of, PostGIS, Table
  <2> QED BY <1>5, <2>1, <2>2
<1>9. Rooted(result)
  <2>1. PostGIS \in DOMAIN schema => PostGIS \in DOMAIN result
    BY <1>1, <1>4
  <2>2. Defines(step) \cap BaseTables = {}
    <3>1. Defines(Downgrade_82564d70969d) = Of("stations", {"ix_stations_name"})
      BY DEF Downgrade_82564d70969d, Pass, Defines
    <3>2. Defines(step) \in {{}, {Kepco}, Of("stations", {"ix_stations_name"})}
      BY <1>3, <3>1, RevisionNames, PlainDowngrades, OtherDowngrades DEF Drops
    <3> QED BY <3>2 DEF Of, Kepco, BaseTables, Table
  <2> QED BY <1>1, <2>1, <2>2 DEF Rooted
<1> QED BY <1>7, <1>8, <1>9

LEMMA ModelsKeepAuthors ==
  ASSUME NEW schema, Rooted(schema), Owned(schema),
         NEW result, result = Apply(schema, Models, "models")
  PROVE  /\ Rooted(result) /\ Owned(result)
         /\ \A o \in DOMAIN result :
                \/ result[o] = "models"
                \/ o \in DOMAIN schema /\ result[o] = schema[o]
<1> DEFINE R == Models.drops \cup Models.discards
           new == Added(Without(schema, R), Models)
<1>1. /\ \A o : o \in DOMAIN result <=>
                    \/ o \in DOMAIN schema /\ ~Cut(o, R)
                    \/ o \in new
      /\ \A o \in DOMAIN result :
            result[o] = IF o \in new \cup Models.alters THEN "models" ELSE schema[o]
  <2>1. /\ R = Models.drops \cup Models.discards
        /\ new = Added(Without(schema, R), Models)
    OBVIOUS
  <2> HIDE DEF R, new
  <2> QED BY <2>1, ResultFields
<1>2. /\ R = {} /\ Models.alters = {} /\ Models.creates = {} /\ Models.ensures = {}
      /\ PostGIS \in Models.tables
  BY DEF Models, Pass
<1>3. \A o : ~Cut(o, R)
  BY <1>2 DEF Cut
<1>4. PostGIS \in DOMAIN result
  <2>1. Without(schema, R) = schema
    BY <1>2 DEF Without
  <2>2. PostGIS \in DOMAIN schema \/ PostGIS \in new
    BY <1>2, <2>1 DEF Added, PostGIS, Table
  <2> QED BY <1>1, <1>3, <2>2
<1>5. "models" \notin Revisions
  BY RevisionNames
<1> HIDE DEF new, R
<1> QED BY <1>1, <1>2, <1>3, <1>4, <1>5 DEF Rooted, Owned

\* What is left of a command's schema is someone's that is in force: the
\* revisions that ran, with those of an upgrade, and without those undone so far.
LeftInv ==
    LET others == {"postgis", "legacy", "models"}
        before == Applied(db.version)
        applied == Applied(tx.version)
    IN  /\ Rooted(db.schema) /\ Owned(db.schema)
        /\ Rooted(tx.schema) /\ Owned(tx.schema)
        /\ before \ Ancestors[Stamped] \subseteq ran
        /\ \A o \in DOMAIN db.schema : db.schema[o] \in ran \cup others
        /\ tx.cmd = "upgrade" =>
            \A o \in DOMAIN tx.schema : tx.schema[o] \in ran \cup (applied \ before) \cup others
        /\ tx.cmd = "downgrade" =>
            \A o \in DOMAIN tx.schema : tx.schema[o] \in (ran \ (before \ applied)) \cup others

LEMMA NothingRooted ==
  Rooted(NoSchema) /\ Owned(NoSchema) /\ Rooted(OnlyPostGIS) /\ Owned(OnlyPostGIS)
<1>1. DOMAIN OnlyPostGIS = {PostGIS} /\ OnlyPostGIS[PostGIS] = "postgis"
  BY DEF OnlyPostGIS
<1>2. "postgis" \notin Revisions
  BY RevisionNames
<1> QED BY <1>1, <1>2, NoTxFields DEF Rooted, Owned

LEMMA LeftInvInductive ==
  ASSUME VersionInv, SchemaInv, LeftInv, [Next]_vars
  PROVE  LeftInv'
<1>0. Stamped \in Revisions
  BY RevisionNames DEF Stamped
<1>1. ASSUME NEW cmd, NEW todo, Begin(cmd, todo)
      PROVE  LeftInv'
  <2>1. tx'.schema = db.schema /\ tx'.version = db.version /\ db' = db /\ ran' = ran
    BY <1>1 DEF Begin
  <2> QED BY <2>1 DEF LeftInv
<1>2. CASE UpgradeHeads \/ UpgradeTo \/ DowngradeTo \/ DowngradeBase
  BY <1>1, <1>2 DEF UpgradeHeads, UpgradeTo, DowngradeTo, DowngradeBase
<1>3. CASE UpgradeHead
  BY <1>3 DEF UpgradeHead, LeftInv
<1>4. CASE StampDaa5
  <2>1. /\ db'.schema = db.schema /\ tx = NoTx /\ tx' = tx /\ ran' = ran
        /\ Applied(db'.version) \subseteq Applied(db.version) \cup Ancestors[Stamped]
    BY <1>4, StampedVersion DEF StampDaa5, VersionInv
  <2> QED BY <2>1, NoTxFields, NothingRooted DEF LeftInv
<1>5. CASE InitDb
  <2>1. /\ db'.schema = Apply(db.schema, Models, "models") /\ db'.version = db.version
        /\ tx = NoTx /\ tx' = tx /\ ran' = ran
    BY <1>5 DEF InitDb, VersionInv
  <2>2. /\ Rooted(db'.schema) /\ Owned(db'.schema)
        /\ \A o \in DOMAIN db'.schema :
                \/ db'.schema[o] = "models"
                \/ o \in DOMAIN db.schema /\ db'.schema[o] = db.schema[o]
    BY <2>1, ModelsKeepAuthors DEF LeftInv
  <2> QED BY <2>1, <2>2, NoTxFields, NothingRooted DEF LeftInv
<1>6. CASE RunUpgrade
  <2>1. PICK r \in Revisions :
          /\ tx.cmd = "upgrade" /\ tx'.cmd = "upgrade" /\ r \notin Applied(tx.version)
          /\ Fits(tx.schema, Versions[r].upgrade)
          /\ tx'.schema = Apply(tx.schema, Versions[r].upgrade, r)
          /\ Applied(tx'.version) = Applied(tx.version) \cup {r}
          /\ db' = db /\ ran' = ran
    BY <1>6, UpgradeRun DEF IsTx
  <2>2. IsSchema(tx.schema) /\ Rooted(tx.schema) /\ Owned(tx.schema)
    BY DEF SchemaInv, LeftInv
  <2>3. Rooted(tx'.schema) /\ Owned(tx'.schema)
    BY <2>1, <2>2, UpgradeKeepsAuthors
  <2>4. r \notin Applied(db.version)
    BY <2>1 DEF VersionInv, Underway
  <2>5. \A o \in DOMAIN tx'.schema :
          tx'.schema[o] = r \/ (o \in DOMAIN tx.schema /\ tx'.schema[o] = tx.schema[o])
    <3> DEFINE step == Versions[r].upgrade
               old == tx.schema
               result == tx'.schema
               R == step.drops \cup step.discards
               new == Added(Without(old, R), step)
    <3>1. result = Apply(old, step, r)
      BY <2>1
    <3> HIDE DEF step, old, result
    <3>2. /\ \A o : o \in DOMAIN result <=>
                        \/ o \in DOMAIN old /\ ~Cut(o, R)
                        \/ o \in new
          /\ \A o \in DOMAIN result :
                result[o] = IF o \in new \cup step.alters THEN r ELSE old[o]
      BY <3>1, ResultFields
    <3>3. \A o \in DOMAIN result :
              result[o] = r \/ (o \in DOMAIN old /\ result[o] = old[o])
      BY <3>2
    <3> QED BY <3>3 DEF result, old
  <2> QED BY <2>1, <2>3, <2>4, <2>5 DEF LeftInv
<1>7. CASE RunDowngrade
  <2>1. PICK r \in Revisions :
          /\ tx.cmd = "downgrade" /\ tx'.cmd = "downgrade" /\ r \in Applied(tx.version)
          /\ Fits(tx.schema, Versions[r].downgrade)
          /\ tx'.schema = Apply(tx.schema, Versions[r].downgrade, Versions[r].restores)
          /\ Applied(tx'.version) = Applied(tx.version) \ {r}
          /\ db' = db /\ ran' = ran
    BY <1>7, DowngradeRun DEF IsTx
  <2>2. IsSchema(tx.schema) /\ Rooted(tx.schema) /\ Owned(tx.schema)
    BY DEF SchemaInv, LeftInv
  <2>3. /\ Rooted(tx'.schema) /\ Owned(tx'.schema)
        /\ \A o \in DOMAIN tx'.schema :
                \/ tx'.schema[o] \in Undropped(r)
                \/ o \in DOMAIN tx.schema /\ tx'.schema[o] = tx.schema[o] /\ tx'.schema[o] # r
    BY <2>1, <2>2, DowngradeKeepsAuthors
  <2>4. ASSUME r = "20251028_convert_kepco_ts_to_timestamptz",
               NEW p, p = "20251023_add_additional_kepco_fields"
        PROVE  p \in ran \ (Applied(db.version) \ Applied(tx'.version))
    <3>1. p \in Ancestors[r] /\ p # r
      <4>1. "20251025_add_cp_fields_migration" \in Ancestors[r]
        BY <2>4, RevisionNames, Parents, ParentsAndAncestors
      <4>2. p \in Ancestors["20251025_add_cp_fields_migration"]
        BY <2>4, RevisionNames, Parents, ParentsAndAncestors
      <4> QED BY <2>4, <4>1, <4>2, AncestorsOrder
    <3>2. p \in Applied(tx.version) /\ p \in Applied(db.version) /\ p \in Applied(tx'.version)
      <4>1. tx.version \in SUBSET Revisions
        BY DEF VersionInv, IsVersion
      <4>2. p \in Applied(tx.version)
        BY <2>1, <3>1, <4>1, AppliedIsClosed
      <4> QED BY <2>1, <3>1, <4>2 DEF VersionInv, Underway
    <3>3. p \notin Ancestors[Stamped]
      <4>1. Placed(Stamped)
        BY <1>0, AllPlaced
      <4>2. Rank[p] = 14 /\ Rank[Stamped] = 6 /\ p # Stamped
        BY <2>4 DEF Rank, Stamped
      <4> QED BY <4>1, <4>2 DEF Placed
    <3> QED BY <3>2, <3>3 DEF LeftInv
  <2>5. Applied(tx.version) \subseteq Applied(db.version)
    BY <2>1 DEF VersionInv, Underway
  <2>6. \A o \in DOMAIN tx'.schema :
          tx'.schema[o] \in (ran \ (Applied(db.version) \ Applied(tx'.version)))
                                \cup {"postgis", "legacy", "models"}
    BY <2>1, <2>3, <2>4, <2>5 DEF LeftInv, Undropped
  <2> QED BY <2>1, <2>3, <2>6 DEF LeftInv
<1>8. CASE RevisionFails \/ Interrupted
  <2>1. tx' = NoTx /\ db' = db /\ ran' = ran
    BY <1>8 DEF RevisionFails, Interrupted
  <2> QED BY <2>1, NoTxFields, NothingRooted DEF LeftInv
<1>9. CASE Commit
  <2> DEFINE before == Applied(db.version)
             applied == Applied(tx.version)
  <2>1. /\ db'.schema = tx.schema /\ db'.version = tx.version /\ tx' = NoTx
        /\ ran' = IF tx.cmd = "upgrade"
                  THEN ran \cup ((applied \ before) \cup (before \ applied))
                  ELSE ran \ ((applied \ before) \cup (before \ applied))
        /\ tx.cmd \in {"upgrade", "downgrade"}
    BY <1>9 DEF Commit, VersionInv
  <2>2. CASE tx.cmd = "upgrade"
    <3>1. before \subseteq applied
      BY <2>2 DEF VersionInv, Underway
    <3>2. ran' = ran \cup (applied \ before)
      BY <2>1, <2>2, <3>1
    <3> QED BY <2>1, <2>2, <3>1, <3>2, NoTxFields, NothingRooted DEF LeftInv
  <2>3. CASE tx.cmd = "downgrade"
    <3>1. applied \subseteq before
      BY <2>3 DEF VersionInv, Underway
    <3>2. ran' = ran \ (before \ applied)
      BY <2>1, <2>3, <3>1
    <3> QED BY <2>1, <2>3, <3>1, <3>2, NoTxFields, NothingRooted DEF LeftInv
  <2> QED BY <2>1, <2>2, <2>3
<1>10. CASE UNCHANGED vars
  BY <1>10 DEF vars, LeftInv
<1> QED BY <1>2, <1>3, <1>4, <1>5, <1>6, <1>7, <1>8, <1>9, <1>10 DEF Next

LEMMA LeftInvHolds == Spec => []LeftInv
<1>1. Init => LeftInv
  <2> SUFFICES ASSUME Init
               PROVE  LeftInv
    OBVIOUS
  <2>1. /\ db.schema \in {NoSchema, OnlyPostGIS} /\ db.version = {} /\ tx = NoTx
        /\ ran = {}
    BY DEF Init
  <2>2. Applied({}) = {}
    BY DEF Applied
  <2>3. \A o \in DOMAIN db.schema : db.schema[o] = "postgis"
    BY <2>1, NoTxFields DEF OnlyPostGIS
  <2> QED BY <2>1, <2>2, <2>3, NoTxFields, NothingRooted DEF LeftInv
<1> QED BY <1>1, LeftInvInductive, VersionInvHolds, SchemaInvHolds, PTL DEF Spec

\* What a downgrade leaves was defined by a revision still in force, by the
\* models, or came with the database: nothing of the revisions undone is left,
\* and nothing is left to a revision that never ran.
THEOREM DowngradesAreClean == Spec => []DowngradesLeaveNothing
<1>1. LeftInv => DowngradesLeaveNothing
  BY DEF LeftInv, DowngradesLeaveNothing
<1> QED BY <1>1, LeftInvHolds, PTL

===============================================================================
