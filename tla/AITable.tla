------------------------------ MODULE AITable ------------------------------
(***************************************************************************)
(* The table of Application Identifiers a Digital Link URI may carry       *)
(* (src/resolver/ai_table.py): each alpha name with its numeric AI, by     *)
(* category.  Titles and fixed lengths are left out: no code reads them.   *)
(***************************************************************************)
EXTENDS Collections, SequencesExt

PRIMARIES ==
    [sscc |-> "00", gtin |-> "01", gdti |-> "253", gcn |-> "255",
     ginc |-> "401", gsin |-> "402", gln |-> "414", party |-> "417",
     grai |-> "8003", giai |-> "8004", itip |-> "8006", cpid |-> "8010",
     gmn |-> "8013", gsrnp |-> "8017", gsrn |-> "8018"]

QUALIFIERS ==
    [cpv |-> "22", lot |-> "10", ser |-> "21", tpx |-> "235",
     glnx |-> "254", cpsn |-> "8011"]

ATTRIBUTES ==
    [exp |-> "17", prodt |-> "11", duedt |-> "12", packdt |-> "13",
     bestdt |-> "15", selldt |-> "16", addid |-> "240", cuno |-> "241",
     mtono |-> "242", pcn |-> "243", secondaryser |-> "250",
     refno |-> "251", orderno |-> "400", routing |-> "403",
     shipto_name |-> "4300", dangerousgoods |-> "4321",
     nhrn_de |-> "710", nhrn_fr |-> "711", nhrn_es |-> "712",
     nhrn_br |-> "713", nhrn_pt |-> "714", nhrn_us |-> "715",
     certref |-> "723", expt |-> "7003", refurblot |-> "7020",
     funclot |-> "7021", revlot |-> "7022", uic_ext |-> "7040",
     rolls |-> "8001", cmid |-> "8002", price |-> "8005",
     iban |-> "8007", prodtime |-> "8008", srin |-> "8019",
     refno_pay |-> "8020", couponcode_us |-> "8110",
     producturl |-> "8200", internal |-> "90"]

PRIMARY_AIS   == Range(PRIMARIES)
QUALIFIER_AIS == Range(QUALIFIERS)
ATTRIBUTE_AIS == Range(ATTRIBUTES)

NAME_TO_AI == PRIMARIES @@ QUALIFIERS @@ ATTRIBUTES
AI_TO_NAME == AntiFunction(NAME_TO_AI)

(* Every AI has a name, which leads back to it. *)
ASSUME NamesAssumption ==
    \A ai \in PRIMARY_AIS \cup QUALIFIER_AIS \cup ATTRIBUTE_AIS :
        AI_TO_NAME[ai] \in DOMAIN NAME_TO_AI /\ NAME_TO_AI[AI_TO_NAME[ai]] = ai

is_known(ai) == ai \in PRIMARY_AIS \cup QUALIFIER_AIS \cup ATTRIBUTE_AIS

(* The order of a primary key's qualifiers in a canonical link. *)
QUALIFIER_ORDER(ai) ==
    CASE ai \in {"01", "8006"}  -> <<"22", "10", "21">>
      [] ai \in {"414", "417"}  -> <<"254">>
      [] ai = "8003"            -> <<"21">>
      [] ai = "8010"            -> <<"8011">>
      [] OTHER                  -> <<>>

(* All AIs, as Python sorts strings. *)
SORTED_AIS ==
    <<"00", "01", "10", "11", "12", "13", "15", "16", "17", "21", "22",
      "235", "240", "241", "242", "243", "250", "251", "253", "254", "255",
      "400", "401", "402", "403", "414", "417", "4300", "4321", "7003",
      "7020", "7021", "7022", "7040", "710", "711", "712", "713", "714",
      "715", "723", "8001", "8002", "8003", "8004", "8005", "8006", "8007",
      "8008", "8010", "8011", "8013", "8017", "8018", "8019", "8020",
      "8110", "8200", "90">>

sorted(ais) == Only(SORTED_AIS, ais)

=============================================================================
