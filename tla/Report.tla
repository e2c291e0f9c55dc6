------------------------------- MODULE Report -------------------------------
(***************************************************************************)
(* The document of pdtl_print_report in src/pdtl_scenarios.c, as the list  *)
(* of the writer's calls that prints it.  It is a function of the ledger   *)
(* and the result; labels, ids and digests are texts nobody compares.      *)
(***************************************************************************)
EXTENDS Scenarios, JsonWriter

CONSTANTS Null,     \* the literal null of JSON
          Text      \* a text whose wording is left out

OrNull(index) == IF index = NoIndex THEN Null ELSE index

-----------------------------------------------------------------------------
(* Lists of calls of the writer.                                           *)

Field(name, value) == <<[op |-> "prop", name |-> name, value |-> value]>>

\* one property after the other, named as the fields of a record
Fields(names, record) == FlattenSeq([k \in DOMAIN names |-> Field(names[k], record[names[k]])])

Object(name, body) ==
    <<[op |-> "prop_object_begin", name |-> name]>> \o body \o <<[op |-> "end_object"]>>

Array(name, bodies) ==
    <<[op |-> "prop_array_begin", name |-> name]>>
      \o FlattenSeq([k \in DOMAIN bodies |->
            <<[op |-> "array_object_begin"]>> \o bodies[k] \o <<[op |-> "end_object"]>>])
      \o <<[op |-> "end_array"]>>

-----------------------------------------------------------------------------
\* pdtl_print_cell
CellFields == <<"index", "id", "owner", "asset", "route", "policy", "state", "reserve",
                "reserved_out", "available", "settled_in", "settled_out", "withdrawn",
                "digest">>

CellReport(role) ==
    LET i == result.cell[role]
    IN  IF ~IsCell(i) THEN Field(role, Null)
        ELSE Object(role, Fields(CellFields,
                [index |-> i, id |-> Text, available |-> Available(i), digest |-> Text]
                  @@ cells[i]))

ReceiptFields == <<"index", "id", "origin_cell", "beneficiary_cell", "paid_by_cell", "asset",
                   "route", "policy", "gross", "fee", "net", "nonce", "status",
                   "route_digest", "digest">>

ReceiptReport(r) ==
    Fields(ReceiptFields,
           [index |-> r, id |-> Text, nonce |-> Text, digest |-> Text, route_digest |-> Text,
            paid_by_cell |-> OrNull(receipts[r].paid_by_cell)] @@ receipts[r])

RouteFields == <<"name", "asset", "policy", "fee_bps", "fee_cell", "closed", "open_cells",
                 "closed_cells", "reserves", "available", "reserved_out", "pending_gross",
                 "settled_gross", "cancelled_gross", "pending_receipts", "settled_receipts",
                 "cancelled_receipts", "max_exit_budget", "utilization_bps", "health_score",
                 "digest">>

RouteReport(name) ==
    Fields(RouteFields,
           [name |-> name, fee_cell |-> OrNull(routes[name].fee_cell), digest |-> Text]
              @@ routes[name] @@ RouteExposure(name))

EntryFields == <<"sequence", "kind", "cell", "counterparty", "receipt", "amount",
                 "before_balance", "after_balance", "label", "digest">>

EntryReport(k) ==
    Fields(EntryFields,
           [sequence |-> k, cell |-> OrNull(journal[k].cell),
            counterparty |-> OrNull(journal[k].counterparty),
            receipt |-> OrNull(journal[k].receipt), label |-> Text, digest |-> Text]
              @@ journal[k])

\* how many entries come before the tail: one too few
FaultyBeforeTail == IF Len(journal) > 8 THEN Len(journal) - 9 ELSE 0

BeforeTail == IF Len(journal) > 8 THEN Len(journal) - 8 ELSE 0

SurfaceFields == <<"policies", "routes", "cells", "receipts", "journal_entries", "route_closed">>

TotalsFields == <<"initial_supply", "cell_reserves", "external_withdrawals", "reserved_out",
                  "settled_in", "settled_out", "global_ok">>

SettlementFields == <<"settlement_accepted", "available_before", "available_after", "withdrawn">>

OperationsFields == <<"secondary_receipt", "cancelled_gross", "fee_before_bps", "fee_after_bps",
                      "fee_update_applied">>

(***************************************************************************)
(* The ledger model keeps no order of its routes; order is that in which   *)
(* they were added.                                                        *)
(***************************************************************************)
ReportCalls(order) ==
    <<[op |-> "begin_object"]>>
    \o Field("scenario", result.scenario) \o Field("network_id", Text)
    \o Field("state_digest", Text) \o Field("conservation_ok", GlobalReconciliationOk)
    \o Object("surface", Fields(SurfaceFields,
          [policies |-> Cardinality(DOMAIN policies), routes |-> Cardinality(DOMAIN routes),
           cells |-> cell_count, receipts |-> receipt_count, journal_entries |-> Len(journal),
           route_closed |-> result.route_closed]))
    \o Object("totals", Fields(TotalsFields,
          [cell_reserves |-> TotalCellReserves, reserved_out |-> TotalReservedOut,
           settled_in |-> TotalSettledIn, settled_out |-> TotalSettledOut,
           global_ok |-> GlobalReconciliationOk] @@ totals))
    \o Object("cells", CellReport("origin") \o CellReport("aux") \o CellReport("sponsor")
                         \o CellReport("beneficiary") \o CellReport("treasury"))
    \o Object("settlement", Fields(SettlementFields, result))
    \o Object("operations", Fields(OperationsFields,
          [secondary_receipt |-> OrNull(result.secondary_receipt)] @@ result))
    \o Array("routes", [k \in DOMAIN order |-> RouteReport(order[k])])
    \o Array("receipts", [k \in 1..receipt_count |-> ReceiptReport(k - 1)])
    \o Array("journal_tail",
             [k \in 1..(Len(journal) - BeforeTail) |-> EntryReport(BeforeTail + k)])
    \o <<[op |-> "end_object"]>>

Write(call) ==
    \/ call.op = "begin_object"       /\ BeginObject
    \/ call.op = "end_object"         /\ EndObject
    \/ call.op = "prop_object_begin"  /\ PropObjectBegin(call.name)
    \/ call.op = "prop_array_begin"   /\ PropArrayBegin(call.name)
    \/ call.op = "array_object_begin" /\ ArrayObjectBegin
    \/ call.op = "end_array"          /\ EndArray
    \/ call.op = "prop"               /\ Prop(call.name, call.value)

=============================================================================
