---------------------------- MODULE ReportStore ----------------------------
(***************************************************************************)
(* app/report_store.py: the inventory of assessed vendors, one row per     *)
(* domain and owner, and the rows that offer their reports for download.   *)
(* Every function commits once; the tables survive a restart.              *)
(*                                                                         *)
(* Names, websites, scores and tiers are left out: nothing decides on      *)
(* them.  Time is counted in parts of a second; the tables store whole     *)
(* seconds (strftime), Second parts each.                                  *)
(***************************************************************************)
EXTENDS Integers, Sequences, FiniteSets

CONSTANTS
    Jobs,       \* ids of assessment jobs
    Sessions,   \* session tokens, standing for their hashes too
    Domains,    \* vendor domains
    VendorIds,  \* the uuid4 values upsert_vendor may hand out
    Retention,  \* REPORT_RETENTION_MINUTES, in parts of a second
    Second      \* parts of a second

Nothing == ""  \* where there is no value: a session token is never empty

ASSUME ReportStoreAssumption ==
    /\ Second \in Nat \ {0}
    /\ Retention \in Nat /\ Retention % Second = 0
    /\ Nothing \notin Sessions

VARIABLES
    inventory,  \* inventory[v]: the vendors row with id v, or NoVendor
    reports,    \* the vendor_reports rows
    clock       \* time.time()

NoVendor == [domain |-> Nothing, owner |-> Nothing]

Vendor == [domain : Domains, owner : Sessions]

Report == [vendor : VendorIds, job : Jobs, owner : Sessions, expires : Int]

\* time.strftime drops what is less than a second.
Stamp(t) == t - (t % Second)

\* the upsert of an earlier version: one row per domain, whoever scans it
UpsertByDomain(d, owner) ==
    IF \E v \in VendorIds : inventory[v] # NoVendor /\ inventory[v].domain = d
    THEN {v \in VendorIds : inventory[v] # NoVendor /\ inventory[v].domain = d}
    ELSE {v \in VendorIds : inventory[v] = NoVendor}

\* upsert_vendor: the row of this domain and owner, else a fresh uuid.
UpsertIds(d, owner) ==
    LET existing == {v \in VendorIds : inventory[v] = [domain |-> d, owner |-> owner]}
    IN IF existing # {} THEN existing ELSE {v \in VendorIds : inventory[v] = NoVendor}

\* The INSERT; an UPDATE leaves the domain and the owner alone.
Upserted(v, d, owner) ==
    IF inventory[v] = NoVendor
    THEN [inventory EXCEPT ![v] = [domain |-> d, owner |-> owner]]
    ELSE inventory

\* record_report
RecordReport(v, j, owner) ==
    reports \cup {[vendor |-> v, job |-> j, owner |-> owner, expires |-> Stamp(clock + Retention)]}

\* list_reports_for_vendor
ReportsOf(v, owner) == {r \in reports : r.vendor = v /\ r.owner = owner}

\* delete_expired_report_rows
Unexpired(now) == {r \in reports : r.expires > Stamp(now)}

StoreInit ==
    /\ inventory = [v \in VendorIds |-> NoVendor]
    /\ reports = {}
    /\ clock = 0

StoreTypeOK ==
    /\ inventory \in [VendorIds -> Vendor \cup {NoVendor}]
    /\ reports \subseteq Report
    /\ clock \in Nat
=============================================================================
