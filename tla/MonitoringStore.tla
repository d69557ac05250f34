-------------------------- MODULE MonitoringStore --------------------------
(***************************************************************************)
(* app/monitoring/store.py: the SQLite tables behind the vendor inventory  *)
(* and continuous monitoring, and what each store function does to them.   *)
(* Every function opens its own connection and commits once, so a call is  *)
(* one atomic change that survives a restart.                              *)
(*                                                                         *)
(* Names, letters, summaries and e-mail addresses are left out: no         *)
(* decision of the store, the scheduler or the handlers reads them.  Time  *)
(* is counted in abstract units, Day and Week being the two run periods.   *)
(***************************************************************************)
EXTENDS Integers, Sequences, FiniteSets

CONSTANTS
    VendorIds,    \* the uuid4 values upsert_vendor may hand out
    Domains,      \* vendor domains
    Sessions,     \* hashes of real (non-empty) session cookies
    Detectors,    \* detector types
    Scored,       \* the detectors that produce a 0-100 score
    Scores,       \* the scores they may produce
    Thresholds,   \* alert_threshold_points values a client may send
    TypeLists,    \* the lists of detector types a client may send
    Jobs,         \* ids of ad-hoc detection jobs
    Day, Week     \* length of the daily and of the weekly period

NoOwner == ""          \* owner_session_hash of a request without a cookie
Unknown == ""          \* no domain
Unissued == "unissued" \* a uuid that was never handed out
Deleted == "deleted"   \* the row was there and was deleted; uuids never recur
NoScore == -1          \* score IS NULL
Never == -1            \* a time that IS NULL
Scheduler == "scheduler"

ASSUME StoreAssumption ==
    /\ {Unknown, Unissued, Deleted} \cap Domains = {}
    /\ NoOwner \notin Sessions
    /\ Scored \subseteq Detectors
    /\ Scores \subseteq 0..100
    /\ Thresholds \subseteq Int
    /\ TypeLists \subseteq Seq(Detectors)
    /\ Scheduler \notin Jobs
    /\ Day \in Nat \ {0} /\ Week \in Nat \ {0}

VARIABLES
    vendors,   \* vendors[v]: the domain of inventory row v, Unissued or Deleted
    configs,   \* configs[v]: the monitoring_configs row of v, or NoConfig
    history,   \* history[v][d]: the score_history rows of v and d, oldest first
    alerts,    \* the rows of the alerts table
    alertSeq,  \* the last id AUTOINCREMENT gave to an alert
    now        \* the clock

store == <<vendors, configs, history, alerts, alertSeq>>

-----------------------------------------------------------------------------
(* The rows.  domain, src and floor of a score row, and row and floor of   *)
(* an alert, are not columns: they record what the run that wrote the row  *)
(* knew, and only properties read them.                                    *)

Frequencies == {"daily", "weekly"}

Config == [mode : {"absent", "ad_hoc", "continuous"}, types : Seq(Detectors), freq : Frequencies,
           threshold : Int, webhook : BOOLEAN, owner : Sessions \cup {NoOwner},
           last : Int, next : Int]

NoConfig == [mode |-> "absent", types |-> <<>>, freq |-> "daily", threshold |-> 0,
             webhook |-> FALSE, owner |-> NoOwner, last |-> Never, next |-> Never]

Row == [score : Scores \cup {NoScore}, domain : Domains,
        src : Jobs \cup {Scheduler}, floor : Int]

Alert == [id : Nat, vendor : VendorIds, detector : Detectors, prev : Int, new : Int,
          status : {"logged", "delivered", "error"}, row : Nat, floor : Int, webhook : BOOLEAN]

Exists(v) == vendors[v] \in Domains

HasConfig(v) == configs[v].mode # "absent"

-----------------------------------------------------------------------------
(* Store functions: the new value of the table each of them changes.       *)

\* a duplicate-making upsert: it does not look for the domain first
UpsertAlwaysInserts(d) == {v \in VendorIds : vendors[v] = Unissued}

\* upsert_vendor: the row that has the domain, else a fresh uuid.
UpsertIds(d) ==
    IF \E v \in VendorIds : vendors[v] = d
    THEN {v \in VendorIds : vendors[v] = d}
    ELSE {v \in VendorIds : vendors[v] = Unissued}

\* update_vendor with the rows of the collision query left out
UpdateUnchecked(v, d) == TRUE

\* update_vendor returns False when another row has the domain.
UpdateAllowed(v, d) == \A w \in VendorIds \ {v} : vendors[w] # d

\* _compute_next_run
NextRun(freq) == now + (IF freq = "weekly" THEN Week ELSE Day)

\* set_monitoring_config: insert with last_run_at NULL, or update all but
\* last_run_at; either way the next run is a whole period from now.
SetConfig(v, m, session) ==
    [configs EXCEPT ![v] =
        [mode |-> m.mode, types |-> m.types, freq |-> m.freq, threshold |-> m.threshold,
         webhook |-> m.webhook, owner |-> session, last |-> configs[v].last,
         next |-> NextRun(m.freq)]]

\* a mark_monitor_run that only stamps last_run_at
MarkLastOnly(v, freq) == [configs EXCEPT ![v].last = now]

\* a mark_monitor_run that inserts the row when it is missing
MarkUpserts(v, freq) ==
    [configs EXCEPT ![v] = [@ EXCEPT !.mode = "continuous", !.last = now, !.next = NextRun(freq)]]

\* mark_monitor_run: an UPDATE, so nothing when the row is gone.
MarkRun(v, freq) ==
    IF HasConfig(v)
    THEN [configs EXCEPT ![v] = [@ EXCEPT !.last = now, !.next = NextRun(freq)]]
    ELSE configs

\* list_due_continuous_monitors
Due(v) ==
    /\ configs[v].mode = "continuous"
    /\ configs[v].next = Never \/ configs[v].next <= now

\* get_latest_score without DESC: the oldest row
OldestScore(v, d) == LET h == history[v][d] IN IF h = <<>> THEN NoScore ELSE h[1].score

\* get_latest_score: recorded_at descending, the later row first on a tie.
Latest(v, d) ==
    LET h == history[v][d] IN IF h = <<>> THEN NoScore ELSE h[Len(h)].score

\* record_score
RecordScore(v, d, row) == [history EXCEPT ![v][d] = Append(@, row)]

\* record_alert, delivered = 0
RecordAlert(v, d, prev, new, floor, webhook) ==
    alerts \cup {[id |-> alertSeq + 1, vendor |-> v, detector |-> d, prev |-> prev, new |-> new,
                  status |-> "logged", row |-> Len(history[v][d]), floor |-> floor,
                  webhook |-> webhook]}

\* a mark_alert_delivered that writes the error text where the flag belongs
MarkAlertText(id, ok) ==
    {IF a.id = id THEN [a EXCEPT !.status = IF ok THEN "delivered" ELSE "timeout"] ELSE a
        : a \in alerts}

\* a mark_alert_delivered that ignores the error
MarkAlwaysDelivered(id, ok) ==
    {IF a.id = id THEN [a EXCEPT !.status = "delivered"] ELSE a : a \in alerts}

\* mark_alert_delivered: an UPDATE by id.
MarkAlert(id, ok) ==
    {IF a.id = id THEN [a EXCEPT !.status = IF ok THEN "delivered" ELSE "error"] ELSE a
        : a \in alerts}

\* delete_vendor: alerts, history, config, then the vendor, in one commit.
DeleteRows(v) ==
    /\ alerts' = {a \in alerts : a.vendor # v}
    /\ history' = [history EXCEPT ![v] = [d \in Detectors |-> <<>>]]
    /\ configs' = [configs EXCEPT ![v] = NoConfig]
    /\ vendors' = [vendors EXCEPT ![v] = Deleted]
    /\ UNCHANGED alertSeq

\* init_store on an empty database
StoreInit ==
    /\ vendors = [v \in VendorIds |-> Unissued]
    /\ configs = [v \in VendorIds |-> NoConfig]
    /\ history = [v \in VendorIds |-> [d \in Detectors |-> <<>>]]
    /\ alerts = {}
    /\ alertSeq = 0
    /\ now = 0

StoreTypeOK ==
    /\ vendors \in [VendorIds -> Domains \cup {Unissued, Deleted}]
    /\ configs \in [VendorIds -> Config]
    /\ history \in [VendorIds -> [Detectors -> Seq(Row)]]
    /\ alerts \subseteq Alert
    /\ alertSeq \in Nat
    /\ now \in Nat
=============================================================================
