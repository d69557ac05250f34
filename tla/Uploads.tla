------------------------------ MODULE Uploads -----------------------------
(***************************************************************************)
(* How a request becomes an assessment job: the handlers of /api/scan and  *)
(* /api/scan-single in app/main.py, over the rate limiter they call first, *)
(* with app/ingestion.py reading the vendor list and                       *)
(* app/domain_discovery.py guessing a website.  A handler runs without     *)
(* interruption up to its next await: of the uploaded file, or of one      *)
(* candidate domain's answer.  Jobs live in memory, as the deques do.      *)
(*                                                                         *)
(* A sheet is a sequence of rows of cells, a cell its text and the target  *)
(* of its hyperlink; the texts are members of small sets, of which the     *)
(* constants say how the code's string functions see them.                 *)
(***************************************************************************)
EXTENDS RateLimiter, FiniteSetsExt, SequencesExt

CONSTANTS
    MaxArrivals,       \* bound on the requests
    Bodies,            \* what may be sent: sheets and single vendors
    NameWords, UrlWords, \* NAME_ALIASES and URL_ALIASES ...
    NameLike, UrlLike, \* ... and the texts that hold, or are part of, an alias
    Cleaned,           \* text |-> domain, for texts that clean_url accepts
    Malformed,         \* texts on which its urlparse raises ValueError ("[n/a]")
    Slug,              \* vendor name |-> slug, for names that have one
    CandidateTlds,     \* CANDIDATE_TLDS
    MaxVendors,        \* MAX_VENDORS_PER_RUN
    MaxHeaderRow       \* max_scan_rows

ASSUME UploadAssumption ==
    /\ MaxArrivals \in Nat /\ MaxVendors \in Nat \ {0} /\ MaxHeaderRow \in Nat
    /\ NameWords \subseteq NameLike /\ UrlWords \subseteq UrlLike
    /\ Malformed \cap DOMAIN Cleaned = {}
    /\ CandidateTlds # <<>>

\* A sheet is a sequence of rows, and a row one of cells.
ASSUME SheetAssumption ==
    \A b \in Bodies : b.form = "sheet" =>
        /\ b.rows \in Seq(Range(b.rows))
        /\ \A i \in DOMAIN b.rows : b.rows[i] \in Seq(Range(b.rows[i]))

VARIABLE requests   \* the requests that arrived, in order

uploadVars == <<rateVars, requests>>

Blank == ""

-----------------------------------------------------------------------------
(* The vendor list: app/ingestion.py. *)

\* one pass that takes whatever resembles an alias
FirstLike(row, words, like) ==
    LET found == {i \in DOMAIN row : row[i].text \in like}
    IN  IF found = {} THEN 0 ELSE Min(found)

\* _find_column_index: the first exact alias, else the first that resembles
\* one; 0 stands for None.
FindColumnIndex(row, words, like) ==
    LET exact == {i \in DOMAIN row : row[i].text \in words}
        fuzzy == {i \in DOMAIN row : row[i].text \in like}
    IN  IF exact # {} THEN Min(exact) ELSE IF fuzzy # {} THEN Min(fuzzy) ELSE 0

NameColumn(row) == FindColumnIndex(row, NameWords, NameLike)
UrlColumn(row) == FindColumnIndex(row, UrlWords, UrlLike)

\* _find_header_row; without one parse_vendor_excel goes on with row 1.
HeaderRow(rows) ==
    LET heads == {i \in DOMAIN rows :
                     i <= MaxHeaderRow /\ NameColumn(rows[i]) # 0 /\ UrlColumn(rows[i]) # 0}
    IN  IF heads = {} THEN 1 ELSE Min(heads)

\* _extract_cell_url and _clean_url: the hyperlink is what counts, if any.
CellUrl(cell) == IF cell.link # Blank THEN cell.link ELSE cell.text
HasSite(cell) == CellUrl(cell) \in DOMAIN Cleaned
Site(cell) == Cleaned[CellUrl(cell)]

\* A row that parse_vendor_excel does not skip, but for its domain.
Usable(row, n, u) == row[n].text # Blank /\ HasSite(row[u])

\* The rows that are taken: of those with one domain, the first.
Taken(rows, head, n, u) ==
    {i \in DOMAIN rows :
        /\ i > head /\ Usable(rows[i], n, u)
        /\ \A j \in head + 1..i - 1 :
              Usable(rows[j], n, u) => Site(rows[j][u]) # Site(rows[i][u])}

\* The n-th of the rows that are taken.
Nth(taken, n) == CHOOSE i \in taken : Cardinality({j \in taken : j <= i}) = n

\* _clean_url raises a ValueError on the site of a row that has a name.
Breaks(row, n, u) == row[n].text # Blank /\ CellUrl(row[u]) \in Malformed

\* One such row below the header ends parse_vendor_excel, whatever the others
\* hold; it is no IngestionError.
ParseRaises(rows) ==
    LET head == HeaderRow(rows)
        n == NameColumn(rows[head])
        u == UrlColumn(rows[head])
    IN  /\ Len(rows) >= 2 /\ n # 0 /\ u # 0
        /\ \E i \in head + 1..Len(rows) : Breaks(rows[i], n, u)

\* parse_vendor_excel when nothing raises; an empty list stands for an
\* IngestionError.
ParseVendorExcel(rows) ==
    LET head == HeaderRow(rows)
        n == NameColumn(rows[head])
        u == UrlColumn(rows[head])
    IN  IF Len(rows) < 2 \/ n = 0 \/ u = 0
        THEN <<>>
        ELSE LET taken == Taken(rows, head, n, u)
             IN  [k \in 1..Cardinality(taken) |->
                    LET row == rows[Nth(taken, k)]
                    IN  [name |-> row[n].text, domain |-> Site(row[u])]]

Sheets == {body \in Bodies : body.form = "sheet"}
VendorsIn == [sheet \in Sheets |-> ParseVendorExcel(sheet.rows)]
Broken == {sheet \in Sheets : ParseRaises(sheet.rows)}

-----------------------------------------------------------------------------
(* The handlers. *)

UploadInit == RateInit /\ requests = <<>>

\* The answer to a request: where its handler stands.
Request(ip, body, state, vendors) ==
    [ip |-> ip, at |-> clock, body |-> body, state |-> state, tried |-> 0, vendors |-> vendors]

\* start_scan up to its await.
ReceiveFile(ip, body) ==
    Request(ip, body, IF body.excel THEN "reading" ELSE "rejected", <<>>)

\* start_single_vendor_scan, up to discover_domain's first await if the
\* website is missing and the name gives candidates.  Nothing catches the
\* ValueError of clean_url, so the answer to it is a 500 ("raised").
ReceiveSingle(ip, body) ==
    CASE body.name = Blank -> Request(ip, body, "rejected", <<>>)
      [] body.name # Blank /\ body.website # Blank ->
            IF body.website \in DOMAIN Cleaned
            THEN Request(ip, body, "job", <<[name |-> body.name, domain |-> Cleaned[body.website]]>>)
            ELSE Request(ip, body, IF body.website \in Malformed THEN "raised" ELSE "rejected", <<>>)
      [] OTHER ->
            Request(ip, body, IF body.name \in DOMAIN Slug THEN "discovering" ELSE "rejected", <<>>)

\* a handler that counts only the requests it takes on
ReceiveThenCount(ip, body) ==
    LET received == IF body.form = "sheet" THEN ReceiveFile(ip, body) ELSE ReceiveSingle(ip, body)
    IN  /\ Len(requests) < MaxArrivals
        /\ requests' = Append(requests, received)
        /\ IF received.state = "job" THEN CheckRateLimit(ip) ELSE UNCHANGED rateVars

\* Both handlers: the limit comes before all else, and a request that is
\* refused by it (429) goes no further.
Receive(ip, body) ==
    /\ Len(requests) < MaxArrivals
    /\ CheckRateLimit(ip)
    /\ requests' = Append(requests,
          IF refused'[ip] # refused[ip] THEN Request(ip, body, "limited", <<>>)
          ELSE IF body.form = "sheet" THEN ReceiveFile(ip, body) ELSE ReceiveSingle(ip, body))

\* a list as long as it comes
ReadFileUncapped(r) ==
    /\ requests[r].state = "reading"
    /\ LET vendors == VendorsIn[requests[r].body]
       IN  requests' = [requests EXCEPT ![r] =
              IF ~requests[r].body.big /\ requests[r].body \in Broken
              THEN [@ EXCEPT !.state = "raised"]
              ELSE IF requests[r].body.big \/ vendors = <<>>
              THEN [@ EXCEPT !.state = "rejected"]
              ELSE [@ EXCEPT !.state = "job", !.vendors = vendors]]
    /\ UNCHANGED rateVars

\* start_scan once the file is there; of what parse_vendor_excel raises it
\* catches IngestionError alone.
ReadFile(r) ==
    /\ requests[r].state = "reading"
    /\ LET vendors == VendorsIn[requests[r].body]
       IN  requests' = [requests EXCEPT ![r] =
              IF ~requests[r].body.big /\ requests[r].body \in Broken
              THEN [@ EXCEPT !.state = "raised"]
              ELSE IF requests[r].body.big \/ vendors = <<>> \/ Len(vendors) > MaxVendors
              THEN [@ EXCEPT !.state = "rejected"]
              ELSE [@ EXCEPT !.state = "job", !.vendors = vendors]]
    /\ UNCHANGED rateVars

\* _generate_domain_candidates
Candidate(name, k) == <<Slug[name], CandidateTlds[k]>>

\* candidates that are begun again at their end
ProbeAround(r) ==
    /\ requests[r].state = "discovering"
    /\ LET name == requests[r].body.name
           k == requests[r].tried + 1
       IN  \E answers \in BOOLEAN : requests' = [requests EXCEPT ![r] =
              IF answers
              THEN [@ EXCEPT !.state = "job", !.tried = k,
                             !.vendors = <<[name |-> name, domain |-> Candidate(name, k)]>>]
              ELSE [@ EXCEPT !.tried = k % Len(CandidateTlds)]]
    /\ UNCHANGED rateVars

\* discover_domain: one candidate resolves and answers over https or http, or
\* does not; the first that does is the vendor's website, and without any the
\* request is rejected.
Probe(r) ==
    /\ requests[r].state = "discovering"
    /\ LET name == requests[r].body.name
           k == requests[r].tried + 1
       IN  \E answers \in BOOLEAN : requests' = [requests EXCEPT ![r] =
              IF answers
              THEN [@ EXCEPT !.state = "job", !.tried = k,
                             !.vendors = <<[name |-> name, domain |-> Candidate(name, k)]>>]
              ELSE [@ EXCEPT !.tried = k,
                             !.state = IF k = Len(CandidateTlds) THEN "rejected" ELSE "discovering"]]
    /\ UNCHANGED rateVars

UploadTick == RateTick /\ UNCHANGED requests

\* A restart forgets the deques, the jobs and the requests being handled.
UploadRestart ==
    /\ RateRestart
    /\ requests' = [r \in DOMAIN requests |-> [requests[r] EXCEPT !.state = "lost"]]

UploadNext ==
    \/ \E ip \in IPs, body \in Bodies : Receive(ip, body)
    \/ \E r \in DOMAIN requests : ReadFile(r) \/ Probe(r)
    \/ UploadTick
    \/ UploadRestart

\* The event loop gets to every handler, and the file and each candidate's
\* lookups come to an end (DNS_TIMEOUT, HTTP_TIMEOUT).
UploadSpec ==
    /\ UploadInit /\ [][UploadNext]_uploadVars
    /\ \A r \in 1..MaxArrivals : WF_uploadVars(r \in DOMAIN requests /\ (ReadFile(r) \/ Probe(r)))

-----------------------------------------------------------------------------

\* What is being worked on or has become a job.
Admitted == {"reading", "discovering", "job"}

UploadTypeOK ==
    /\ RateTypeOK
    /\ \A r \in DOMAIN requests :
          /\ requests[r].ip \in IPs /\ requests[r].at \in 0..clock /\ requests[r].body \in Bodies
          /\ requests[r].state \in Admitted \cup {"limited", "rejected", "raised", "lost"}
          /\ requests[r].state = "job" => Len(requests[r].vendors) \in 1..MaxVendors

\* However long the handlers take and however their awaits interleave, the
\* requests of one address that arrived in one window and were worked on are
\* never more than the limit (start_scan, start_single_vendor_scan).
AdmittedWithinLimit ==
    \A ip \in IPs, from \in 0..clock :
        Cardinality({r \in DOMAIN requests :
            /\ requests[r].ip = ip /\ requests[r].state \in Admitted
            /\ requests[r].at \in from..from + Window}) <= MaxRequests

\* The header that the sheet's author meant: it uses the very words, in a row
\* that is looked at and after none that resembles a header.
Meant(rows, head) ==
    /\ head <= MaxHeaderRow
    /\ \E c \in DOMAIN rows[head] : rows[head][c].text \in NameWords
    /\ \E c \in DOMAIN rows[head] : rows[head][c].text \in UrlWords
    /\ \A i \in 1..head - 1 :
          \/ \A c \in DOMAIN rows[i] : rows[i][c].text \notin NameLike
          \/ \A c \in DOMAIN rows[i] : rows[i][c].text \notin UrlLike

\* What stands below that header: names and domains, a row at a time.
Listed(rows, head) ==
    LET n == Min({c \in DOMAIN rows[head] : rows[head][c].text \in NameWords})
        u == Min({c \in DOMAIN rows[head] : rows[head][c].text \in UrlWords})
        filled == {i \in head + 1..Len(rows) : rows[i][n].text # Blank /\ HasSite(rows[i][u])}
    IN  {[row |-> i, name |-> rows[i][n].text, domain |-> Site(rows[i][u])] : i \in filled}

\* Somewhere below that header a name stands beside a text that urlparse does
\* not take.
Spoilt(rows, head) ==
    LET n == Min({c \in DOMAIN rows[head] : rows[head][c].text \in NameWords})
        u == Min({c \in DOMAIN rows[head] : rows[head][c].text \in UrlWords})
    IN  \E i \in head + 1..Len(rows) : rows[i][n].text # Blank /\ CellUrl(rows[i][u]) \in Malformed

\* Whoever words the header as the aliases do, under any banner that does not
\* resemble one and among any other columns, gets each listed domain scanned
\* once, under the name that stands first beside it; is turned away only if the
\* list is empty or too long; and gets a 500, with nothing scanned, exactly when
\* one of the names has a site text that urlparse does not take.  The same text
\* in another column, or beside no name, does no harm (parse_vendor_excel,
\* _clean_url, start_scan).
ListedVendorsScanned ==
    \A r \in DOMAIN requests :
        LET body == requests[r].body IN
        body.form = "sheet" =>
            \A head \in {h \in DOMAIN body.rows : Meant(body.rows, h)} :
                LET listed == Listed(body.rows, head)
                    domains == {v.domain : v \in listed}
                    taken == requests[r].vendors
                    spoilt == Spoilt(body.rows, head)
                IN  /\ requests[r].state = "raised" => spoilt /\ taken = <<>>
                    /\ requests[r].state = "job" =>
                          /\ ~spoilt
                          /\ Len(taken) = Cardinality(domains)
                          /\ \A d \in domains : \E k \in DOMAIN taken : \E v \in listed :
                                /\ taken[k].domain = d /\ v.domain = d /\ taken[k].name = v.name
                                /\ \A w \in listed : w.domain = d => v.row <= w.row
                    /\ requests[r].state = "rejected" =>
                          \/ ~body.excel \/ body.big
                          \/ ~spoilt /\ Cardinality(domains) \notin 1..MaxVendors

\* Every request that passed the limit comes to a job, a refusal or a 500,
\* unless the process is restarted under it; a name of which no candidate answers
\* does not keep its request for ever (discover_domain).
RequestsAnswered ==
    \A r \in 1..MaxArrivals :
        (r \in DOMAIN requests /\ requests[r].state \in {"reading", "discovering"})
            ~> (r \in DOMAIN requests /\ requests[r].state \in {"job", "rejected", "raised", "lost"})
=============================================================================
