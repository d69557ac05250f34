----------------------------- MODULE MCUploads ----------------------------
(***************************************************************************)
(* A small instance of Uploads: two addresses, three sheets and three      *)
(* single vendors.                                                         *)
(***************************************************************************)
EXTENDS Uploads

Text(t) == [text |-> t, link |-> ""]
Link(t, target) == [text |-> t, link |-> target]

Names == {"Vendor Name", "Company"}
Urls == {"Website", "URL"}
\* "Contact Name" holds "name"; "Vendor Website List" holds "vendor" and "website".
ResembleNames == Names \cup {"Contact Name", "Vendor Website List"}
ResembleUrls == Urls \cup {"Vendor Website List", "Billing URL"}

Acme == <<"acme", "com">>
Beta == <<"beta", "io">>
CleanTexts == "www.acme.com" :> Acme @@ "https://acme.com/x" :> Acme @@ "beta.io" :> Beta
              @@ "gamma.net" :> <<"gamma", "net">>
Slugs == "Acme" :> "acme" @@ "Beta" :> "beta"
NoUrls == {"[n/a]"}
Tlds == <<"com", "io">>

Header == <<Text("Contact Name"), Text("Billing URL"), Text("Vendor Name"), Text("Website")>>
Row(name, url) == <<Text("Ann"), Text("gamma.net"), Text(name), url>>

Sheet(rows) == [form |-> "sheet", excel |-> TRUE, big |-> FALSE, rows |-> rows]
Single(name, website) == [form |-> "single", name |-> name, website |-> website]

\* A banner, other columns that resemble the two, a domain in two writings,
\* a link behind a label, rows without a name and one without a site.
Good == Sheet(<< <<Text("Q3 review"), Text(""), Text(""), Text("")>>, Header,
                 Row("Acme", Text("www.acme.com")), Row("Acme Inc", Text("https://acme.com/x")),
                 Row("Beta", Link("our site", "beta.io")), Row("", Text("gamma.net")),
                 Row("", Text("[n/a]")),
                 Row("Gamma", Text("n/a")) >>)
OneBroken == Sheet(<< Header, Row("Acme", Text("www.acme.com")), Row("Beta", Text("[n/a]")) >>)
TooMany == Sheet(<< Header, Row("Acme", Text("www.acme.com")), Row("Beta", Text("beta.io")),
                    Row("Gamma", Text("gamma.net")) >>)
AllBodies == {Good, TooMany, OneBroken,
              Single("Beta", ""), Single("Acme", "www.acme.com"), Single("Beta", "[n/a]")}
=============================================================================
