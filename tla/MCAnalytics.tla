---------------------------- MODULE MCAnalytics -----------------------------
(* Small instances of Analytics for TLC. *)
EXTENDS Analytics

CONSTANTS r1, r2, t1, t2, t3, e1, e2

(* t1 is assessed twice, with different results; t2 and t3, of the same    *)
(* day, are not.                                                           *)
MCTransactionOf == [e \in Events |-> t1]
MCRiskLevelOf == [e \in Events |-> IF e = e1 THEN "low" ELSE "high"]
MCOccurredAt == [t \in Transactions |-> IF t = t1 THEN 1 ELSE IF t = t2 THEN 2 ELSE 3]
MCDayOf == [i \in 1..3 |-> IF i = 1 THEN 1 ELSE 2]
MCCategoryOf ==
  [t \in Transactions |-> IF t = t1 THEN "retail" ELSE IF t = t2 THEN "crypto" ELSE None]

Caller(scheme, token, roles) == [scheme |-> scheme, token |-> token, roles |-> roles]
Analyst == Caller("bearer", "valid", {"analyst", "unheard-of"})

All(endpoint) ==
  [endpoint |-> endpoint, credentials |-> Analyst, unsupported_country |-> FALSE,
   start_date |-> None, end_date |-> None, risk_level |-> None, decision |-> None,
   merchant_category |-> None, external_id |-> None, page |-> 1, page_size |-> 2]

High(endpoint) == [All(endpoint) EXCEPT !.risk_level = "high"]
Approved(endpoint) == [All(endpoint) EXCEPT !.decision = "approve"]
Crypto(endpoint) == [All(endpoint) EXCEPT !.merchant_category = "crypto"]
Retail(endpoint) == [All(endpoint) EXCEPT !.merchant_category = "retail"]
Until1(endpoint) == [All(endpoint) EXCEPT !.end_date = 1]

Second(q) == [q EXCEPT !.page = 2]
By(credentials) == [All("summary") EXCEPT !.credentials = credentials]

Pair(q, p) == [r \in Requests |-> IF r = r1 THEN q ELSE p]

(* Each endpoint beside another one, or itself, with the same filters; the *)
(* two pages of a search; and callers who are not let in.                  *)
MCSessions ==
  {Pair(All("summary"), All("risk_distribution")),
   Pair(Retail("summary"), Retail("volume_by_day")),
   Pair(Crypto("risk_distribution"), Crypto("volume_by_day")),
   Pair(High("risk_distribution"), High("volume_by_day")),
   Pair(All("volume_by_day"), Until1("volume_by_day")),
   Pair(All("search"), Second(All("search"))),
   Pair(High("search"), High("search")),
   Pair([Approved("search") EXCEPT !.external_id = t1], Until1("search")),
   Pair([All("risk_distribution") EXCEPT !.start_date = 2],
        [All("volume_by_day") EXCEPT !.start_date = 2]),
   Pair([All("summary") EXCEPT !.unsupported_country = TRUE], All("top_risk_merchants")),
   Pair(By(Caller("none", "invalid", {})), By(Caller("basic", "valid", {"admin"}))),
   Pair(By(Caller("bearer", "expired", {"admin"})), By(Caller("bearer", "untyped", {"admin"}))),
   Pair(By(Caller("bearer", "invalid", {"admin"})), By(Caller("bearer", "valid", {"readonly"}))),
   Pair(By(Caller("bearer", "valid", {"Admin"})), By(Caller("bearer", "valid", {"service"})))}
=============================================================================
