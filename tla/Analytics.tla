------------------------------ MODULE Analytics ------------------------------
(***************************************************************************)
(* The series of the dashboards of administrators and recruiters: the      *)
(* window of a request, its buckets, the rows the data base groups, and    *)
(* their merge.  The server computes in its own zone; the data base groups *)
(* by the zone of Vietnam, which is "ahead" hours ahead of the server.     *)
(* now and the creation of rows are instants of the server.                *)
(***************************************************************************)
EXTENDS Calendar, FiniteSets, Sequences

Kinds == {"day", "week", "month", "quarter", "year"}

StartOfIsoWeek(day) ==
  day - (IF Weekday(day) = 0 THEN 7 ELSE Weekday(day)) + 1
GetIsoWeek(day) ==
  LET thursday == day + 3 - ((Weekday(day) + 6) % 7)
      weekOne == FirstDay(YearOf(thursday), 1) + 3
      weeks == (thursday - weekOne - 3 + ((Weekday(weekOne) + 6) % 7)) \div 7
  IN  <<YearOf(thursday), 1 + weeks>>
FormatBucket(day, kind) ==
  CASE kind = "day" -> <<YearOf(day), MonthOf(day), DateOf(day)>>
    [] kind = "week" -> GetIsoWeek(day)
    [] kind = "month" -> <<YearOf(day), MonthOf(day)>>
    [] kind = "quarter" -> <<YearOf(day), QuarterOf(day)>>
    [] kind = "year" -> <<YearOf(day)>>
BucketStart(bucket, kind) ==
  CASE kind = "week" ->
         StartOfIsoWeek(FirstDay(bucket[1], 1) + 3) + 7 * (bucket[2] - 1)
    [] kind = "month" -> FirstDay(bucket[1], bucket[2])
    [] kind = "quarter" -> FirstDay(bucket[1], 3 * (bucket[2] - 1) + 1)
    [] kind = "year" -> FirstDay(bucket[1], 1)

----------------------------------------------------------------------------
\* The trend of a recruiter: a fixed number of buckets up to today's.
BucketCount(kind) == CASE kind = "quarter" -> 4 [] kind = "year" -> 5 [] OTHER -> 6
StartBack(day, kind, offset) ==
  CASE kind = "week" -> StartOfIsoWeek(day - 7 * offset)
    [] kind = "month" -> FirstDay(YearOf(day), MonthOf(day) - offset)
    [] kind = "quarter" ->
         FirstDay(YearOf(day), 3 * (QuarterOf(day) - 1) - 3 * offset + 1)
    [] kind = "year" -> FirstDay(YearOf(day) - offset, 1)
RecruiterBuckets(now, kind) ==
  [i \in 1 .. BucketCount(kind) |->
     FormatBucket(StartBack(now \div 24, kind, BucketCount(kind) - i), kind)]
RecruiterWindow(now, kind) ==
  [start |-> 24 * BucketStart(RecruiterBuckets(now, kind)[1], kind),
   end |-> EndOfDay(now)]

\* The growth an administrator sees: a window that ends now.
Ranges == {7, 30, 90, 365}
DefaultKind(range) == IF range = 365 THEN "month" ELSE "day"
YearBefore(day) ==      \* setFullYear, then setDate(1)
  LET moved == FirstDay(YearOf(day) - 1, MonthOf(day)) + DateOf(day) - 1
  IN  FirstDay(YearOf(moved), MonthOf(moved))
AdminWindow(now, range) ==
  [start |-> IF range = 365 THEN 24 * YearBefore(now \div 24) + (now % 24)
             ELSE now - 24 * (range - 1),
   end |-> now]
\* The loops over months and quarters step from the first day at the hour of
\* the window's start, and end at the last one's midnight.
AdminBuckets(window, kind) ==
  LET first == window.start \div 24
      hour == window.start % 24
      last == window.end \div 24
      Step(k) == IF kind = "month" THEN FirstDay(YearOf(first), MonthOf(first) + k)
                 ELSE FirstDay(YearOf(first), 3 * (QuarterOf(first) - 1) + 1 + 3 * k)
      bound == IF kind = "month" THEN FirstDay(YearOf(last), MonthOf(last))
               ELSE FirstDay(YearOf(last), 3 * (QuarterOf(last) - 1) + 1)
      steps == Cardinality({k \in 0 .. 13 : 24 * Step(k) + hour <= 24 * bound})
  IN  IF kind = "day"
      THEN [i \in 1 .. last - first + 1 |-> FormatBucket(first + i - 1, kind)]
      ELSE [i \in 1 .. steps |-> FormatBucket(Step(i - 1), kind)]

----------------------------------------------------------------------------
\* DATE_TRUNC and TO_CHAR of the data base; the ISO year and week are those
\* of the Thursday.
SqlBucket(at, kind, ahead) ==
  LET day == (at + ahead) \div 24
      thursday == StartOfIsoWeek(day) + 3
  IN  IF kind = "week"
      THEN <<YearOf(thursday), (thursday - FirstDay(YearOf(thursday), 1)) \div 7 + 1>>
      ELSE FormatBucket(day, kind)
\* Rows are records with the instant "at" of their creation.
Grouped(rows, window, kind, ahead) ==
  LET within == {r \in rows : window.start <= r.at /\ r.at <= window.end}
  IN  [b \in {SqlBucket(r.at, kind, ahead) : r \in within} |->
         Cardinality({r \in within : SqlBucket(r.at, kind, ahead) = b})]
\* What each series counts: jobs that are no drafts, users, applications;
\* and of a company the applications to a job that is not deleted.
JobGrowth(jobs, window, kind, ahead) ==
  Grouped({j \in jobs : ~j.deleted /\ j.status # "DRAFT"}, window, kind, ahead)
UserGrowth(users, window, kind, ahead) ==
  Grouped({u \in users : ~u.deleted}, window, kind, ahead)
ApplicationGrowth(applications, window, kind, ahead) ==
  Grouped({a \in applications : ~a.deleted}, window, kind, ahead)
ApplicationTrend(applications, jobs, company, window, kind, ahead) ==
  LET own == {j.id : j \in {k \in jobs : ~k.deleted /\ k.company = company}}
  IN  Grouped({a \in applications : ~a.deleted /\ a.job \in own}, window, kind, ahead)
Merged(buckets, rows) ==
  [i \in DOMAIN buckets |->
     [bucket |-> buckets[i],
      total |-> IF buckets[i] \in DOMAIN rows THEN rows[buckets[i]] ELSE 0]]
\* The answers; the growth of users and of applications is made alike.
AdminJobGrowth(jobs, now, range, kind, ahead) ==
  Merged(AdminBuckets(AdminWindow(now, range), kind),
         JobGrowth(jobs, AdminWindow(now, range), kind, ahead))
RecruiterTrend(applications, jobs, company, now, kind, ahead) ==
  Merged(RecruiterBuckets(now, kind),
         ApplicationTrend(applications, jobs, company,
                          RecruiterWindow(now, kind), kind, ahead))
=============================================================================
