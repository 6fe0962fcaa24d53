--------------------------- MODULE ReportService ---------------------------
(***************************************************************************)
(* Stored scans and the read endpoints that rebuild reports from them:     *)
(* internal/store/sqlstore.go and tags.go, the report handlers of          *)
(* internal/server and the report cache.                                   *)
(*                                                                         *)
(* A request reads the scans, the cohort tags, the groups and then the     *)
(* results of each scan in separate queries, while other requests save,    *)
(* prune, tag and regroup.  What report.Build makes of its inputs is the   *)
(* record of those inputs.                                                 *)
(*                                                                         *)
(* Names, tag values and group names are texts, which nobody checks: each  *)
(* is a sequence of character codes, because the cache joins them into its *)
(* key.                                                                    *)
(***************************************************************************)
EXTENDS Naturals, Sequences, FiniteSets, SequencesExt

CONSTANTS
    ScanIDs,         \* scan ids in their order, a subset of Nat
    Clusters,        \* cluster names
    TagValues,       \* values of the cohort tag
    Groups,          \* group names
    Names,           \* names that a group may list; no query checks that a cluster has one
    Lists,           \* the lists of names that a group is saved with
    Members,         \* the list that each group has at first
    Requests,        \* read requests, each made once
    ReportCacheSize, \* reportCacheSize
    MaxSeconds,      \* bound on timestamps, in seconds
    MaxEdits,        \* bound on tag and group edits and failing queries
    Absent           \* no row, no tag, nothing

ASSUME ReportServiceAssumption ==
    /\ ScanIDs \subseteq Nat
    /\ ReportCacheSize \in Nat \ {0}
    /\ MaxSeconds \in Nat /\ MaxEdits \in Nat
    /\ (\A cs \in SUBSET Clusters : cs # Absent) /\ Absent \notin TagValues
    /\ (\A cs \in SUBSET Names : cs # Absent) /\ Clusters \subseteq Names
    /\ Lists \subseteq SUBSET Names /\ Members \in Lists

VARIABLES
    scans,      \* scans and scan_results: per id the row, or Absent
    saved,      \* history: what was saved under each id
    tags,       \* cluster_tags with key "cohort"
    groups,     \* groups with group_clusters, or Absent
    edits,      \* edits and failing queries so far
    entries,    \* reportCache.entries
    order,      \* reportCache.order
    req         \* the requests in progress

reportVars == <<scans, saved, tags, groups, edits, entries, order, req>>
rows == <<scans, saved, tags, groups>>
store == <<rows, edits>>

-----------------------------------------------------------------------------
(* The store.                                                              *)

\* SaveScanRecord: one transaction inserts the scan and its results.  A scanner
\* may have answered for some of the clusters only.  (first_seen and last_seen
\* of a cluster, which only the list of clusters shows, are left out.)
SaveScanRecord(id, ts, cs, rs) ==
    /\ scans[id] = Absent /\ saved[id] = Absent
    /\ scans' = [scans EXCEPT ![id] = [ts |-> ts, clusters |-> cs, results |-> rs]]
    /\ saved' = [saved EXCEPT ![id] = rs]
    /\ UNCHANGED <<tags, groups, edits, entries, order, req>>

\* Prune deletes the scans older than the cutoff; their results cascade.
Prune(cutoff) ==
    /\ \E id \in ScanIDs : scans[id] # Absent /\ scans[id].ts < cutoff
    /\ scans' = [id \in ScanIDs |->
            IF scans[id] # Absent /\ scans[id].ts < cutoff THEN Absent ELSE scans[id]]
    /\ UNCHANGED <<saved, tags, groups, edits, entries, order, req>>

\* Edits and failed queries share one bound.
Edit == edits < MaxEdits /\ edits' = edits + 1

Query(ok) == IF ok THEN UNCHANGED edits ELSE Edit

SetClusterTag(c, value) ==
    /\ Edit
    /\ tags' = [tags EXCEPT ![c] = value]
    /\ UNCHANGED <<scans, saved, groups, entries, order, req>>

DeleteClusterTag(c) ==
    /\ Edit
    /\ tags' = [tags EXCEPT ![c] = Absent]
    /\ UNCHANGED <<scans, saved, groups, entries, order, req>>

\* SaveGroup replaces the members in one transaction.
SaveGroup(g, cs) ==
    /\ Edit
    /\ groups' = [groups EXCEPT ![g] = cs]
    /\ UNCHANGED <<scans, saved, tags, entries, order, req>>

\* DeleteGroup answers ErrNotFound, and changes nothing, without the group.
DeleteGroup(g) ==
    /\ Edit
    /\ groups[g] # Absent
    /\ groups' = [groups EXCEPT ![g] = Absent]
    /\ UNCHANGED <<scans, saved, tags, entries, order, req>>

\* The foreign key refuses a member of a group that does not exist.
AddClusterToGroup(g, c) ==
    /\ Edit
    /\ groups[g] # Absent
    /\ groups' = [groups EXCEPT ![g] = @ \cup {c}]
    /\ UNCHANGED <<scans, saved, tags, entries, order, req>>

RemoveClusterFromGroup(g, c) ==
    /\ Edit
    /\ groups' = [groups EXCEPT ![g] = IF @ = Absent THEN @ ELSE @ \ {c}]
    /\ UNCHANGED <<scans, saved, tags, entries, order, req>>

\* scanRecord: what a row of scans says of the scan.  (Its timestamp orders the
\* rows and is shown, so a record need not keep it.)
scanRecord(id) == [id |-> id, clusters |-> scans[id].clusters]
timestamp(r) == scans[r.id].ts

\* ORDER BY timestamp DESC, id DESC: a comes before b.
newerFirst(a, b) ==
    timestamp(a) > timestamp(b) \/ (timestamp(a) = timestamp(b) /\ a.id > b.id)

Rows == {scanRecord(id) : id \in {i \in ScanIDs : scans[i] # Absent}}

\* Rows in that order.
newestFirst(S) ==
    LET place(r) == Cardinality({x \in S : x = r \/ newerFirst(x, r)})
    IN  [n \in 1..Cardinality(S) |-> CHOOSE r \in S : place(r) = n]

ListScans(limit) ==
    LET all == newestFirst(Rows)
    IN  SubSeq(all, 1, IF Len(all) < limit THEN Len(all) ELSE limit)

\* GetScansByTimeRange compares texts.  Stored timestamps are UTC; a bound keeps
\* the offset it was given in, so its text orders by its local time, and "+" and
\* "-" sort before the "Z" of a stored timestamp with equal digits.
GetScansByTimeRange(since, until, offset) ==
    LET lo == since + offset
        hi == until + offset
        in(r) == timestamp(r) >= lo /\ (timestamp(r) < hi \/ (timestamp(r) = hi /\ offset = 0))
    IN  newestFirst({r \in Rows : in(r)})

GetScanResults(id) == IF scans[id] = Absent THEN {} ELSE scans[id].results

\* projectCohortTags: the clusters that carry the cohort tag.
projectCohortTags == {c \in Clusters : tags[c] # Absent}
TagMap == [c \in projectCohortTags |-> tags[c]]
ListGroups == [g \in {h \in Groups : groups[h] # Absent} |-> groups[g]]

-----------------------------------------------------------------------------
(* Reports and their cache.                                                *)

\* report.Build is a function of these inputs.
build(rec, rs, opts) == [scan |-> rec.id, results |-> rs, opts |-> opts]

\* The separators "+", ",", ";" and "=".
Plus == 43
Comma == 44
Semicolon == 59
Equals == 61

\* The order of sort.Strings.
textLess(a, b) ==
    \/ IsStrictPrefix(a, b)
    \/ \E i \in DOMAIN a \cap DOMAIN b : a[i] < b[i] /\ SubSeq(a, 1, i - 1) = SubSeq(b, 1, i - 1)

sorted(texts) == SortSeq(texts, textLess)

\* strings.Join
joined(texts, sep) ==
    IF texts = <<>> THEN <<>>
    ELSE FoldLeft(LAMBDA text, next : text \o <<sep>> \o next, Head(texts), Tail(texts))

\* The items "name=value" of a map of texts, sorted and joined.
keyItems(map) ==
    LET names == SetToSeq(DOMAIN map)
    IN  joined(sorted([i \in DOMAIN names |-> names[i] \o <<Equals>> \o map[names[i]]]), Comma)

\* optionsKey writes the threshold, the tags and the groups into one text, without
\* escaping.  (The threshold, a number followed by the first ";", is kept apart.)
optionsKey(opts) ==
    LET lists == [g \in DOMAIN opts.groups |-> joined(sorted(SetToSeq(opts.groups[g])), Plus)]
    IN  <<opts.threshold, keyItems(opts.tags) \o <<Semicolon>> \o keyItems(lists)>>

\* (mutant) The key leaves out the groups.
KeyWithoutGroups(id, opts) == <<id, opts.threshold, keyItems(opts.tags)>>

\* The id, a NUL and the options; an id holds no NUL.
cacheKey(id, opts) == <<id, optionsKey(opts)>>

\* reportCache.get after the build: insert unless present, evict the oldest.
insert(key, rpt) ==
    LET full == IF key \in DOMAIN entries THEN order ELSE Append(order, key)
        kept == IF Len(full) > ReportCacheSize THEN Tail(full) ELSE full
    IN  /\ order' = kept
        /\ entries' = [k \in Range(kept) |->
                           IF k \in DOMAIN entries THEN entries[k] ELSE rpt]

-----------------------------------------------------------------------------
(* Requests.  An endpoint names its scan or takes a window of the newest   *)
(* ones; it reads the results before or after the options, and builds its  *)
(* reports through the cache or for itself.  A serial endpoint builds each *)
(* scan before it reads the next and skips a scan it cannot read.          *)

Own == [resultsFirst |-> TRUE, cached |-> FALSE, serial |-> FALSE, threshold |-> "default"]
Latest == [Own EXCEPT !.resultsFirst = FALSE, !.cached = TRUE]
Kinds == [resultsFirst : BOOLEAN, cached : BOOLEAN, serial : BOOLEAN,
          threshold : {"default", "asked"}]

\* A handler: how it reads, how many scans when the request does not say, and how
\* many at most (0: no ceiling).
Endpoint(kind, default, ceiling) == [kind |-> kind, default |-> default, ceiling |-> ceiling]
OneScan(kind) == Endpoint(kind, 1, 1)
Serial(default, ceiling) == Endpoint([Latest EXCEPT !.serial = TRUE], default, ceiling)

\* Handlers of one scan; ?threshold= makes a report of its own.
handleGetClusterDetail == {OneScan(Latest)}
handleGetOutliers == {OneScan(Latest), OneScan([Latest EXCEPT !.threshold = "asked"])}
handleGetCohorts == {OneScan(Latest), OneScan([Latest EXCEPT !.threshold = "asked"])}
handleGetCapacity == {OneScan(Latest)}
handleGetDistributions == {OneScan(Latest)}
handleGetScoreAttribution == {OneScan(Latest)}
handleGetCohortMap == {OneScan(Latest)}
handleGetGeo == {OneScan(Own)}
handleGetCost == {OneScan(Own)}
whatIf == {OneScan([Latest EXCEPT !.cached = FALSE])}
handleGetScanReport == {OneScan(Own)}
handleGetScanSeal == {OneScan(Own)}
latestReport == {OneScan([Own EXCEPT !.cached = TRUE])}

\* Handlers of a window of scans.
handleGetDistributionHistory == {Endpoint(Latest, 24, 50)}
handleGetDrift == {Endpoint(Latest, 10, 50)}
handleFindingsTimeline == {Serial(24, 60)}
handleFindingsPersistence == {Serial(24, 60)}
handleGetFleetScoreForecast == {Serial(10, 0)}
handleGetClusterForecasts == {Serial(10, 0)}

\* latestScan reports on the scan that ?scan= names, else on the newest.
ofLatestScan == UNION {handleGetClusterDetail, handleGetOutliers, handleGetCohorts,
    handleGetCapacity, handleGetDistributions, handleGetScoreAttribution, handleGetCohortMap,
    handleGetGeo, handleGetCost, whatIf}
ofNewestScans == UNION {ofLatestScan, latestReport, handleGetDistributionHistory, handleGetDrift,
    handleFindingsTimeline, handleFindingsPersistence, handleGetFleetScoreForecast,
    handleGetClusterForecasts}
ofNamedScan == UNION {ofLatestScan, handleGetScanReport, handleGetScanSeal}

\* queryLimit, clampScanWindow: 0 stands for an absent or malformed parameter.
queryLimit(asked, e) ==
    LET n == IF asked = 0 THEN e.default ELSE asked
    IN  IF e.ceiling > 0 /\ n > e.ceiling THEN e.ceiling ELSE n

NoOptions == [threshold |-> "default", tags |-> <<>>, groups |-> <<>>]
Idle == [pc |-> "idle", kind |-> Own, list |-> <<>>, opts |-> NoOptions,
         loaded |-> <<>>, built |-> <<>>]
Done == [Idle EXCEPT !.pc = "done"]

\* A request of kind k for the scans of a list, oldest first.
Reading(k, list) ==
    [Idle EXCEPT !.pc = IF k.resultsFirst THEN "load" ELSE "tags", !.kind = k, !.list = list,
                 !.opts.threshold = k.threshold]

\* loadScanSeries, findingSeries, fleetScoreHistory and latestScan without ?scan=.
\* Without any scan the answer is empty or a 404.  (The forecasts walk the list
\* newest first; no property tells the two orders apart.)
StartList(r, e, asked) ==
    LET list == Reverse(ListScans(queryLimit(asked, e))) IN
    /\ req[r].pc = "idle"
    /\ list # <<>>
    /\ req' = [req EXCEPT ![r] = Reading(e.kind, list)]
    /\ UNCHANGED <<store, entries, order>>

\* GetScan by id; a scan that is not stored is a 404.
StartScan(r, e, id) ==
    /\ req[r].pc = "idle"
    /\ scans[id] # Absent
    /\ req' = [req EXCEPT ![r] = Reading(e.kind, <<scanRecord(id)>>)]
    /\ UNCHANGED <<store, entries, order>>

\* loadScanRange: the newest n scans between two bounds given in UTC.
StartRange(r, since, until, n) ==
    LET found == GetScansByTimeRange(since, until, 0)
        kept == SubSeq(found, 1, IF Len(found) < n THEN Len(found) ELSE n)
    IN  /\ req[r].pc = "idle"
        /\ kept # <<>>
        /\ req' = [req EXCEPT ![r] = Reading(Latest, Reverse(kept))]
        /\ UNCHANGED <<store, entries, order>>

\* StoreReportOptions: the tags and the groups are read by separate queries, and
\* an input that cannot be read is left out.
ReadTags(r, ok) ==
    /\ req[r].pc = "tags"
    /\ req' = [req EXCEPT ![r].pc = "groups", ![r].opts.tags = IF ok THEN TagMap ELSE <<>>]
    /\ Query(ok)
    /\ UNCHANGED <<rows, entries, order>>

ReadGroups(r, ok) ==
    /\ req[r].pc = "groups"
    /\ req' = [req EXCEPT ![r].pc = IF req[r].kind.resultsFirst THEN "get" ELSE "load",
                          ![r].opts.groups = IF ok THEN ListGroups ELSE <<>>]
    /\ Query(ok)
    /\ UNCHANGED <<rows, entries, order>>

\* GetScanResults of the next scan of the list.
LoadResults(r) ==
    LET q == req[r]
        i == Len(q.loaded) + 1
        more == i < Len(q.list)
    IN  /\ q.pc = "load"
        /\ req' = [req EXCEPT
               ![r].loaded = Append(@, GetScanResults(q.list[i].id)),
               ![r].pc = IF q.kind.resultsFirst THEN "tags"
                         ELSE IF more /\ ~q.kind.serial THEN "load" ELSE "get"]
        /\ UNCHANGED <<store, entries, order>>

\* The request once report i of its list is there: it reads or gets the next
\* one, or answers with what it has built.
GoesOn(q, i) ==
    IF i = Len(q.list) THEN [q EXCEPT !.pc = "answer", !.kind = Own, !.loaded = <<>>]
    ELSE [q EXCEPT !.pc = IF q.kind.serial THEN "load" ELSE "get"]

\* A failed read: a series of findings skips the scan, the others answer 500.
LoadFails(r) ==
    LET q == req[r]
        i == Len(q.loaded) + 1
    IN  /\ q.pc = "load"
        /\ req' = [req EXCEPT ![r] =
               IF q.kind.serial /\ Len(q.list) > 1
               THEN GoesOn([q EXCEPT !.list = RemoveAt(q.list, i)], i - 1)
               ELSE Done]
        /\ Edit
        /\ UNCHANGED <<rows, entries, order>>

Key(q, i) == cacheKey(q.list[i].id, q.opts)

\* reportCache.get: a hit.
CacheHit(r) ==
    LET q == req[r]
        i == Len(q.built) + 1
    IN  /\ q.pc = "get"
        /\ q.kind.cached
        /\ Key(q, i) \in DOMAIN entries
        /\ req' = [req EXCEPT ![r] = GoesOn([q EXCEPT !.built = Append(@, entries[Key(q, i)])], i)]
        /\ UNCHANGED <<store, entries, order>>

\* reportCache.get: a miss; the report is built outside the lock.
CacheMiss(r) ==
    LET q == req[r]
        i == Len(q.built) + 1
    IN  /\ q.pc = "get"
        /\ ~q.kind.cached \/ Key(q, i) \notin DOMAIN entries
        /\ LET has == [q EXCEPT !.built = Append(@, build(q.list[i], q.loaded[i], q.opts))]
           IN  req' = [req EXCEPT ![r] =
                   IF q.kind.cached THEN [has EXCEPT !.pc = "insert"] ELSE GoesOn(has, i)]
        /\ UNCHANGED <<store, entries, order>>

\* reportCache.get: what is in the cache now is returned.
CacheInsert(r) ==
    LET q == req[r]
        i == Len(q.built)
        key == Key(q, i)
    IN  /\ q.pc = "insert"
        /\ insert(key, q.built[i])
        /\ req' = [req EXCEPT ![r] = GoesOn([q EXCEPT !.built[i] = entries'[key]], i)]
        /\ UNCHANGED store

\* markAcked on the request's own copy of the findings, and the answer: neither
\* changes a shared report.
Answer(r) ==
    /\ req[r].pc = "answer"
    /\ req' = [req EXCEPT ![r] = Done]
    /\ UNCHANGED <<store, entries, order>>

\* No scan and no tag is stored; each group lists its first members.
ReportInit ==
    /\ scans = [id \in ScanIDs |-> Absent]
    /\ saved = [id \in ScanIDs |-> Absent]
    /\ tags = [c \in Clusters |-> Absent]
    /\ groups = [g \in Groups |-> Members]
    /\ edits = 0
    /\ entries = <<>>
    /\ order = <<>>
    /\ req = [r \in Requests |-> Idle]

\* A scan that began before another one may be saved after it, so timestamps
\* come in any order.
Saves == \E id \in ScanIDs, ts \in 0..MaxSeconds, cs \in SUBSET Clusters \ {{}} :
             \E rs \in SUBSET cs \ {{}} : SaveScanRecord(id, ts, cs, rs)

Edits ==
    \/ \E c \in Clusters, v \in TagValues : SetClusterTag(c, v)
    \/ \E c \in Clusters : DeleteClusterTag(c)
    \/ \E g \in Groups, cs \in Lists : SaveGroup(g, cs)
    \/ \E g \in Groups : DeleteGroup(g)
    \/ \E g \in Groups, c \in Clusters :
           AddClusterToGroup(g, c) \/ RemoveClusterFromGroup(g, c)

\* A request arrives.
Arrives(r) ==
    \/ \E e \in ofNewestScans, asked \in 0..1 : StartList(r, e, asked)
    \/ \E e \in ofNamedScan, id \in ScanIDs : StartScan(r, e, id)
    \/ \E since, until \in 0..MaxSeconds : StartRange(r, since, until, 1)

RequestStep(r) ==
    \/ req[r].pc = "idle" /\ Arrives(r)
    \/ \E ok \in BOOLEAN : ReadTags(r, ok) \/ ReadGroups(r, ok)
    \/ LoadResults(r) \/ LoadFails(r)
    \/ CacheHit(r) \/ CacheMiss(r) \/ CacheInsert(r) \/ Answer(r)

ReportNext ==
    \/ Saves \/ Edits
    \/ \E cutoff \in 1..(MaxSeconds + 1) : Prune(cutoff)
    \/ \E r \in Requests : RequestStep(r)

ReportSpec == ReportInit /\ [][ReportNext]_reportVars

-----------------------------------------------------------------------------
Options == [threshold : {"default", "asked"},
            tags : UNION {[D -> TagValues] : D \in SUBSET Clusters},
            groups : UNION {[D -> SUBSET Names] : D \in SUBSET Groups}]
Reports == [scan : ScanIDs, results : SUBSET Clusters, opts : Options]

ReportTypeOK ==
    /\ \A id \in ScanIDs : scans[id] # Absent =>
           scans[id] \in [ts : 0..MaxSeconds, clusters : SUBSET Clusters, results : SUBSET Clusters]
    /\ tags \in [Clusters -> TagValues \cup {Absent}]
    /\ \A g \in Groups : groups[g] = Absent \/ groups[g] \subseteq Names
    /\ edits \in 0..MaxEdits
    /\ \A k \in DOMAIN entries : entries[k] \in Reports
    /\ \A r \in Requests :
           /\ req[r].pc \in {"idle", "tags", "groups", "load", "get", "insert", "answer", "done"}
           /\ req[r].kind \in Kinds
           /\ req[r].opts \in Options
           /\ Range(req[r].built) \subseteq Reports

\* The cache is a bounded queue without duplicates, and its reports are shared:
\* each is the one its key says.
CacheSound ==
    /\ Len(order) <= ReportCacheSize
    /\ IsInjective(order)
    /\ Range(order) = DOMAIN entries
    /\ \A k \in DOMAIN entries : k = cacheKey(entries[k].scan, entries[k].opts)

\* A report that is served was built from all results of its scan, unless the
\* scan was pruned while the request read it, and with options that have the key of
\* the ones this request has read, even when another request built it earlier.
ServedFaithfully ==
    \A r \in Requests : req[r].pc = "answer" =>
        \A i \in DOMAIN req[r].built :
            LET b == req[r].built[i]
                id == req[r].list[i].id
            IN  /\ b.scan = id
                /\ optionsKey(b.opts) = optionsKey(req[r].opts)
                /\ scans[id] # Absent => b.results = saved[id]

\* No name or value of the options holds a separator, and no group lists "".
Plain(opts) ==
    LET members == UNION Range(opts.groups)
        texts == UNION {DOMAIN opts.tags, Range(opts.tags), DOMAIN opts.groups, members}
    IN  /\ \A t \in texts : Range(t) \cap {Plus, Comma, Semicolon, Equals} = {}
        /\ <<>> \notin members

\* Among plain names the key tells the options apart, so the report that is served
\* has the request's own options.
PlainNamesTold ==
    \A r \in Requests : req[r].pc = "answer" /\ Plain(req[r].opts) =>
        \A i \in DOMAIN req[r].built :
            Plain(req[r].built[i].opts) => req[r].built[i].opts = req[r].opts

\* What an endpoint serves and what the cache keeps agree with the store
\* ("A stored scan never changes, and new cohort tags or groups change the key",
\* which the key keeps for plain names only).
ReportsFaithful == CacheSound /\ ServedFaithfully /\ PlainNamesTold
=============================================================================
