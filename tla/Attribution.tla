---------------------------- MODULE Attribution ----------------------------
(***************************************************************************)
(* What an event is attributed to: RuleMatcher (src/rules.go) finds the    *)
(* firewall rules whose attributes fit it, FilterResolver                  *)
(* (src/wfpfilters.go) names the filter it carries, and processResolver    *)
(* (src/process.go) the process when the event has none.  The pump fills   *)
(* these columns once; the event's detail view matches again when opened.  *)
(*                                                                         *)
(* Names and paths are opaque: a program is its lower-case base name, the  *)
(* only part programMatches compares.  A port list is the set of its       *)
(* ranges, a number being a range of one; the words Windows writes for     *)
(* ports ("RPC") are in no range.  A protocol in text is a word or a       *)
(* numeral.                                                                *)
(***************************************************************************)
EXTENDS Integers, FiniteSets, Sequences, SequencesExt, TLC

CONSTANTS
    Snapshots,      \* what the rule query may print: sequences of lines
    Events,         \* what the event log may hold
    Processes,      \* names of running processes
    Dumps,          \* what the filter query may print: sequences of items
    Limit,          \* maxPossible, the detail view's cut
    MaxLoads        \* bound: loads that parsed some rules, or some filters

Word(w)    == [word |-> w, num |-> 0]
Numeral(n) == [word |-> "", num |-> n]

\* What the queries print, and what the event log holds.
Lists == [any : BOOLEAN, ranges : SUBSET (Nat \X Nat)]
Lines == [name : STRING, enabled : BOOLEAN, action : STRING, direction : STRING,
          protocol : [word : STRING, num : Int], local : Lists, remote : Lists,
          program : STRING]
Items == [name : STRING, id : Int]
Entries == [action : STRING, direction : STRING, protocol : Nat, src : Nat, dst : Nat,
            pid : Int, process : STRING, filter : Int]

Names == {line.name : line \in UNION {ToSet(s) : s \in Snapshots}}

ASSUME ConstantsAssumption ==
    /\ Limit \in Nat \ {0} /\ MaxLoads \in Nat
    /\ Snapshots \subseteq Seq(Lines) \ {<<>>}
    /\ Events \subseteq Entries
    /\ Processes \cap {""} = {}
    /\ Dumps \subseteq Seq(Items)
    /\ \A d \in Dumps : \A i, j \in DOMAIN d :
          i # j /\ d[i].id > 0 => d[i].id # d[j].id
    /\ Names \cap {"(Rules not loaded)", "(No matching rule)"} = {}

VARIABLES
    rules,          \* globalMatcher.rules, <<>> before the first load
    filters,        \* globalFilters.names, <<>> before the first load
    dump,           \* what filters was parsed from (history)
    rows,           \* the event resolved last, as a set of at most one row
    fresh,          \* rules are those the row was resolved with (history)
    loads           \* loads so far, for the bound

vars == <<rules, filters, dump, rows, fresh, loads>>

Init == /\ rules = <<>> /\ filters = <<>> /\ dump = <<>>
        /\ rows = {} /\ fresh = FALSE /\ loads = 0

-----------------------------------------------------------------------------
(* Protocols.  An operator named ...Mutant is a plausible mistake in the   *)
(* one after it; no specification uses it.                                 *)

AnyProtocol == 256

\* Further numbers have names too which, like IGMP, ProtocolToInt does not know;
\* they are told apart here by their number.
ProtocolNumberToName(n) ==
    CASE n = 1  -> Word("ICMP")
      [] n = 2  -> Word("IGMP")
      [] n = 6  -> Word("TCP")
      [] n = 17 -> Word("UDP")
      [] n = 58 -> Word("ICMPv6")
      [] OTHER  -> [word |-> "proto", num |-> n]

Known == [TCP |-> 6, UDP |-> 17, ICMP |-> 1, ICMPv4 |-> 1, ICMPv6 |-> 58]

\* (a word without a number of its own is taken for TCP)
ProtocolToIntMutant(t) == IF t.word = "" THEN t.num
                          ELSE IF t.word \in DOMAIN Known THEN Known[t.word]
                          ELSE IF t.word = "Any" THEN AnyProtocol ELSE 6

ProtocolToInt(t) == IF t.word = "" THEN t.num
                    ELSE IF t.word \in DOMAIN Known THEN Known[t.word]
                    ELSE AnyProtocol

\* parseRuleLine; an action other than Allow is a block.
ParseRule(line) ==
    [name      |-> line.name,
     enabled   |-> line.enabled,
     action    |-> IF line.action = "Allow" THEN 1 ELSE 0,
     direction |-> CASE line.direction = "Inbound"  -> 1
                     [] line.direction = "Outbound" -> 2
                     [] OTHER -> 0,
     protocol  |-> ProtocolToInt(line.protocol),
     local     |-> line.local,
     remote    |-> line.remote,
     program   |-> line.program]

DirectionToInt(d) == CASE d = "INBOUND"  -> 1
                       [] d = "OUTBOUND" -> 2
                       [] OTHER -> 0

-----------------------------------------------------------------------------
(* Matching one rule                                                       *)

\* Port 0, a port the event does not have, matches every list.
PortMatches(spec, port) ==
    spec.any \/ port = 0 \/ \E r \in spec.ranges : r[1] <= port /\ port <= r[2]

SpecificPort(spec, port) == ~spec.any /\ PortMatches(spec, port)

ProgramMatches(program, proc) ==
    program \notin {"", "any", "system"} /\ program = proc

Local(e)  == IF e.direction = "OUTBOUND" THEN e.src ELSE e.dst
Remote(e) == IF e.direction = "OUTBOUND" THEN e.dst ELSE e.src

\* The conditions of the loop of candidates.
Applies(r, e) ==
    LET dir   == DirectionToInt(e.direction)
        proto == ProtocolToInt(ProtocolNumberToName(e.protocol))
    IN  /\ r.enabled
        /\ r.action = (IF e.action = "DROP" THEN 0 ELSE 1)
        /\ r.direction # 0 => r.direction = dir
        /\ (r.protocol # AnyProtocol /\ proto # 0) => r.protocol = proto
        /\ PortMatches(r.local, Local(e)) /\ PortMatches(r.remote, Remote(e))
        /\ r.program # "" => e.process # "" /\ ProgramMatches(r.program, e.process)

\* The flag Strong of a candidate.
Strong(r, e) ==
    \/ r.program # "" /\ e.process # "" /\ ProgramMatches(r.program, e.process)
    \/ /\ r.direction # 0 /\ r.protocol # AnyProtocol
       /\ SpecificPort(r.local, Local(e)) \/ SpecificPort(r.remote, Remote(e))

\* (a program weighs no more than the direction)
RuleScoreMutant(r) ==
    (IF r.program # "" THEN 4 ELSE 0)
    + (IF r.direction # 0 THEN 4 ELSE 0)
    + (IF r.protocol # AnyProtocol THEN 4 ELSE 0)
    + (IF ~r.local.any THEN 2 ELSE 0)
    + (IF ~r.remote.any THEN 2 ELSE 0)

RuleScore(r) ==
    (IF r.program # "" THEN 8 ELSE 0)
    + (IF r.direction # 0 THEN 4 ELSE 0)
    + (IF r.protocol # AnyProtocol THEN 4 ELSE 0)
    + (IF ~r.local.any THEN 2 ELSE 0)
    + (IF ~r.remote.any THEN 2 ELSE 0)

-----------------------------------------------------------------------------
(* Matching the table                                                      *)

\* (the sort is not stable)
CandidatesMutant(table, e) ==
    LET fit          == {i \in DOMAIN table : Applies(table[i], e)}
        before(i, j) == \/ RuleScore(table[i]) > RuleScore(table[j])
                        \/ RuleScore(table[i]) = RuleScore(table[j]) /\ i > j
    IN  [k \in 1..Cardinality(fit) |->
            CHOOSE i \in fit : Cardinality({j \in fit : before(j, i)}) = k - 1]

\* The indices of the rules that apply, sorted by score, ties in table order:
\* the k-th is the one that k - 1 others come before.
Candidates(table, e) ==
    LET fit          == {i \in DOMAIN table : Applies(table[i], e)}
        before(i, j) == \/ RuleScore(table[i]) > RuleScore(table[j])
                        \/ RuleScore(table[i]) = RuleScore(table[j]) /\ i < j
    IN  [k \in 1..Cardinality(fit) |->
            CHOOSE i \in fit : Cardinality({j \in fit : before(j, i)}) = k - 1]

NoBest == [name |-> "", score |-> -1, count |-> 0]

\* (">=": the last of the best)
BetterMutant(best, r, e) ==
    IF ~Strong(r, e) THEN best
    ELSE LET better == RuleScore(r) >= best.score
         IN  [name  |-> IF better THEN r.name ELSE best.name,
              score |-> IF better THEN RuleScore(r) ELSE best.score,
              count |-> best.count + 1]

\* One turn of the loop of Match.
Better(best, r, e) ==
    IF ~Strong(r, e) THEN best
    ELSE LET better == RuleScore(r) > best.score
         IN  [name  |-> IF better THEN r.name ELSE best.name,
              score |-> IF better THEN RuleScore(r) ELSE best.score,
              count |-> best.count + 1]

BestStrong(table, cands, e) ==
    LET best[k \in 0..Len(cands)] ==
          IF k = 0 THEN NoBest ELSE Better(best[k - 1], table[cands[k]], e)
    IN  best[Len(cands)]

Plain(text) == [name |-> text, more |-> 0]

\* (an event without a strong match is not told apart)
MatchMutant(table, e) ==
    LET best == BestStrong(table, Candidates(table, e), e)
    IN  IF table = <<>> THEN Plain("(Rules not loaded)")
        ELSE [name |-> best.name, more |-> best.count - 1]

\* The Matched Rule column: "name" or "name (+more more)".
Match(table, e) ==
    LET best == BestStrong(table, Candidates(table, e), e)
    IN  IF table = <<>> THEN Plain("(Rules not loaded)")
        ELSE IF best.count = 0 THEN Plain("(No matching rule)")
        ELSE [name |-> best.name, more |-> best.count - 1]

\* The detail view's list, cut after Limit lines; `more` counts the rest.
PossibleMatches(table, e) ==
    LET cands == Candidates(table, e)
        shown == IF Len(cands) > Limit THEN Limit ELSE Len(cands)
    IN  [lines |-> [i \in 1..shown |-> [name   |-> table[cands[i]].name,
                                        strong |-> Strong(table[cands[i]], e)]],
         more  |-> Len(cands) - shown]

-----------------------------------------------------------------------------
(* The filter dump.  An item has a name ("" for none) and an id, 0 for one  *)
(* that ParseInt refuses; all the scanner sees of it are two tags, of which *)
(* a nameless item has only the second.                                     *)

NameTag(text) == [is |-> "name", text |-> text]
IdTag(num)    == [is |-> "filterId", num |-> num]

Tags(item) == IF item.name = "" THEN <<IdTag(item.id)>>
              ELSE <<NameTag(item.name), IdTag(item.id)>>

Printed(items) ==
    LET printed[k \in 0..Len(items)] ==
          IF k = 0 THEN <<>> ELSE printed[k - 1] \o Tags(items[k])
    IN  printed[Len(items)]

Named(names, id, name) ==
    [i \in DOMAIN names \cup {id} |-> IF i = id THEN name ELSE names[i]]

\* (the name is kept for the next item)
ScanMutant(acc, tag) ==
    IF tag.is = "name" THEN [acc EXCEPT !.lastName = tag.text]
    ELSE IF tag.num <= 0 \/ acc.lastName = "" THEN acc
    ELSE [acc EXCEPT !.names = Named(@, tag.num, acc.lastName)]

\* A filterId takes the last name before it, and takes it away, even when the
\* id is no good.
Scan(acc, tag) ==
    IF tag.is = "name" THEN [lastName |-> tag.text, names |-> acc.names]
    ELSE [lastName |-> "",
          names    |-> IF tag.num > 0 /\ acc.lastName # ""
                       THEN Named(acc.names, tag.num, acc.lastName) ELSE acc.names]

ParseWFPFilters(tags) ==
    LET scan[k \in 0..Len(tags)] ==
          IF k = 0 THEN [lastName |-> "", names |-> <<>>] ELSE Scan(scan[k - 1], tags[k])
    IN  scan[Len(tags)].names

\* The WFP Filter column.
FilterName(id) ==
    IF filters = <<>> THEN "(Filters not loaded)"
    ELSE IF id <= 0 THEN "(No filter ID)"
    ELSE IF id \notin DOMAIN filters THEN "(Unnamed filter)"
    ELSE filters[id]

-----------------------------------------------------------------------------

\* A load that parsed some rules; one that did not keeps the table.
LoadRules ==
    /\ loads < MaxLoads
    /\ \E s \in Snapshots : rules' = [i \in DOMAIN s |-> ParseRule(s[i])]
    /\ fresh' = FALSE
    /\ loads' = loads + 1
    /\ UNCHANGED <<filters, dump, rows>>

\* A dump without a single name keeps the snapshot before.
LoadFilters ==
    /\ loads < MaxLoads
    /\ \E d \in Dumps :
        LET names == ParseWFPFilters(Printed(d))
        IN  /\ names # <<>>
            /\ filters' = names
            /\ dump' = d
    /\ loads' = loads + 1
    /\ UNCHANGED <<rules, rows, fresh>>

\* What the process snapshot, taken at any time before, says of a PID.
Name(pid) == IF pid <= 0 THEN {""} ELSE Processes \cup {""}

\* The pump resolves an event of its batch: the rule and the filter first,
\* then the process.
Resolve ==
    \E e \in Events :
        /\ \E name \in (IF e.process = "" THEN Name(e.pid) ELSE {e.process}) :
              rows' = {[event   |-> e,
                        rule    |-> Match(rules, e),
                        wfp     |-> FilterName(e.filter),
                        process |-> name]}
        /\ fresh' = TRUE
        /\ UNCHANGED <<rules, filters, dump, loads>>

Next == LoadRules \/ LoadFilters \/ Resolve

Spec == Init /\ [][Next]_vars

\* The event the detail view of row r matches: its process may be known now.
AsShown(r) == [r.event EXCEPT !.process = r.process]

-----------------------------------------------------------------------------
(* Properties                                                              *)

RuleNamed(l) == l.name \notin {"(Rules not loaded)", "(No matching rule)"}

\* Every column holds a text of its kind; a count of further rules is never
\* negative (src/rules.go Match, src/wfpfilters.go FilterName).
TypeOK ==
    /\ \A i \in DOMAIN rules : rules[i].name \in Names
    /\ dump \in Dumps \cup {<<>>} /\ DOMAIN filters \subseteq Nat \ {0}
    /\ Cardinality(rows) <= 1
    /\ \A r \in rows :
        /\ r.event \in Events
        /\ r.rule.name \in Names \cup {"(Rules not loaded)", "(No matching rule)"}
        /\ r.rule.more \in Nat
        /\ r.process \in Processes \cup {"", r.event.process}
    /\ fresh \in BOOLEAN /\ loads \in 0..MaxLoads

\* The column never misleads: a rule it names is enabled, acts as the event
\* was acted on, and either is scoped to its process or gives a direction, the
\* event's own protocol number and a port list that holds the event's port (or
\* the event has none).  Names and numbers of protocols are converted back and
\* forth on the way (src/rules.go:12-15, protocolToInt).
NeverMisleads ==
    \A r \in rows : fresh /\ RuleNamed(r.rule) =>
        \E i \in DOMAIN rules :
            LET u == rules[i]
                Holds(spec, port) ==
                    ~spec.any /\ (port = 0 \/ \E x \in spec.ranges : port \in x[1]..x[2])
            IN  /\ u.name = r.rule.name /\ u.enabled
                /\ (u.action = 1) = (r.event.action # "DROP")
                /\ \/ u.program # "" /\ u.program = r.event.process
                   \/ /\ u.direction # 0 /\ u.direction = DirectionToInt(r.event.direction)
                      /\ u.protocol = r.event.protocol
                      /\ Holds(u.local, Local(r.event)) \/ Holds(u.remote, Remote(r.event))

\* The rule named is the first, in table order, of those with the highest
\* score among the strong ones, and the others are counted (src/rules.go
\* candidates' stable sort and Match's loop).
MatchedIsBest ==
    \A r \in rows : fresh /\ RuleNamed(r.rule) =>
        LET strong == {i \in DOMAIN rules : /\ Applies(rules[i], r.event)
                                            /\ Strong(rules[i], r.event)}
        IN  /\ r.rule.more = Cardinality(strong) - 1
            /\ \E i \in strong :
                /\ rules[i].name = r.rule.name
                /\ \A j \in strong \ {i} :
                    \/ RuleScore(rules[i]) > RuleScore(rules[j])
                    \/ RuleScore(rules[i]) = RuleScore(rules[j]) /\ i < j

\* A filter goes by its own name: the table has exactly the named items of the
\* dump it was parsed from, and an item without a name, or with a bad id, never
\* lends or borrows one, although the scanner sees a run of tags and no items
\* (src/wfpfilters.go parseWFPFilters).
FiltersKeepTheirNames ==
    LET named == {item \in ToSet(dump) : item.name # "" /\ item.id > 0}
    IN  /\ DOMAIN filters = {item.id : item \in named}
        /\ \A item \in named : filters[item.id] = item.name

\* A rule that merely fits never outranks one that matches strongly, so the
\* cut of the detail view drops broad rules before stronger ones, but for ties
\* (src/rules.go ruleScore against the criteria of candidates).
BroadNeverOutranks ==
    \A r \in rows : \A i, j \in DOMAIN rules :
        /\ Applies(rules[i], AsShown(r)) /\ Strong(rules[i], AsShown(r))
        /\ Applies(rules[j], AsShown(r)) /\ ~Strong(rules[j], AsShown(r))
        => RuleScore(rules[i]) >= RuleScore(rules[j])

\* Opened with the table the column was resolved with, the detail view tells
\* the same: its first strong line is the column's rule, no strong line is
\* uncounted, and without one the column says so, unless the cut hides it.
\* Where the process was found only afterwards the two may differ.
DetailAgrees ==
    \A r \in rows : fresh /\ rules # <<>> /\ r.process = r.event.process =>
        LET d      == PossibleMatches(rules, AsShown(r))
            strong == {k \in DOMAIN d.lines : d.lines[k].strong}
        IN  IF strong # {}
            THEN /\ \E k \in strong : /\ \A j \in strong : k <= j
                                     /\ d.lines[k].name = r.rule.name
                 /\ Cardinality(strong) <= r.rule.more + 1
                 /\ r.rule.more + 1 <= Cardinality(strong) + d.more
            ELSE RuleNamed(r.rule) => d.more > r.rule.more

=============================================================================
