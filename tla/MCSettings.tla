----------------------------- MODULE MCSettings -----------------------------
(* A small instance of Settings for TLC: two versions whose columns are      *)
(* numbered differently, each with one the other lacks; a file an editor     *)
(* left, with fields missing and values out of range, and one of an older    *)
(* version with a column hidden, the order changed and its own filter.       *)
EXTENDS Settings

MCColumns == [old |-> <<"Time", "Action", "Rule">>,
              new |-> <<"Action", "Date", "Time">>]
MCHiddenDefault == {"Date"}
MCWidths        == {0}
MCRequests      == {1}
MCNoisePortSets == {{}, {5353}}

MCBars ==
    {NoBar,
     [NoBar EXCEPT !.text["srcPort"] = Plain("80"), !.negated = {"srcPort"},
                   !.direction = "INBOUND"],
     [NoBar EXCEPT !.text["process"] = Quoted("svc"), !.text["dstIP"] = Plain("10.0.0.1"),
                   !.pid = Pid(4), !.ipVersion = "ipv4"],
     [NoBar EXCEPT !.text["rule"] = Plain("dns"), !.negated = {"rule", "protocol"},
                   !.pid = BadPid, !.action = "DROP"]}

MCHandWritten ==
    {Broken,
     [NoConfig EXCEPT !.toggles    = "hideNoise" :> FALSE @@ "onlyAfter" :> FALSE,
                      !.noisePorts = {0, 1900, 70000},
                      !.size       = 9,
                      !.columns    = "Date" :> [visible |-> TRUE, width |-> 0]
                                  @@ "Time" :> [visible |-> TRUE, width |-> 2],
                      !.order      = <<"Rule", "Gone", "Rule", "Time">>,
                      !.bar        = [NoBar EXCEPT !.direction = "SIDEWAYS",
                                                   !.text["process"] = Plain("svc")]],
     [NoConfig EXCEPT !.toggles    = "hideNoMatch" :> TRUE @@ "liveTail" :> FALSE,
                      !.noisePorts = {5353},
                      !.size       = 3,
                      !.time       = "utc",
                      !.columns    = "Action" :> [visible |-> FALSE, width |-> 1]
                                  @@ "Time" :> [visible |-> TRUE, width |-> 0],
                      !.order      = <<"Time", "Rule", "Action">>,
                      !.bar        = [NoBar EXCEPT !.action = "ALLOW", !.ipVersion = "ipv4",
                                                   !.text["dstIP"] = Plain("224.0.0.251"),
                                                   !.negated = {"dstIP", "protocol"}]]}

MCWithin ==
    LET self == {"", "80", "8080", "53", "5353", "0", "svc", "svchost", "dns", "dns in",
                 "10.0.0.1", "10.0.0.100", "10.0.0.255", "127.0.0.1", "224.0.0.251",
                 "::1", "ff02::fb", "fe80::1", "tcp", "udp", SentinelNoMatch}
        more == "8080" :> {"80"} @@ "5353" :> {"53"} @@ "svchost" :> {"svc"}
             @@ "dns in" :> {"dns"} @@ "10.0.0.100" :> {"10.0.0.1"}
    IN  [t \in self |-> {t} \cup (IF t \in DOMAIN more THEN more[t] ELSE {})]

V4(text, first, last) == [text |-> text, fam |-> "ipv4", first |-> first, last |-> last,
                          one |-> FALSE, ff |-> FALSE]
V6(text, one, ff)     == [text |-> text, fam |-> "ipv6", first |-> 0, last |-> 0,
                          one |-> one, ff |-> ff]
NoAddress             == [V4("", 0, 0) EXCEPT !.fam = ""]

Event(src, dst, sport, dport, process, pid, rule, action, stamp) ==
    [protocol |-> "tcp", src |-> src, dst |-> dst, srcPort |-> sport, dstPort |-> dport,
     process |-> process, pid |-> pid, rule |-> rule, direction |-> "INBOUND",
     action |-> action, stamp |-> stamp]

MCEvents ==
    {Event(V4("10.0.0.1", 10, 1), V4("10.0.0.100", 10, 100), 80, 53, "svc", 4,
           "dns in", "DROP", "before"),
     Event(V4("10.0.0.100", 10, 100), V4("10.0.0.1", 10, 1), 8080, 80, "svchost", 7,
           SentinelNoMatch, "ALLOW", "after"),
     Event(V4("10.0.0.1", 10, 1), V4("224.0.0.251", 224, 251), 5353, 5353, "svc", 4,
           "dns in", "ALLOW", "before"),
     Event(V4("127.0.0.1", 127, 1), V6("::1", TRUE, FALSE), 8080, 53, "svc", 4,
           "dns", "DROP", "none"),
     Event(V6("fe80::1", FALSE, FALSE), V6("ff02::fb", FALSE, TRUE), 53, 5353, "svchost", 4,
           SentinelNoMatch, "DROP", "before"),
     Event(NoAddress, NoAddress, 0, 0, "", 0, SentinelNoMatch, "ALLOW", "none")}
=============================================================================
