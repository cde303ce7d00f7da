--------------------------- MODULE MCAttribution ---------------------------
(* Attribution for TLC: tables of one or two rules out of 19, the first     *)
(* named "A" and the second "B", over two ports; 9 is a port no list has.   *)
EXTENDS Attribution

AllPorts == [any |-> TRUE,  ranges |-> {}]
One      == [any |-> FALSE, ranges |-> {<<1, 1>>}]
OneTwo   == [any |-> FALSE, ranges |-> {<<1, 2>>}]
Keyword  == [any |-> FALSE, ranges |-> {}]

Line(enabled, action, direction, protocol, local, remote, program) ==
    [name |-> "A", enabled |-> enabled, action |-> action, direction |-> direction,
     protocol |-> protocol, local |-> local, remote |-> remote, program |-> program]

MCLines ==
    {Line(TRUE, "Allow", d, p, l, AllPorts, "") :
        d \in {"Inbound", "Any"}, p \in {Word("TCP"), Word("Any")},
        l \in {AllPorts, One}}
    \cup {Line(TRUE, "Allow", "Any", Word("Any"), AllPorts, AllPorts, "svc"),
          Line(TRUE, "Allow", "Inbound", Word("TCP"), One, AllPorts, "svc"),
          Line(TRUE, "Allow", "Inbound", Word("TCP"), AllPorts, OneTwo, ""),
          Line(TRUE, "Allow", "Any", Word("Any"), One, OneTwo, ""),
          Line(FALSE, "Allow", "Inbound", Word("TCP"), One, AllPorts, ""),
          Line(TRUE, "Block", "Inbound", Word("TCP"), One, AllPorts, ""),
          Line(TRUE, "Allow", "Outbound", Word("UDP"), AllPorts, OneTwo, ""),
          Line(TRUE, "Allow", "Inbound", Word("TCP"), Keyword, AllPorts, ""),
          Line(TRUE, "Allow", "Any", Word("Any"), AllPorts, AllPorts, "system"),
          Line(TRUE, "Allow", "Inbound", Numeral(2), One, AllPorts, ""),
          Line(TRUE, "Allow", "Inbound", Word("ICMPv4"), One, AllPorts, "")}

Second(line) == [line EXCEPT !.name = "B"]
MCSnapshots  == {<<x>> : x \in MCLines} \cup {<<x, Second(y)>> : x, y \in MCLines}

Item(name, id) == [name |-> name, id |-> id]

MCDumps == {<<Item("dns", 1), Item("", 2), Item("web", 3)>>,
            <<Item("", 2), Item("dns", 0), Item("", 3), Item("boot", 1)>>,
            <<Item("", 1), Item("", 2)>>}

Event(action, direction, protocol, src, dst, pid, process, filter) ==
    [action |-> action, direction |-> direction, protocol |-> protocol,
     src |-> src, dst |-> dst, pid |-> pid, process |-> process, filter |-> filter]

MCEvents ==
    {Event("ALLOW", "INBOUND", 6, s, d, 4, g, 1) :
        s \in {1, 9}, d \in {0, 1}, g \in {"", "svc"}}
    \cup {Event("DROP", "INBOUND", 6, 9, 1, 4, "svc", 2),
          Event("ALLOW", "OUTBOUND", 17, 9, 2, 0, "", 0),
          Event("ALLOW", "UNKNOWN", 6, 1, 1, 4, "svc", 1),
          Event("ALLOW", "INBOUND", 2, 9, 1, 4, "system", 1),
          Event("ALLOW", "INBOUND", 1, 0, 0, 4, "system", 1)}
=============================================================================
