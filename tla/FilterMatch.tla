---------------------------- MODULE FilterMatch ----------------------------
(***************************************************************************)
(* Which events a filter lets through: Filter.Matches and the address      *)
(* classes it rests on (src/filter.go).                                    *)
(*                                                                         *)
(* Texts are opaque.  All the code asks of two texts is whether they are   *)
(* equal but for case and whether one occurs in the other: Within[t] is    *)
(* the set of texts that occur in t, itself included, case aside.  Of an   *)
(* address only its text and what the classifying functions look for in it *)
(* are kept: a colon or a dot (fam), the first and last octet of a dotted  *)
(* one, "::1" (one) or a leading "ff" (ff) of the other kind.              *)
(***************************************************************************)
EXTENDS Integers, Sequences, TLC

CONSTANT Within

TextFields == {"protocol", "srcIP", "dstIP", "srcPort", "dstPort", "process", "rule"}
Negatable  == TextFields \cup {"pid"}

NoText      == [text |-> "", quoted |-> FALSE]      \* an empty box
Plain(t)    == [text |-> t, quoted |-> FALSE]
Quoted(t)   == [text |-> t, quoted |-> TRUE]
NoPid       == [given |-> FALSE, num |-> 0]
Pid(n)      == [given |-> TRUE, num |-> n]
BadPid      == Pid(-1)                              \* text that is no number
SentinelNoMatch == "(No matching rule)"

\* The event's side of each text field; a port is compared as its decimal text.
TextOf(e, field) ==
    CASE field = "protocol" -> e.protocol
      [] field = "srcIP"    -> e.src.text
      [] field = "dstIP"    -> e.dst.text
      [] field = "srcPort"  -> ToString(e.srcPort)
      [] field = "dstPort"  -> ToString(e.dstPort)
      [] field = "process"  -> e.process
      [] field = "rule"     -> e.rule

\* An operator named ...Mutant is a plausible mistake in the one after it; no
\* specification uses it.

MatchField(field, value) ==
    IF value.quoted THEN field = value.text ELSE value.text \in Within[field]

\* The first endpoint that has a family decides; "" when neither has one.
EventIPVersion(e) == IF e.src.fam # "" THEN e.src.fam ELSE e.dst.fam

IsLoopback(a) ==
    \/ a.fam = "ipv6" /\ a.one
    \/ a.fam = "ipv4" /\ a.first = 127

IsMulticastOrBroadcast(a) ==
    \/ a.fam = "ipv6" /\ a.ff
    \/ a.fam = "ipv4" /\ (a.first \in 224..239 \/ a.last = 255)

\* No ports: all multicast and broadcast traffic is noise.
IsNoise(f, e) ==
    /\ IsMulticastOrBroadcast(e.src) \/ IsMulticastOrBroadcast(e.dst)
    /\ f.noisePorts = {} \/ {e.srcPort, e.dstPort} \cap f.noisePorts # {}

\* (the flag of an empty box counts)
TextAdmitsMutant(f, e, field) ==
    \/ f.text[field] = NoText /\ field \notin f.negated
    \/ f.text[field] # NoText
         /\ MatchField(TextOf(e, field), f.text[field]) # (field \in f.negated)

\* A text box lets e through: it is empty, or matches unless negated.
TextAdmits(f, e, field) ==
    f.text[field] # NoText =>
        MatchField(TextOf(e, field), f.text[field]) # (field \in f.negated)

\* Text that is no PID lets nothing through, negated or not.
PidAdmits(f, e) ==
    f.pid.given =>
        f.pid.num >= 0 /\ (e.pid = f.pid.num) # ("pid" \in f.negated)

\* An event without a time stamp counts as current, one without addresses as
\* of either family.
Matches(f, e) ==
    /\ \A field \in TextFields : TextAdmits(f, e, field)
    /\ PidAdmits(f, e)
    /\ f.direction \in {"", e.direction}
    /\ f.action \in {"", e.action}
    /\ ~(f.onlyAfter /\ e.stamp = "before")
    /\ ~(f.hideNoise /\ IsNoise(f, e))
    /\ ~(f.hideNoMatch /\ e.rule = SentinelNoMatch)
    /\ ~(f.hideLoopback /\ IsLoopback(e.src) /\ IsLoopback(e.dst))
    /\ f.ipVersion = "" \/ EventIPVersion(e) \in {"", f.ipVersion}

=============================================================================
