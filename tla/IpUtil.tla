------------------------------- MODULE IpUtil -------------------------------
(***************************************************************************)
(* parse_addr of src/common/ip_util.h, the check every "<ip:port>"         *)
(* argument of puicproxy and puicagent goes through (multi_proxy_main and  *)
(* proxy_main: -l and -f with port_canbe_zero false, the agent's -o with   *)
(* it true).  It splits the text at its last ':' (strrchr), reads the port *)
(* with strtol(.., 10), and hands the ip part to uv_ip4_addr and           *)
(* uv_ip6_addr.                                                            *)
(*                                                                         *)
(* A text is a sequence of one-character strings.  The ip literals libuv   *)
(* accepts are the constant IpLiterals: their inner syntax is libuv's, not *)
(* this repository's.  strtol is modelled by what the C library does.      *)
(***************************************************************************)
EXTENDS Integers, Sequences, SequencesExt

CONSTANTS
    IpLiterals,     \* the texts uv_ip4_addr or uv_ip6_addr accepts
    AddrTexts       \* the argument texts the check enumerates

\* libuv accepts no empty ip literal.
ASSUME <<>> \notin IpLiterals

DecDigits == <<"0", "1", "2", "3", "4", "5", "6", "7", "8", "9">>
Digit == ToSet(DecDigits)
DigitValue(c) == CHOOSE v \in 0..9 : DecDigits[v + 1] = c

\* isspace in the C locale, less the vertical tab TLA+ strings cannot hold.
WhiteSpace == {" ", "\t", "\n", "\f", "\r"}
Sign == {"+", "-"}

\* parse_addr rejects every l >= 65536.
PortEnd == 65536

\* strtol accumulates in a long and saturates at LONG_MAX; every value at
\* or above PortEnd is rejected alike, so the model saturates at PortEnd.
Saturate(v) == IF v > PortEnd THEN PortEnd ELSE v

RECURSIVE SkipSpace(_, _)
SkipSpace(s, i) ==
    IF i <= Len(s) /\ s[i] \in WhiteSpace THEN SkipSpace(s, i + 1) ELSE i

RECURSIVE ScanDigits(_, _, _)
ScanDigits(s, i, v) ==
    IF i <= Len(s) /\ s[i] \in Digit
    THEN ScanDigits(s, i + 1, Saturate(10 * v + DigitValue(s[i])))
    ELSE [val |-> v, end |-> i]

\* strtol(s, &end, 10): leading white space, an optional sign, then the
\* longest run of digits.  end is the index it leaves *end at (Len(s) + 1
\* is the terminating '\0'); with no digits the value is 0 and end = s.
strtol(s) ==
    LET i == SkipSpace(s, 1)
        j == IF i <= Len(s) /\ s[i] \in Sign THEN i + 1 ELSE i
        r == ScanDigits(s, j, 0)
    IN  IF r.end = j THEN [val |-> 0, end |-> 1]
        ELSE [val |-> IF s[i] = "-" THEN -r.val ELSE r.val, end |-> r.end]

\* strrchr(s, ch): the index of the last ch, 0 (nullptr) when there is none.
strrchr(s, ch) == SelectLastInSeq(s, LAMBDA c : c = ch)

NoAddr == [ok |-> FALSE, ip |-> <<>>, port |-> 0]

\* parse_addr(addr, port_canbe_zero, ip, port, ss): false unless a ':'
\* follows a non-empty ip part, strtol reads the whole rest as a number in
\* [min_port, 65535], and libuv accepts the ip part as IPv4 or IPv6.
parse_addr(addr, port_canbe_zero) ==
    LET sep == strrchr(addr, ":")
        rest == SubSeq(addr, sep + 1, Len(addr))
        l == strtol(rest)
        min_port == IF port_canbe_zero THEN 0 ELSE 1
        ip == SubSeq(addr, 1, sep - 1)
    IN  CASE sep <= 1 -> NoAddr
          [] l.val < min_port \/ l.val >= PortEnd \/ l.end # Len(rest) + 1
                -> NoAddr
          [] ip \notin IpLiterals -> NoAddr
          [] OTHER -> [ok |-> TRUE, ip |-> ip, port |-> l.val]
=============================================================================
