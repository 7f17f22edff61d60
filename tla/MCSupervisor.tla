---------------------------- MODULE MCSupervisor ----------------------------
EXTENDS Supervisor

\* "A" stands for a dotted IPv4 literal; "::" and "::1" are IPv6 literals,
\* so that an address may hold several ':' and end in digits.
MCIpLiterals == {<<"A">>, <<":", ":">>, <<":", ":", "1">>}

\* The stop run needs arguments that parse.
MCGoodAddrTexts == {<<"A", ":", "1">>}
=============================================================================
