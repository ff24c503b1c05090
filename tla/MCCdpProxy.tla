----------------------------- MODULE MCCdpProxy -----------------------------
(***************************************************************************)
(* Small instances of CdpProxy.                                            *)
(***************************************************************************)
EXTENDS CdpProxy

MCHere == "here"

Local(n) == [host |-> MCHere, port |-> n]

AutoEntry(p) == [profile |-> p, cdp_url |-> None, parses |-> FALSE, cdp_port |-> None]
UrlEntry(p, a, ok) == [profile |-> p, cdp_url |-> a, parses |-> ok, cdp_port |-> None]
PortEntry(p, n) == [profile |-> p, cdp_url |-> None, parses |-> FALSE, cdp_port |-> n]

\* No configuration; two allocated ports, which the range may not have; an
\* address before an allocated port, with a port that parses and one that does
\* not; an address after it; a profile listed twice.
MCConfigs ==
  {<< >>,
   <<AutoEntry(1), AutoEntry(2)>>,
   <<UrlEntry(1, Local(2), TRUE), AutoEntry(2)>>,
   <<UrlEntry(1, Local(2), FALSE), AutoEntry(2)>>,
   <<AutoEntry(1), UrlEntry(2, Local(2), TRUE)>>,
   <<PortEntry(1, 3), AutoEntry(2), PortEntry(1, 2)>>}

\* Two leases on different profiles, one of them short: a credential that is used
\* for the other profile shows.
MCGranted ==
  {[id |-> 1, profile |-> 1, expires |-> 2],
   [id |-> 2, profile |-> 2, expires |-> 3]}
=============================================================================
