----------------------------- MODULE MCDiscover -----------------------------
(***************************************************************************)
(* Scans of a network of two addresses, run the ways the dashboard and the *)
(* command line run them.                                                  *)
(***************************************************************************)
EXTENDS DiscoverProperties

NoOptions == [target |-> "network", root |-> FALSE, arp |-> FALSE, ping |-> FALSE, cache |-> FALSE,
              ports |-> FALSE, syn |-> FALSE, vendor |-> FALSE, hostname |-> FALSE, slots |-> 2]

\* _background_scan, run by root and by others.
OfDashboard == {[NoOptions EXCEPT !.root = root, !.arp = TRUE, !.ping = TRUE, !.cache = TRUE,
                                  !.vendor = TRUE, !.hostname = TRUE] : root \in BOOLEAN}

\* netscanx discover, with --ports, with --syn, and without --ping.
OfShell == {[NoOptions EXCEPT !.root = root, !.arp = TRUE, !.ping = ~ root, !.ports = TRUE,
                              !.syn = root] : root \in BOOLEAN}

\* netscanx discover of one host, and of a name.
OfOne == {[NoOptions EXCEPT !.target = target, !.root = root, !.arp = TRUE, !.ping = TRUE,
                            !.ports = (target = "host"), !.hostname = TRUE] :
           target \in {"host", "name"}, root \in BOOLEAN}

\* netscanx discover -c 0 and -c -1, whose only batches are of echo requests
\* and of ports.
OfNumbers == {[NoOptions EXCEPT !.target = "host", !.ping = (slots = 0), !.ports = TRUE, !.slots = slots] :
               slots \in {-1, 0}} \cup
             {[NoOptions EXCEPT !.ping = TRUE, !.cache = TRUE, !.ports = TRUE, !.slots = -1]}

MCOptions == OfDashboard \cup OfShell \cup OfOne \cup OfNumbers

\* sudo netscanx discover --syn.
SynOptions == {[NoOptions EXCEPT !.root = TRUE, !.arp = TRUE, !.syn = TRUE]}

=============================================================================
