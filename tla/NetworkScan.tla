---------------------------- MODULE NetworkScan ----------------------------
(***************************************************************************)
(* The scans of the module "Network" (see ComputerScan for g and h).       *)
(***************************************************************************)
EXTENDS MoreInfo

NetworkTexts == {"network_interfaces", "network_icons", "__routing_table", "__arp_table",
                 "__nameservers", "__connections", "__statistics",
                 "smb_shares_list", "nfs_shares_list"}

\* All details of the module go first; with no /proc/net/dev the list says so, if
\* there was one, and the icons stay.
scan_net_interfacesFreesOnly(g, h) ==   \* mutant: the list is freed before the file is opened
  [g EXCEPT !.info = IF h.readable THEN AddAll(Without(@, "NET"), "NET", h.devices) ELSE @,
            !.text = IF h.readable
                     THEN [@ EXCEPT !["network_interfaces"] = Heap(Listed("NET", h.devices)),
                                    !["network_icons"] = Heap(Rows(h.devices))]
                     ELSE [@ EXCEPT !["network_interfaces"] = Free(@)]]
scan_net_interfaces(g, h) ==
  LET cleared == Without(g.info, "NET")
      none    == IF IsSet(g.text["network_interfaces"]) THEN Heap(<<Note("none found")>>) ELSE Null
  IN IF h.readable
     THEN [g EXCEPT !.info = AddAll(cleared, "NET", h.devices),
                    !.text = [@ EXCEPT !["network_interfaces"] = Heap(Listed("NET", h.devices)),
                                       !["network_icons"] = Heap(Rows(h.devices))]]
     ELSE [g EXCEPT !.info = cleared, !.text["network_interfaces"] = none]

\* One configuration: smb.conf or what `net` says of a user's share.  One that
\* cannot be parsed replaces what was found before.
scan_samba_from_string(shares, conf) ==
  CASE ~conf.parses        -> Heap(<<Note("cannot parse")>>)
    [] conf.shares = <<>>  -> shares
    [] OTHER               -> Extend(shares, Rows(conf.shares))

scan_samba(g, h) ==
  LET before == IF IsSet(g.text["smb_shares_list"]) THEN Heap(<<>>) ELSE Null
  IN [g EXCEPT !.text["smb_shares_list"] =
        FoldLeft(scan_samba_from_string, before, h.smbconf \o h.usershares)]

scan_nfs_shared_directories(g, h) ==
  [g EXCEPT !.text["nfs_shares_list"] =
     Heap(IF h.exports = <<>> THEN <<Note("no exports")>> ELSE Rows(h.exports))]

scan_shares(g, h) == scan_nfs_shared_directories(scan_samba(g, h), h)

\* The pages that are one list of what a program or a file says; when it says
\* nothing the list is empty.
scan_route(g, h)       == [g EXCEPT !.text["__routing_table"] = Heap(Rows(h))]
scan_arp(g, h)         == [g EXCEPT !.text["__arp_table"] = Heap(Rows(h))]
scan_connections(g, h) == [g EXCEPT !.text["__connections"] = Heap(Rows(h))]
scan_statistics(g, h)  == [g EXCEPT !.text["__statistics"] = Heap(Rows(h))]
\* resolvectl, or /etc/resolv.conf when that names no server
scan_dns(g, h) ==
  [g EXCEPT !.text["__nameservers"] = Heap(Rows(IF h.resolvectl # <<>> THEN h.resolvectl ELSE h.resolv))]
=============================================================================
