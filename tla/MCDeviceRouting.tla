--------------------------- MODULE MCDeviceRouting ---------------------------
(***************************************************************************)
(* One document with an outlet of its own, overrides of every kind and     *)
(* sets, one with legacy, bypassing and paused devices, one that inherits; *)
(* a source with two nodes and a group, and the same having lost a node.   *)
(***************************************************************************)
EXTENDS DeviceRouting

CONSTANTS a, b, fast, slow, group, s1, s2

MCLists == [video |-> {s1}, work |-> {s2}]
Anything == [to |-> <<>>, over |-> <<>>, sets |-> <<>>, template |-> ""]
RuleOf(id, match, action, policies, unsupported) ==
    [id |-> id, match |-> match, action |-> action, policies |-> policies, unsupported |-> unsupported]
ProfileOf(template, defaults, unsupported, rules) ==
    [template |-> template, defaults |-> defaults, unsupported |-> unsupported, rules |-> rules]
DeviceOf(id, mac, gateway, mode, profile) ==
    [id |-> id, mac |-> mac, lan |-> "home", host |-> IF id = a THEN 2 ELSE 4, gateway |-> gateway, mode |-> mode, profile |-> profile]

Templates == [media |-> [defaults |-> <<group>>, unsupported |-> "", sets |-> <<"video", "work">>,
    rules |-> <<RuleOf("media", [Anything EXCEPT !.template = "media"], none, <<slow, fast>>, "pass")>>]]
Profiles == [
    own |-> ProfileOf("", <<fast, slow>>, "pass",
        <<RuleOf("calls", [Anything EXCEPT !.to = <<s1, Local>>, !.over = <<"udp">>], none, <<slow, group>>, "reject"),
          RuleOf("never", [Anything EXCEPT !.sets = <<"work">>, !.over = <<"tcp", "udp">>], REJECT, <<>>, "")>>),
    shared |-> ProfileOf("media", <<>>, "reject",
        <<RuleOf("direct", [Anything EXCEPT !.to = <<s1>>], fast, <<>>, "")>>)]

MCDocuments == [
  mixed |-> [devices |-> <<DeviceOf(a, TRUE, "", "dedicated", "own"), DeviceOf(b, TRUE, "", "inherit_global", "shared")>>,
     profiles |-> Profiles, templates |-> Templates],
  legacy |-> [devices |-> <<DeviceOf(a, TRUE, "", "", "shared"), DeviceOf(b, TRUE, "upstream_router", "dedicated", "own")>>,
     profiles |-> Profiles, templates |-> Templates],
  paused |-> [devices |-> <<DeviceOf(a, FALSE, "", "inherit_global", "own"), DeviceOf(b, FALSE, "", "dedicated", "own")>>,
     profiles |-> Profiles, templates |-> Templates]]

MCSources == [
  full |-> [targets |-> <<fast, slow, group>>, groups |-> (group :> <<fast, slow>>),
     rules |-> <<Rule({<<"to", s2>>}, group), Rule({<<"set", "video">>, <<"over", "udp">>}, slow)>>, match |-> group],
  short |-> [targets |-> <<fast, group>>, groups |-> (group :> <<fast>>),
     rules |-> <<Rule({<<"to", s1>>}, REJECT)>>, match |-> none]]

NoTailscale == [on |-> FALSE, exit |-> FALSE, mac |-> FALSE, all |-> FALSE, devices |-> {}]
NetOf(lan, mode, dhcp, ipv6, router, ts) ==
    [lan |-> lan, mode |-> mode, dhcp |-> dhcp, ipv6 |-> ipv6, ready |-> TRUE, gateway |-> 1, router |-> router,
     broadcast |-> 7, pool |-> 3 .. 5, protected |-> {}, ts |-> ts]
MCNets == [
  takeover |-> NetOf("home", "same_wifi_dhcp", TRUE, TRUE, 6,
                 [NoTailscale EXCEPT !.on = TRUE, !.exit = TRUE, !.mac = TRUE, !.all = TRUE]),
  same |-> NetOf("home", "same_lan", FALSE, FALSE, 0, [NoTailscale EXCEPT !.on = TRUE, !.devices = {b}]),
  moved |-> NetOf("office", "isolated_lan", TRUE, TRUE, 0, NoTailscale)]

MCQuota == [edit |-> 1, source |-> 2, net |-> 1, select |-> 1, late |-> 1, switch |-> 1, fault |-> 1, die |-> 1, all |-> 3]
=============================================================================
