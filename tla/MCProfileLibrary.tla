-------------------------- MODULE MCProfileLibrary ---------------------------
(***************************************************************************)
(* A managed base, three subscriptions or uploads - two groups that share  *)
(* a list, the same having lost what overlays name, one with a rule after  *)
(* its MATCH - and overlays with operations of every kind.                 *)
(***************************************************************************)
EXTENDS ProfileLibrary, TLC

MCContents == [
  managed |-> [
    proxies |-> <<Named("a", 0)>>, groups |-> <<Group("pick", NoList, NoList)>>, lists |-> <<>>,
    providers |-> <<>>, ruleProviders |-> <<>>,
    rules |-> <<RuleTo("MATCH", "", "DIRECT")>>, dns |-> <<>>],
  full |-> [
    proxies |-> <<Named("a", 0), Named("b", 0)>>,
    groups |-> <<Group("pick", <<"pick", "proxies">>, NoList), Group("auto", <<"shared", "proxies">>, <<"auto", "use">>),
                 Group("video", <<"shared", "proxies">>, NoList)>>,
    lists |-> (<<"pick", "proxies">> :> <<"auto", "DIRECT">>) @@ (<<"shared", "proxies">> :> <<"a", "b">>)
              @@ (<<"auto", "use">> :> <<"airport">>),
    providers |-> <<Named("airport", 0)>>, ruleProviders |-> <<Named("ads", 0)>>,
    rules |-> <<RuleTo("RULE-SET", "ads", "REJECT"), RuleTo("DOMAIN", "", "video"), RuleTo("MATCH", "", "pick")>>,
    dns |-> [policy |-> [kind |-> "map", of |-> << <<"corp", "10.0.0.1">>, <<"home", "10.0.0.2">> >>],
             listen |-> [kind |-> "list", of |-> << <<"53">> >>]]],
  lean |-> [
    proxies |-> <<Named("a", 1)>>, groups |-> <<Group("pick", <<"pick", "proxies">>, NoList)>>,
    lists |-> (<<"pick", "proxies">> :> <<"a">>), providers |-> <<>>, ruleProviders |-> <<>>,
    rules |-> <<RuleTo("DOMAIN", "", "pick")>>,
    dns |-> [nameserver |-> [kind |-> "list", of |-> << <<"9.9.9.9">> >>]]],
  broken |-> [
    proxies |-> <<>>, groups |-> <<>>, lists |-> <<>>, providers |-> <<>>, ruleProviders |-> <<>>,
    rules |-> <<RuleTo("MATCH", "", "DIRECT"), RuleTo("DOMAIN", "", "REJECT")>>, dns |-> <<>>]]

On == [NoOperations EXCEPT !.enabled = TRUE]
Candidate(name, proxies, use) == [name |-> name, proxies |-> proxies, use |-> use]

MCOverlays == [
  off |-> NoOperations,
  \* A proxy of the user's own, preferred and added to a group, and rules around the source's.
  own |-> [On EXCEPT !.proxyAdd = <<Named("x", 0)>>, !.patch = <<Candidate("pick", <<"x">>, <<>>)>>,
           !.ruleProviderAdd = <<Named("cn", 0)>>,
           !.prepend = <<RuleTo("RULE-SET", "cn", "x")>>, !.append = <<RuleTo("DOMAIN", "", "pick")>>],
  \* Both groups of a shared list are patched; a provider is replaced, resolvers are merged.
  shared |-> [On EXCEPT !.patch = <<Candidate("video", <<"DIRECT">>, <<"airport">>), Candidate("pick", <<"b">>, <<>>)>>,
              !.providerReplace = <<Named("airport", 1)>>,
              !.dnsMerge = [policy |-> [kind |-> "map", of |-> << <<"corp", "10.0.0.9">> >>]]],
  replace |-> [On EXCEPT !.groupReplace = <<Candidate("pick", <<"x", "a">>, <<"more">>)>>,
               !.proxyAdd = <<Named("x", 0)>>, !.providerAdd = <<Named("more", 0)>>, !.proxyReplace = <<Named("a", 2)>>,
               !.dnsAppend = [nameserver |-> << <<"1.0.0.1">> >>]],
  \* Nobody has what these refer to, or it is there already.
  missing |-> [On EXCEPT !.prepend = <<RuleTo("DOMAIN", "", "nobody")>>],
  anchor |-> [On EXCEPT !.groupReplace = <<Candidate("auto", <<"a">>, <<>>)>>],
  table |-> [On EXCEPT !.dnsAppend = [policy |-> << <<"more">> >>], !.groupAdd = <<Candidate("g", <<"b">>, <<"airport">>)>>],
  \* No overlays at all.
  ending |-> [On EXCEPT !.append = <<RuleTo("MATCH", "", "DIRECT")>>],
  reserved |-> [On EXCEPT !.proxyAdd = <<Named("open-surge/tailscale", 0)>>]]

\* Two imports and one overlay, or one import and an overlay that is exchanged.
QuotaOf(ask, edit, publish, engine) ==
    [ask |-> ask, edit |-> edit, publish |-> publish, engine |-> engine,
     apply |-> 2, start |-> 2, stop |-> 1, address |-> 1, all |-> 5]
MCQuotas == {QuotaOf(2, 1, 1, 0), QuotaOf(1, 2, 0, 1)}
\* Requests are alike.
Requests == Permutations(Request)
=============================================================================
