----------------------------- MODULE MCDnsZones -----------------------------
(* Configurations and registries for TLC.  An IPv6 address has six nibbles.*)
EXTENDS DnsZones, TLC

V4(a, b, c, d) == <<a, b, c, d>>
V6(a, b, c, d) == <<15, 13, a, b, c, d>>
Net4(a, len) == [width |-> 8, addr |-> a, len |-> len]
Net6(a, len) == [width |-> 4, addr |-> a, len |-> len]

Entry(type, name, ips, target) == [type |-> type, name |-> name, ips |-> ips, target |-> target]
Host(name, ips) == Entry("host_record", name, ips, "")
Alias(name, target) == Entry("ansible_host_alias", name, {}, target)
Domain(name, records) == [name |-> name, records |-> records]

Hosts == ("sjc" :> {V4(172, 22, 108, 34), V6(8, 6, 1, 1)}) @@ ("fra" :> {V4(172, 20, 0, 17)})
    @@ ("lab" :> {V6(8, 6, 1, 0)})
Conf(domains, routers, nets) ==
    [domains |-> domains, dns_domain |-> "highdef.dn42", hosts |-> Hosts,
     routers |-> routers, nets |-> nets]

Ns == V4(172, 22, 108, 54)
Own4 == Net4(V4(172, 22, 108, 0), 25)
Own6 == Net6(V6(8, 6, 0, 0), 16)
Zero4 == Net4(V4(172, 20, 0, 0), 24)      \* its zone is named as that of 172.20.0.0/16
Within6 == Net6(V6(8, 7, 0, 0), 18)        \* its zone is named as that of the /16
Between4 == Net4(V4(172, 20, 0, 0), 20)   \* not supported

Main == Domain("highdef.dn42",
    <<Alias("lg", "sjc"), Host("ns", {Ns, V6(8, 6, 5, 1)}), Host("dns", {Ns}),
      Entry("multi", "@", {V4(172, 22, 108, 53)}, ""), Alias("priv", "lab"),
      Entry("CNAME", "www", {}, "@")>>)
MyIp == Domain("myip.dn42", <<Entry("A", "v4", {V4(172, 20, 0, 81)}, "")>>)
Moved == Domain("highdef.dn42", <<Host("ns", {V4(172, 22, 108, 55), V6(8, 6, 5, 1)})>>)
Other == Domain("jlu5.dn42", <<Host("gw", {V4(172, 22, 108, 1)})>>)
Dangling == Domain("highdef.dn42", <<Host("ns", {Ns}), Alias("lg", "gone")>>)

MCConfs ==
    {Conf(<<Main>>, <<"sjc">>, <<Own4, Own6>>),
     Conf(<<Moved>>, <<"fra">>, <<Own4, Own6>>),
     Conf(<<Other, Moved>>, <<"sjc", "fra">>, <<Own4, Zero4, Within6>>),
     Conf(<<MyIp, Dangling>>, <<"sjc">>, <<Own4>>),
     Conf(<<Main>>, <<"fra">>, <<Own4, Between4>>)}

Line(kind, name, ip, spelt) == [kind |-> kind, name |-> name, ip |-> ip, spelt |-> spelt]
DnsFile(domain, ns, ds) ==
    [dir |-> "dns", domain |-> domain, net |-> Own4, nservers |-> ns, ds |-> ds]
NetFile(dir, net, ns, ds) ==
    [dir |-> dir, domain |-> "", net |-> net, nservers |-> ns, ds |-> ds]

B == Line("delegation", "b.delegation-servers.dn42", NoIp, "")
J == Line("delegation", "j.delegation-servers.dn42", NoIp, "")
BAt(ip) == [B EXCEPT !.ip = ip]
OurNs == Line("dn42", "ns.highdef.dn42", "172.22.108.54", "")

Servers_ == DnsFile("delegation-servers.dn42", <<BAt("b4"), BAt("b6"), BAt(BadIp), B>>, FALSE)
Common ==
    {Servers_,
     DnsFile("dn42", <<B>>, TRUE),
     DnsFile("highdef.dn42", <<OurNs>>, TRUE),
     DnsFile("neo", <<Line("other", "ns.neo", "n1", ""), OurNs,
                      Line("other", "ns2.neo", NoIp, "")>>, FALSE),
     NetFile("inetnum", Net4(V4(172, 20, 0, 0), 16), <<B>>, TRUE),
     NetFile("inetnum", Own4, <<OurNs, Line("other", "ns.else", "e1", "")>>, FALSE),
     NetFile("inetnum", Net4(V4(172, 20, 0, 0), 14), <<B>>, FALSE)}
Six == NetFile("inet6num", Net6(V6(8, 7, 0, 0), 16),
               <<B, Line("sync", "1.0.ipv6.registry-sync.dn42", NoIp, "s1")>>, FALSE)

MCRegistries ==
    {Common \cup {Six},
     {DnsFile("delegation-servers.dn42", <<B, BAt("b4")>>, FALSE)},
     {Servers_, DnsFile("neo", <<OurNs>>, FALSE), DnsFile("neo", <<B, J>>, TRUE)}}
MCDn42Names == {"delegation-servers.dn42", "highdef.dn42"}
=============================================================================
