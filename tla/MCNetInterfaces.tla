-------------------------- MODULE MCNetInterfaces --------------------------
(* A small instance of NetInterfaces: files with the stanza of eth0 first, *)
(* last, alone and absent, with comments and options inside it.            *)
EXTENDS NetInterfaces

L(kind, val) == Line(kind, {}, val)
Auto(i) == Line("auto", {i}, NoVal)
Iface(i, word) == Line("iface", {i}, word)
Comment == L("comment", NoVal)

Lo == <<Auto("lo"), Iface("lo", "loopback")>>
Eth1 == <<Auto("eth1"), Iface("eth1", "static"), L("address", "b"), Comment>>
Dhcp == <<Auto("eth0"), Iface("eth0", "dhcp"), L("option", "b")>>
Static ==
    <<Auto("eth0"), Comment, Iface("eth0", "static"), L("address", "a"),
      L("gateway", "a"), Comment>>

MCFiles ==
    {<<>>, <<Comment>> \o Lo, Lo \o Dhcp, Static \o Lo, Lo \o Static \o Eth1,
     Dhcp \o Eth1 \o Lo, Static}

MCNetworks ==
    {[method |-> x, ip |-> "a", netmask |-> "m", gateway |-> NoVal] :
        x \in {"AUTO", "DHCP", "NONE"}}
    \cup [method : {"STATIC"}, ip : {"a", "b", NoVal}, netmask : {"m", NoVal},
          gateway : {"a", NoVal}]

(* The theorems of NetInterfacesProofs assume it.                          *)
ASSUME FilesAreWellFormed == WellFormed
=============================================================================
