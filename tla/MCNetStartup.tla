---------------------------- MODULE MCNetStartup ----------------------------
(* An instance of NetStartup for TLC. *)
EXTENDS NetStartup

GoodAddresses == {NoIp, DefaultForward, "223.5.5.5", "112.80.248.73"}
Atoi == [t \in {"", "53", "dns", "65536", "65589"} |->
           CASE t = "53" -> 53 [] t = "65536" -> 65536 [] t = "65589" -> 65589 [] OTHER -> 0]
OneLongName == {"a name of 512 characters"}

Element(name, attributes) == [name |-> name, attributes |-> attributes, children |-> << >>]
Parent(name, children) == [name |-> name, attributes |-> << >>, children |-> children]

(* The elements of the shipped file, with other attributes, too. *)
Bind(attributes) == Parent("Server", <<Element("BindSource", attributes)>>)
Forward(attributes) == Parent("Record", <<Element("Forward", attributes)>>)
Source(domain, ip) == Element("IPSource", [Domain |-> domain, ipaddr |-> ip])
Root == Parent("Root",
  <<Source("www.baidu.com", "112.80.248.73"), Source("a name of 512 characters", "223.5.5.5"),
    Element("Comment", << >>), Source("www.xuyuu.com", "211.68.122"),
    Source("www.baidu.com", "223.5.5.5"), Element("IPSource", [Domain |-> "www.edu.cn"])>>)

ShippedBind == Bind([ipaddr |-> "", port |-> "53"])
ShippedForward == Forward([ipaddr |-> "223.5.5.5"])

File(readings, elements) == [readings |-> readings, root |-> Parent("DNSCONFIG", elements)]
Readable(elements) == File(<<"root", "root", "root">>, elements)

SeveralFiles ==
  {File(<< >>, <<ShippedBind, Root, ShippedForward>>),
   File(<<"no root", "root", "root">>, <<ShippedBind, Root, ShippedForward>>),
   Readable(<<ShippedBind, Root, ShippedForward>>),
   Readable(<<ShippedForward, Root, Bind([ipaddr |-> "112.80.248.73", port |-> ""])>>),
   Readable(<<Bind([port |-> "65536"]), Forward(<< >>)>>),
   Readable(<<Root, Bind([ipaddr |-> "localhost", port |-> "dns"]), ShippedForward>>),
   Readable(<<ShippedBind, Root, Forward([ipaddr |-> "dns"])>>),
   Readable(<<Parent("Server", << >>), ShippedBind, Root>>)}
=============================================================================
