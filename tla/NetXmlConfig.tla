---------------------------- MODULE NetXmlConfig ----------------------------
(***************************************************************************)
(* Reading DNS.conf: net_xml/net_xml_common.c finds nodes in the document  *)
(* libxml2 has read, net_xml/net_xml_config.c takes the settings from      *)
(* them.  A pointer to a node is the sequence of the node and the siblings *)
(* behind it, and NULL is the empty one; a node is a record of its name,   *)
(* its attributes and its children.                                        *)
(***************************************************************************)
EXTENDS Integers, Sequences, FiniteSets, SequencesExt

CONSTANTS
  Addresses,   \* the texts inet_pton accepts
  Numbers,     \* atoi, a function from texts to numbers
  LongNames    \* names of NET_HASHMAP_DOMAIN_LEN characters or more

NoIp == "0.0.0.0"
DefaultForward == "8.8.8.8"
DnsPort == 53
Port == 0 .. 65535

ASSUME AtoiAssumption == \A t \in DOMAIN Numbers : Numbers[t] \in Int

(* What a file is to the program: what reading it in each of the three     *)
(* encodings gives, no reading if there is no file, and the root element.  *)
Reading == {"nothing", "no root", "root"}

-----------------------------------------------------------------------------
(* net_xml_common.c *)

(* The later readings are judged by the root that the first one had; as    *)
(* they are tried only when it had none, they are always thrown away.      *)
ConfigLoad(file) == file.readings # << >> /\ file.readings[1] = "root"

SearchList(nodes, v) ==
  LET i == SelectInSeq(nodes, LAMBDA n : n.name = v)
  IN  IF i = 0 THEN << >> ELSE SubSeq(nodes, i, Len(nodes))

SearchChildren(ptr, v) == SearchList(Head(ptr).children, v)

(* config_search4 without its last name: only the first child of a name is *)
(* looked into.                                                            *)
Search3(root, f1, f2, f3) ==
  IF root.name # f1 THEN << >>
  ELSE LET pnode == SearchChildren(<<root>>, f2)
       IN  IF pnode = << >> THEN << >> ELSE SearchChildren(pnode, f3)

-----------------------------------------------------------------------------
(* net_xml_config.c *)

(* An attribute that is missing and one that is empty are the same.        *)
Value(ptr, attr) ==
  IF attr \in DOMAIN Head(ptr).attributes THEN Head(ptr).attributes[attr] ELSE ""

(* inet_pton leaves its result alone when it does not accept the text.     *)
InetPton(text, old) == IF text \in Addresses THEN text ELSE old

(* The static nodes are zero before the file is parsed.                    *)
NoConfig == [bindip |-> NoIp, port |-> 0, forwdip |-> NoIp]

(* Seeded fault: an empty port is converted like any other. *)
ParseServerEmptyPort(config, root) ==
  LET ptr == Search3(root, "DNSCONFIG", "Server", "BindSource") IN
  IF ptr = << >> THEN config
  ELSE [config EXCEPT !.bindip = InetPton(Value(ptr, "ipaddr"), @),
                      !.port = Numbers[Value(ptr, "port")] % 65536]

(* Seeded fault: the port keeps the number that atoi gives, in an int. *)
ParseServerWidePort(config, root) ==
  LET ptr == Search3(root, "DNSCONFIG", "Server", "BindSource") IN
  IF ptr = << >> THEN config
  ELSE [config EXCEPT
          !.bindip = IF Value(ptr, "ipaddr") = "" THEN NoIp ELSE InetPton(Value(ptr, "ipaddr"), @),
          !.port   = IF Value(ptr, "port") = "" THEN DnsPort ELSE Numbers[Value(ptr, "port")]]

ParseServer(config, root) ==
  LET ptr == Search3(root, "DNSCONFIG", "Server", "BindSource") IN
  IF ptr = << >> THEN config
  ELSE [config EXCEPT
          !.bindip = IF Value(ptr, "ipaddr") = "" THEN NoIp ELSE InetPton(Value(ptr, "ipaddr"), @),
          !.port   = IF Value(ptr, "port") = "" THEN DnsPort ELSE Numbers[Value(ptr, "port")] % 65536]

ParseForward(config, root) ==
  LET ptr == Search3(root, "DNSCONFIG", "Record", "Forward")
      ip  == Value(ptr, "ipaddr")
  IN  IF ptr = << >> THEN config
      ELSE [config EXCEPT !.forwdip = IF ip = "" THEN DefaultForward ELSE InetPton(ip, @)]

(* The cache after the loop over the Root element: of each name the first  *)
(* entry that has an address, which is 0 when inet_pton rejects it.        *)
Usable(n) ==
  /\ n.name = "IPSource"
  /\ "Domain" \in DOMAIN n.attributes /\ n.attributes["Domain"] \notin LongNames
  /\ Value(<<n>>, "ipaddr") # ""
Records(root) ==
  LET nodes == Search3(root, "DNSCONFIG", "Root", "IPSource")
  IN  [name \in {n.attributes["Domain"] : n \in {m \in ToSet(nodes) : Usable(m)}} |->
         LET i == SelectInSeq(nodes, LAMBDA n : Usable(n) /\ n.attributes["Domain"] = name)
         IN  InetPton(Value(<<nodes[i]>>, "ipaddr"), NoIp)]

-----------------------------------------------------------------------------
(* What a file has to be for the server to run as its owner means it to:   *)
(* readable at once and no element in it twice; and then, for each setting *)
(* by itself, its element there and its value not malformed.  Nothing is   *)
(* said of how the program looks for them.                                 *)

At(root, f2, f3) ==
  {n \in UNION {ToSet(p.children) : p \in {q \in ToSet(root.children) : q.name = f2}} : n.name = f3}

Fine(n, attr, texts) == Value(<<n>>, attr) \in texts \cup {""}

PortTexts == {t \in DOMAIN Numbers : Numbers[t] \in Port \ {0}}

Sound(file) ==
  LET root == file.root IN
  /\ file.readings # << >> /\ file.readings[1] = "root"
  /\ root.name = "DNSCONFIG"
  /\ \A f2 \in {"Server", "Record", "Root"} :
       Cardinality({i \in DOMAIN root.children : root.children[i].name = f2}) <= 1

PortSound(root) ==
  /\ At(root, "Server", "BindSource") # {}
  /\ \A n \in At(root, "Server", "BindSource") : Fine(n, "port", PortTexts)
ForwardSound(root) ==
  /\ At(root, "Record", "Forward") # {}
  /\ \A n \in At(root, "Record", "Forward") : Fine(n, "ipaddr", Addresses \ {NoIp})
=============================================================================
