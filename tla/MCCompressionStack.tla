------------------------- MODULE MCCompressionStack -------------------------
(* Loads that vary one side each.                                          *)
EXTENDS CompressionStack

E(coding) == [coding |-> coding, q |-> NoQ]
Excluded(coding) == [coding |-> coding, q |-> [lead |-> 0, digits |-> <<>>]]

(* What a client may ask for itself: an encoding, several, none at all.    *)
OwnHeaders ==
  {<<E("gzip")>>, <<E("br"), E("gzip")>>, <<E("identity")>>, <<Excluded("*")>>,
   <<Excluded("identity"), E("compress")>>}

Clients == {{}, {"gzip"}, {"gzip", "br"}}
Servers == {{}, {"br"}, {"gzip", "br"}}

Q(lead, digits) == [lead |-> lead, digits |-> digits]

(* Double spellings of one encoding, a second encoding, identity, the         *)
(* wildcard and a name nobody knows; weights of 1 (absent or spelt out),   *)
(* 0, 0.5, the smallest one, and two malformed ones: more than 1, and four *)
(* decimals.                                                               *)
Names == {"gzip", "x-gzip", "br", "identity", "*"}
Weights == {NoQ, Q(0, <<>>), Q(0, <<5>>), Q(0, <<0, 0, 1>>)}
OddWeights == {Q(1, <<0>>), Q(1, <<0, 0, 1>>), Q(0, <<9, 9, 9, 9>>)}

(* Every header of two elements, of three without the odd ones.            *)
LongHeaders ==
  BoundedSeq([coding : Names \cup {"compress"}, q : Weights \cup OddWeights], 2)
    \cup BoundedSeq([coding : Names, q : Weights], 3)

Request(accept, lines, length) ==
  [accept |-> accept, content_encoding |-> lines, length |-> length,
   body |-> Coded(Applied(lines))]
Requests(accepts, headers, lengths) ==
  {Request(a, l, n) : a \in accepts, l \in headers, n \in lengths}

Plain ==
  [status |-> "ok", content_encoding |-> <<>>, content_range |-> FALSE,
   accept_ranges |-> FALSE, vary |-> FALSE, type |-> "text", size |-> MinSize,
   hint |-> TRUE, length |-> FALSE, body |-> Coded(<<>>), accept |-> Absent]
Response(lines) ==
  [Plain EXCEPT !.content_encoding = lines, !.body = Coded(Applied(lines))]

Single == BoundedSeq({"gzip", "compress", "identity"}, 1)
Double == SeqOf({"gzip", "br", "compress", "identity"}, 2)

(* Every response of at most one line, of sizes around the bound.          *)
Responses ==
  {[Response(lines) EXCEPT !.content_range = c, !.accept_ranges = a, !.vary = v,
                           !.type = t, !.size = s, !.hint = h, !.length = n] :
     lines \in Single, c \in BOOLEAN, a \in BOOLEAN, v \in BOOLEAN, t \in ContentTypes,
     s \in {MinSize - 1, MinSize, MinSize + 1}, h \in BOOLEAN, n \in BOOLEAN}

Load(clients, servers, pass_through, requests, responses) ==
  [clients |-> clients, servers |-> servers, pass_through |-> pass_through,
   requests |-> requests, responses |-> responses]

(* Requests with a coding that no server takes go through Compression and  *)
(* are refused, whatever they accept: the loads of all headers.            *)
(* What the handler asks of RequestDecompression and the length of a       *)
(* request matter up to the handler only: the load of requests.            *)
MCLoads ==
  [settings  |-> Load(Clients, Servers, {FALSE},
                      Requests(OwnHeaders \cup {Absent}, Single, {FALSE}), Responses),
   headers   |-> Load({{}}, Servers, {FALSE},
                      {Request(h, <<"compress">>, FALSE) : h \in LongHeaders}, {}),
   requests  |-> Load(Clients, Servers, BOOLEAN,
                      Requests({Absent, <<E("gzip")>>}, Double, BOOLEAN), {Plain}),
   responses |-> Load(Clients, Servers, {FALSE},
                      Requests({Absent, <<E("gzip")>>}, {<<>>}, BOOLEAN),
                      {[Response(l) EXCEPT !.accept_ranges = TRUE, !.length = n] :
                         l \in BoundedSeq({"gzip", "br", "compress", "identity"}, 3),
                         n \in BOOLEAN})]

MCTwiceLoads ==
  [twice |-> Load(Clients, Servers, BOOLEAN, Requests({Absent}, Double, BOOLEAN), {Plain})]
=============================================================================
