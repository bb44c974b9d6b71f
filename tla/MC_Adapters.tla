----------------------------- MODULE MC_Adapters -----------------------------
(***************************************************************************)
(* Tiendanube stores of three categories, one matching a slug, with pages  *)
(* that repeat, sell out, hold malformed products or never end; search     *)
(* APIs of up to five products that clamp, miscount or ignore the paging.  *)
(***************************************************************************)
EXTENDS Adapters

CONSTANTS robotsUrl, homeUrl, map1, map2, blogMap, api, tokenUrl

Phones  == <<"celulares">>
Samsung == <<"celulares", "samsung">>
Parts   == <<"tienda", "repuestos">>

MCCategory == {Phones, Samsung, Parts}
MCAlphabetical == [c \in MCCategory |-> CASE c = Phones -> 1 [] c = Samsung -> 2 [] OTHER -> 3]
MCPriority == <<<<"repuestos">>, <<"gone">>>>
MCUrl == MCCategory \cup {robotsUrl, homeUrl, map1, map2, blogMap, api, tokenUrl}

Sells(p) == [ext |-> p, state |-> "on_sale"]
Gone(p)  == [ext |-> p, state |-> "sold_out"]
Odd(p)   == [ext |-> p, state |-> "malformed"]

PageLists == {<<{Sells("p")}>>, <<{Gone("p")}, {Sells("q"), Odd("r")}>>,
              <<{Sells("p")}, {Sells("p")}, {Sells("q")}>>}

MCSites ==
  [pl \in Platform |->
     IF pl = "tiendanube"
     THEN {[gone |-> g, disallowed |-> d, maps |-> m, fallback |-> f,
            linked |-> [u \in {map1, map2, homeUrl} |->
                          IF u = map2 THEN {Parts} ELSE IF u = map1 THEN {Phones, Samsung} ELSE {Phones, Parts}],
            pages |-> [c \in MCCategory |-> IF c = Phones THEN ph ELSE IF c = Parts THEN pa ELSE <<{Sells("s")}>>]] :
              g \in {{}, {Phones}, {robotsUrl, map1}, {map2, homeUrl}}, d \in {{}, {Parts}, {homeUrl, Phones}},
              m \in {<<>>, <<blogMap, map1, map2>>},
              f \in {{}, {Sells("f")}}, ph \in PageLists, pa \in PageLists}
     ELSE {[gone |-> g, disallowed |-> d, size |-> n, serves |-> k, stuck |-> st, counts |-> h,
            total |-> t, odd |-> o] :
              g \in {{}, {robotsUrl}, {api}, {tokenUrl}}, d \in {{}, {tokenUrl}, {api}},
              n \in 0..5, k \in {1, 2}, st \in BOOLEAN,
              h \in IF pl = "wix" THEN {FALSE} ELSE BOOLEAN,
              t \in IF pl = "wix" THEN {0, 3, 5, 9} ELSE {0}, o \in {{}, {2}}}]

=============================================================================
